------------------------- MODULE MetricStreamProofs -------------------------
(***************************************************************************)
(* Theorems about MetricStream, for all sets of zones and connections and  *)
(* every capacity of the channels.                                         *)
(*                                                                         *)
(* Type correctness needs nothing more. That clients end up with the facts *)
(* needs an account of what a connection has been or will be told at every *)
(* stage of its handler, stated with the two relations below instead of    *)
(* Latest, for any number of requests that broadcast at once.              *)
(***************************************************************************)
EXTENDS MetricStream, SequenceTheorems, TLAPS

-----------------------------------------------------------------------------
(* Channels. *)

\* The last that a channel says of zone z is version v; it says nothing of z.
Tells(q, z, v) ==
    \E k \in DOMAIN q : /\ q[k].zone = z /\ q[k].version = v
                        /\ \A j \in DOMAIN q : j > k => q[j].zone # z
Silent(q, z) == \A k \in DOMAIN q : q[k].zone # z

\* A metric that is appended is the last of its zone, and of no other.
LEMMA AfterAppend ==
    ASSUME NEW q \in Seq(Metric), NEW m \in Metric, NEW z
    PROVE  /\ Append(q, m) \in Seq(Metric)
           /\ z = m.zone => Tells(Append(q, m), z, m.version)
           /\ z # m.zone => \A v : Tells(q, z, v) => Tells(Append(q, m), z, v)
           /\ z # m.zone => (Silent(q, z) => Silent(Append(q, m), z))
<1> DEFINE r == Append(q, m)
<1>1. /\ r \in Seq(Metric) /\ Len(q) \in Nat /\ DOMAIN q = 1..Len(q) /\ DOMAIN r = 1..(Len(q) + 1)
      /\ \A k \in 1..Len(q) : r[k] = q[k]
      /\ r[Len(q) + 1] = m
  BY AppendProperties, LenProperties
<1> HIDE DEF r
<1>2. ASSUME z = m.zone PROVE Tells(r, z, m.version)
  BY <1>1, <1>2 DEF Tells
<1>3. ASSUME z # m.zone, NEW v, Tells(q, z, v) PROVE Tells(r, z, v)
  <2>1. PICK k \in DOMAIN q : /\ q[k].zone = z /\ q[k].version = v
                              /\ \A j \in DOMAIN q : j > k => q[j].zone # z
    BY <1>3 DEF Tells
  <2>2. k \in DOMAIN r /\ r[k] = q[k]
    BY <1>1, <2>1
  <2>3. \A j \in DOMAIN r : j > k => r[j].zone # z
    BY <1>1, <1>3, <2>1
  <2>4. QED
    BY <2>1, <2>2, <2>3 DEF Tells
<1>4. ASSUME z # m.zone, Silent(q, z) PROVE Silent(r, z)
  BY <1>1, <1>4 DEF Silent
<1>5. QED
  BY <1>1, <1>2, <1>3, <1>4 DEF r

\* What the head of a channel says is the last of its zone, or there is more.
LEMMA AfterTail ==
    ASSUME NEW q \in Seq(Metric), q # <<>>, NEW z
    PROVE  /\ Head(q) \in Metric /\ Tail(q) \in Seq(Metric)
           /\ Len(q) \in Nat /\ Len(Tail(q)) = Len(q) - 1
           /\ \A v : Tells(q, z, v) =>
                 \/ Tells(Tail(q), z, v)
                 \/ (Silent(Tail(q), z) /\ Head(q).zone = z /\ Head(q).version = v)
           /\ Silent(q, z) => Silent(Tail(q), z) /\ Head(q).zone # z
<1> DEFINE r == Tail(q)
<1>1. /\ r \in Seq(Metric) /\ Head(q) \in Metric /\ Len(q) \in Nat \ {0} /\ Len(r) = Len(q) - 1
      /\ DOMAIN q = 1..Len(q) /\ DOMAIN r = 1..(Len(q) - 1)
      /\ \A k \in 1..(Len(q) - 1) : r[k] = q[k + 1]
      /\ Head(q) = q[1]
  BY HeadTailProperties, LenProperties, EmptySeq
<1> HIDE DEF r
<1>2. ASSUME NEW v, Tells(q, z, v)
      PROVE  Tells(r, z, v) \/ (Silent(r, z) /\ Head(q).zone = z /\ Head(q).version = v)
  <2>1. PICK k \in DOMAIN q : /\ q[k].zone = z /\ q[k].version = v
                              /\ \A j \in DOMAIN q : j > k => q[j].zone # z
    BY <1>2 DEF Tells
  <2>2. CASE k = 1
    <3>1. ASSUME NEW j \in DOMAIN r PROVE r[j].zone # z
      <4>1. j + 1 \in DOMAIN q /\ j + 1 > k /\ r[j] = q[j + 1]
        BY <1>1, <2>2, <3>1
      <4>2. QED
        BY <2>1, <4>1
    <3>2. QED
      BY <1>1, <2>1, <2>2, <3>1 DEF Silent
  <2>3. CASE k # 1
    <3>1. k - 1 \in DOMAIN r /\ r[k - 1] = q[k]
      BY <1>1, <2>3
    <3>2. ASSUME NEW j \in DOMAIN r, j > k - 1 PROVE r[j].zone # z
      <4>1. j + 1 \in DOMAIN q /\ j + 1 > k /\ r[j] = q[j + 1]
        BY <1>1, <3>2
      <4>2. QED
        BY <2>1, <4>1
    <3>3. QED
      BY <2>1, <3>1, <3>2 DEF Tells
  <2>4. QED
    BY <2>2, <2>3
<1>3. ASSUME Silent(q, z) PROVE Silent(r, z) /\ Head(q).zone # z
  <2>1. \A j \in DOMAIN r : j + 1 \in DOMAIN q /\ r[j] = q[j + 1]
    BY <1>1
  <2>2. 1 \in DOMAIN q
    BY <1>1
  <2>3. QED
    BY <1>1, <1>3, <2>1, <2>2 DEF Silent
<1>4. QED
  BY <1>1, <1>2, <1>3 DEF r

\* An empty channel is silent.
LEMMA EmptyIsSilent == \A z : Silent(<<>>, z)
  BY DEF Silent

-----------------------------------------------------------------------------
(* Type correctness. *)

LEMMA TypeInit == Init => TypeOK
<1> SUFFICES ASSUME Init PROVE TypeOK
  OBVIOUS
<1>1. 0 \in 0..MaxSets /\ 0 <= SubCap
  BY StreamAssumption
<1>2. Blank \in [Zones -> 0..MaxSets]
  BY <1>1 DEF Blank
<1>3. <<>> \in Seq(Metric) /\ Len(<<>>) = 0
  BY EmptySeq
<1>4. carried \in [Writers -> Metric]
  BY <1>1 DEF Init, Metric
<1>5. /\ chan \in [Conns -> Seq(Metric)] /\ \A c \in Conns : Len(chan[c]) <= SubCap
  BY <1>1, <1>3 DEF Init
<1>6. missed \in [Conns -> [Zones -> BOOLEAN]] /\ gone \in [Conns -> BOOLEAN]
  BY DEF Init
<1>7. /\ fact \in [Zones -> 0..MaxSets] /\ sets \in 0..MaxSets /\ subs \subseteq Conns
      /\ rivals \in [Zones -> SUBSET (0..MaxSets)]
  BY <1>1, <1>2 DEF Init
<1>8. /\ to \in [Writers -> SUBSET Conns] /\ left \in [Conns -> SUBSET Zones]
      /\ conn \in [Conns -> {"new", "subscribed", "booting", "live", "closed"}]
      /\ boot \in [Conns -> [Zones -> 0..MaxSets]] /\ view \in [Conns -> [Zones -> 0..MaxSets]]
  BY <1>2 DEF Init
<1>9. QED
  BY <1>4, <1>5, <1>6, <1>7, <1>8 DEF TypeOK

LEMMA TypeManager ==
    ASSUME TypeOK, NEW w \in Writers, (\E z \in Zones : Set(w, z)) \/ (\E c \in Conns : Broadcast(w, c))
    PROVE  TypeOK'
<1> USE DEF TypeOK
<1>1. ASSUME NEW z \in Zones, Set(w, z) PROVE TypeOK'
  <2>1. sets' = sets + 1 /\ sets' \in 0..MaxSets
    BY <1>1, StreamAssumption DEF Set
  <2>2. fact' \in [Zones -> 0..MaxSets]
    BY <1>1, <2>1 DEF Set
  <2>3. carried' \in [Writers -> Metric]
    BY <1>1, <2>1 DEF Set, Metric
  <2>4. to' \in [Writers -> SUBSET Conns]
    BY <1>1 DEF Set
  <2>5. BeingSent(z) \subseteq 0..MaxSets
    BY DEF BeingSent, Metric
  <2>6. rivals' \in [Zones -> SUBSET (0..MaxSets)]
    BY <1>1, <2>5 DEF Set
  <2>7. QED
    BY <1>1, <2>1, <2>2, <2>3, <2>4, <2>6 DEF Set, handlerVars
<1>2. ASSUME NEW c \in Conns, Broadcast(w, c) PROVE TypeOK'
  <2>1. carried[w] \in Metric /\ carried[w].zone \in Zones
    BY DEF Metric
  <2>2. chan' \in [Conns -> Seq(Metric)] /\ \A d \in Conns : Len(chan'[d]) <= SubCap
    <3>1. CASE ChanHasRoom(c)
      <4>1. chan' = [chan EXCEPT ![c] = Append(chan[c], carried[w])]
        BY <1>2, <3>1 DEF Broadcast
      <4>2. /\ Append(chan[c], carried[w]) \in Seq(Metric) /\ Len(chan[c]) \in Nat
            /\ Len(Append(chan[c], carried[w])) = Len(chan[c]) + 1
        BY <2>1, AppendProperties, LenProperties
      <4>3. Len(chan[c]) + 1 <= SubCap
        BY <3>1, <4>2, StreamAssumption DEF ChanHasRoom
      <4>4. QED
        BY <4>1, <4>2, <4>3
    <3>2. CASE ~ChanHasRoom(c)
      BY <1>2, <3>2 DEF Broadcast
    <3>3. QED
      BY <3>1, <3>2
  <2>3. missed' \in [Conns -> [Zones -> BOOLEAN]]
    <3>1. PICK b \in BOOLEAN : missed' = [missed EXCEPT ![c][carried[w].zone] = b]
      BY <1>2 DEF Broadcast
    <3>2. [missed[c] EXCEPT ![carried[w].zone] = b] \in [Zones -> BOOLEAN]
      BY <3>1, Zenon
    <3>3. QED
      BY <3>1, <3>2, Zenon
  <2>4. to' \in [Writers -> SUBSET Conns]
    BY <1>2 DEF Broadcast
  <2>5. QED
    BY <1>2, <2>2, <2>3, <2>4 DEF Broadcast, managerVars, handlerVars
<1>3. QED
  BY <1>1, <1>2

LEMMA TypeHandler ==
    ASSUME TypeOK, NEW c \in Conns, Subscribe(c) \/ Handler(c) \/ HangUp(c)
    PROVE  TypeOK'
<1> USE DEF TypeOK
<1>1. CASE Subscribe(c) \/ TakeSnapshot(c) \/ Close(c) \/ HangUp(c)
  <2>1. conn' \in [Conns -> {"new", "subscribed", "booting", "live", "closed"}]
    BY <1>1 DEF Subscribe, TakeSnapshot, Close, HangUp, handlerVars
  <2>2. subs' \subseteq Conns /\ left' \in [Conns -> SUBSET Zones]
    <3>1. left' = left \/ left' = [left EXCEPT ![c] = Zones]
      BY <1>1 DEF Subscribe, TakeSnapshot, Close, HangUp, handlerVars
    <3>2. subs' \subseteq Conns
      BY <1>1 DEF Subscribe, TakeSnapshot, Close, HangUp
    <3>3. left \in [Conns -> SUBSET Zones]
      OBVIOUS
    <3>4. QED
      BY ONLY <3>1, <3>2, <3>3
  <2>3. boot' \in [Conns -> [Zones -> 0..MaxSets]]
    <3>1. boot' = boot \/ boot' = [boot EXCEPT ![c] = fact]
      BY <1>1 DEF Subscribe, TakeSnapshot, Close, HangUp, handlerVars
    <3>2. QED
      BY <3>1
  <2>4. gone' \in [Conns -> BOOLEAN]
    <3>1. gone' = gone \/ gone' = [gone EXCEPT ![c] = TRUE]
      BY <1>1, Zenon DEF Subscribe, TakeSnapshot, Close, HangUp
    <3>2. QED
      BY <3>1, Zenon
  <2>5. UNCHANGED <<fact, sets, rivals, chan, carried, to, view, missed>>
    BY <1>1 DEF Subscribe, TakeSnapshot, Close, HangUp, managerVars, writerVars, handlerVars
  <2>6. QED
    BY <2>1, <2>2, <2>3, <2>4, <2>5, Zenon
<1>2. CASE WriteSnapshot(c)
  BY <1>2 DEF WriteSnapshot, managerVars, writerVars
<1>3. CASE Forward(c)
  <2>1. /\ chan[c] # <<>> /\ chan' = [chan EXCEPT ![c] = Tail(chan[c])]
        /\ view' = [view EXCEPT ![c][Head(chan[c]).zone] = Head(chan[c]).version]
        /\ UNCHANGED <<managerVars, subs, writerVars, conn, left, boot, missed, gone>>
    BY <1>3 DEF Forward
  <2>2. /\ Head(chan[c]) \in Metric /\ Tail(chan[c]) \in Seq(Metric)
        /\ Len(chan[c]) \in Nat /\ Len(Tail(chan[c])) = Len(chan[c]) - 1
    BY <2>1, AfterTail
  <2>3. Len(Tail(chan[c])) <= SubCap
    BY <2>2, StreamAssumption
  <2>4. chan' \in [Conns -> Seq(Metric)] /\ \A d \in Conns : Len(chan'[d]) <= SubCap
    BY <2>1, <2>2, <2>3
  <2>5. view' \in [Conns -> [Zones -> 0..MaxSets]]
    BY <2>1, <2>2 DEF Metric
  <2>6. QED
    BY <2>1, <2>4, <2>5 DEF managerVars, writerVars
<1>4. QED
  BY <1>1, <1>2, <1>3 DEF Handler

LEMMA TypeNext == TypeOK /\ [Next]_vars => TypeOK'
<1> SUFFICES ASSUME TypeOK, [Next]_vars PROVE TypeOK'
  OBVIOUS
<1>1. CASE UNCHANGED vars
  BY <1>1 DEF vars, managerVars, writerVars, handlerVars, TypeOK
<1>2. QED
  BY <1>1, TypeManager, TypeHandler DEF Next

\* Channels hold metrics and never more than their capacity, however many
\* writers and streams there are (Set's select with a default, Subscribe).
THEOREM TypeCorrect == Spec => []TypeOK
  BY TypeInit, TypeNext, PTL DEF Spec

-----------------------------------------------------------------------------
(* Clients and facts. *)

\* What a client may end up with: the fact, or what may have overtaken it.
Current(z) == {fact[z]} \cup rivals[z]

Joined == {"subscribed", "booting", "live"}

\* Nothing else is being sent.
CarriesCurrent == \A w \in Writers : to[w] # {} => carried[w].version \in Current(carried[w].zone)

\* A handler holds a subscription from its first step to its last, and its
\* channel is empty before; the snapshot is out when it forwards.
HoldsSlot ==
    \A c \in Conns :
        /\ conn[c] \in Joined => c \in subs
        /\ conn[c] = "new" => c \notin subs /\ chan[c] = <<>> /\ \A w \in Writers : c \notin to[w]
        /\ conn[c] = "live" => left[c] = {}

\* What a client knows without its channel.
Base(c, z) == IF z \in left[c] THEN boot[c][z] ELSE view[c][z]

\* Where that is: the last the channel says of the zone, or, if the channel
\* says nothing, in the snapshot or the view, once there is a snapshot.
Account(c, z) ==
    conn[c] \in Joined /\ ~OnItsWay(c, z) /\ ~missed[c][z] =>
        \/ \E v \in Current(z) : Tells(chan[c], z, v)
        \/ Silent(chan[c], z) /\ (conn[c] # "subscribed" => Base(c, z) \in Current(z))

StreamInv == TypeOK /\ CarriesCurrent /\ HoldsSlot /\ \A c \in Conns, z \in Zones : Account(c, z)

LEMMA AccountLatest ==
    ASSUME TypeOK, NEW c \in Conns, NEW z \in Zones,
           NEW v, Tells(chan[c], z, v) \/ (Silent(chan[c], z) /\ Base(c, z) = v)
    PROVE  Latest(c, z) = v
<1>1. CASE Tells(chan[c], z, v)
  <2>1. PICK k \in DOMAIN chan[c] : /\ chan[c][k].zone = z /\ chan[c][k].version = v
                                    /\ \A j \in DOMAIN chan[c] : j > k => chan[c][j].zone # z
    BY <1>1 DEF Tells
  <2>2. DOMAIN chan[c] = 1..Len(chan[c]) /\ Len(chan[c]) \in Nat
    BY LenProperties DEF TypeOK
  <2>3. k \in InChannel(c, z) /\ \A j \in InChannel(c, z) : j <= k
    BY <2>1, <2>2 DEF InChannel
  <2>4. \A n \in InChannel(c, z) : (\A j \in InChannel(c, z) : j <= n) => n = k
    BY <2>2, <2>3 DEF InChannel
  <2>5. k = CHOOSE n \in InChannel(c, z) : \A j \in InChannel(c, z) : j <= n
    BY <2>3, <2>4
  <2>6. InChannel(c, z) # {}
    BY <2>3
  <2>7. Latest(c, z) = chan[c][CHOOSE n \in InChannel(c, z) : \A j \in InChannel(c, z) : j <= n].version
    BY <2>6 DEF Latest
  <2>8. QED
    BY <2>1, <2>5, <2>7
<1>2. CASE Silent(chan[c], z) /\ Base(c, z) = v
  BY <1>2 DEF Silent, Latest, InChannel, Base
<1>3. QED
  BY <1>1, <1>2

LEMMA StreamInit == Init => StreamInv
<1> SUFFICES ASSUME Init PROVE StreamInv
  OBVIOUS
<1>1. TypeOK
  BY TypeInit
<1>2. CarriesCurrent
  BY DEF Init, CarriesCurrent
<1>3. HoldsSlot
  BY DEF Init, HoldsSlot, Joined
<1>4. \A c \in Conns, z \in Zones : Account(c, z)
  BY DEF Init, Account, Joined
<1>5. QED
  BY <1>1, <1>2, <1>3, <1>4 DEF StreamInv

LEMMA StreamSet ==
    ASSUME StreamInv, NEW w \in Writers, NEW z \in Zones, Set(w, z)
    PROVE  CarriesCurrent' /\ HoldsSlot' /\ \A c \in Conns, y \in Zones : Account(c, y)'
<1>1. /\ to[w] = {} /\ sets' = sets + 1 /\ fact' = [fact EXCEPT ![z] = sets']
      /\ rivals' = [rivals EXCEPT ![z] = BeingSent(z)]
      /\ carried' = [carried EXCEPT ![w] = [zone |-> z, version |-> sets']]
      /\ to' = [to EXCEPT ![w] = subs] /\ UNCHANGED <<subs, chan, handlerVars, missed, gone>>
  BY DEF Set
<1>2. /\ fact \in [Zones -> 0..MaxSets] /\ carried \in [Writers -> Metric]
      /\ to \in [Writers -> SUBSET Conns] /\ rivals \in [Zones -> SUBSET (0..MaxSets)]
  BY DEF StreamInv, TypeOK
<1>3. carried'[w] = [zone |-> z, version |-> sets'] /\ to'[w] = subs /\ fact'[z] = sets'
  BY <1>1, <1>2
<1>4. \A v \in Writers : v # w => carried'[v] = carried[v] /\ to'[v] = to[v]
  BY <1>1, <1>2
<1>5. rivals'[z] = BeingSent(z) /\ \A y \in Zones : y # z => fact'[y] = fact[y] /\ rivals'[y] = rivals[y]
  BY <1>1, <1>2
<1>6. CarriesCurrent'
  <2>1. ASSUME NEW v \in Writers, to'[v] # {} PROVE carried'[v].version \in {fact'[carried'[v].zone]} \cup rivals'[carried'[v].zone]
    <3>1. CASE v = w
      BY <1>3, <3>1
    <3>2. CASE v # w /\ carried[v].zone = z
      BY <1>4, <1>5, <2>1, <3>2 DEF BeingSent
    <3>3. CASE v # w /\ carried[v].zone # z
      BY <1>2, <1>4, <1>5, <2>1, <3>3 DEF StreamInv, CarriesCurrent, Current, Metric
    <3>4. QED
      BY <3>1, <3>2, <3>3
  <2>2. QED
    BY <2>1 DEF CarriesCurrent, Current
<1>7. HoldsSlot'
  BY <1>1, <1>3, <1>4 DEF StreamInv, HoldsSlot, handlerVars
<1>8. ASSUME NEW c \in Conns, NEW y \in Zones PROVE Account(c, y)'
  <2>1. CASE y = z
    <3>1. conn[c] \in Joined => OnItsWay(c, y)'
      BY <1>3, <2>1 DEF StreamInv, HoldsSlot, OnItsWay
    <3>2. conn' = conn
      BY <1>1 DEF handlerVars
    <3>3. QED
      BY <3>1, <3>2 DEF Account
  <2>2. CASE y # z
    <3>1. OnItsWay(c, y) => OnItsWay(c, y)'
      BY <1>1, <1>4 DEF OnItsWay
    <3>2. Current(y)' = Current(y)
      BY <1>5, <2>2 DEF Current
    <3>3. Account(c, y)
      BY DEF StreamInv
    <3>4. QED
      BY <1>1, <3>1, <3>2, <3>3 DEF Account, Base, handlerVars
  <2>3. QED
    BY <2>1, <2>2
<1>9. QED
  BY <1>6, <1>7, <1>8

LEMMA StreamBroadcast ==
    ASSUME StreamInv, NEW w \in Writers, NEW c \in Conns, Broadcast(w, c)
    PROVE  CarriesCurrent' /\ HoldsSlot' /\ \A d \in Conns, y \in Zones : Account(d, y)'
<1> DEFINE m == carried[w]
<1>1. /\ c \in to[w] /\ to' = [to EXCEPT ![w] = to[w] \ {c}]
      /\ UNCHANGED <<fact, sets, rivals, subs, carried, conn, left, boot, view, gone>>
  BY DEF Broadcast, managerVars, handlerVars
<1>2. \/ /\ chan' = [chan EXCEPT ![c] = Append(chan[c], m)]
         /\ missed' = [missed EXCEPT ![c][m.zone] = FALSE]
      \/ /\ chan' = chan
         /\ missed' = [missed EXCEPT ![c][m.zone] = TRUE]
  BY DEF Broadcast
<1>3. /\ m \in Metric /\ m.zone \in Zones /\ m.version \in Current(m.zone)
      /\ to \in [Writers -> SUBSET Conns] /\ chan \in [Conns -> Seq(Metric)]
      /\ missed \in [Conns -> [Zones -> BOOLEAN]]
  BY <1>1 DEF StreamInv, TypeOK, CarriesCurrent, Metric
<1>4. \A z : Current(z)' = Current(z)
  BY <1>1 DEF Current
<1>5. to'[w] = to[w] \ {c} /\ \A v \in Writers : v # w => to'[v] = to[v]
  BY <1>1, <1>3
<1>6. CarriesCurrent'
  BY <1>1, <1>4, <1>5 DEF StreamInv, CarriesCurrent
<1>7. HoldsSlot'
  <2>1. conn[c] # "new"
    BY <1>1 DEF StreamInv, HoldsSlot
  <2>2. \A d \in Conns : d # c => chan'[d] = chan[d]
    BY <1>2, <1>3
  <2>3. QED
    BY <1>1, <1>4, <1>5, <2>1, <2>2 DEF StreamInv, HoldsSlot
<1>8. ASSUME NEW d \in Conns, NEW y \in Zones, d # c \/ y # m.zone PROVE Account(d, y)'
  <2>1. Account(d, y)
    BY DEF StreamInv
  <2>2. OnItsWay(d, y) => OnItsWay(d, y)'
    BY <1>1, <1>4, <1>5, <1>8 DEF OnItsWay
  <2>3. missed'[d][y] = missed[d][y]
    <3>1. ASSUME NEW b \in BOOLEAN, missed' = [missed EXCEPT ![c][m.zone] = b]
          PROVE  missed'[d][y] = missed[d][y]
      BY <1>3, <1>8, <3>1, Zenon
    <3>2. QED
      BY <1>2, <3>1
  <2>4. /\ \A v : Tells(chan[d], y, v) => Tells(chan'[d], y, v)
        /\ Silent(chan[d], y) => Silent(chan'[d], y)
    <3>1. CASE chan'[d] = chan[d]
      BY <3>1
    <3>2. CASE d = c /\ chan' = [chan EXCEPT ![c] = Append(chan[c], m)]
      <4>1. chan'[d] = Append(chan[d], m) /\ chan[d] \in Seq(Metric) /\ y # m.zone
        BY <1>3, <1>8, <3>2
      <4>2. m \in Metric
        BY <1>3
      <4>3. QED
        BY <4>1, <4>2, AfterAppend
    <3>3. QED
      BY <1>2, <1>3, <3>1, <3>2
  <2>5. QED
    BY <1>1, <1>4, <2>1, <2>2, <2>3, <2>4 DEF Account, Base
<1>9. Account(c, m.zone)'
  <2>1. CASE chan' = [chan EXCEPT ![c] = Append(chan[c], m)]
    <3>1. chan'[c] = Append(chan[c], m) /\ chan[c] \in Seq(Metric)
      BY <1>3, <2>1
    <3>2. Tells(chan'[c], m.zone, m.version)
      BY <1>3, <3>1, AfterAppend
    <3>3. QED
      BY <1>1, <1>3, <3>2 DEF Account, Current
  <2>2. CASE missed' = [missed EXCEPT ![c][m.zone] = TRUE]
    <3>1. missed'[c][m.zone]
      BY <1>3, <2>2, Zenon
    <3>2. QED
      BY <1>1, <3>1 DEF Account
  <2>3. QED
    BY <1>2, <2>1, <2>2
<1>10. QED
  BY <1>1, <1>6, <1>7, <1>8, <1>9

\* The connections that a step of one handler leaves alone.
LEMMA OthersAccount ==
    ASSUME StreamInv, NEW d \in Conns, NEW y \in Zones,
           UNCHANGED <<fact, rivals, carried, to, missed>>,
           conn'[d] = conn[d], chan'[d] = chan[d], left'[d] = left[d], boot'[d] = boot[d], view'[d] = view[d]
    PROVE  Account(d, y)'
<1>1. Account(d, y)
  BY DEF StreamInv
<1>2. OnItsWay(d, y)' <=> OnItsWay(d, y)
  BY DEF OnItsWay
<1>3. QED
  BY <1>1, <1>2 DEF Account, Base, Current

LEMMA StreamHandler ==
    ASSUME StreamInv, NEW c \in Conns, Subscribe(c) \/ Handler(c) \/ HangUp(c)
    PROVE  CarriesCurrent' /\ HoldsSlot' /\ \A d \in Conns, y \in Zones : Account(d, y)'
<1>1. /\ conn \in [Conns -> {"new", "subscribed", "booting", "live", "closed"}]
      /\ chan \in [Conns -> Seq(Metric)] /\ left \in [Conns -> SUBSET Zones]
      /\ boot \in [Conns -> [Zones -> 0..MaxSets]] /\ view \in [Conns -> [Zones -> 0..MaxSets]]
  BY DEF StreamInv, TypeOK
<1>2. UNCHANGED <<fact, rivals, carried, to, missed>>
  BY DEF Subscribe, Handler, TakeSnapshot, WriteSnapshot, Forward, Close, HangUp, managerVars, writerVars
<1>3. CarriesCurrent'
  BY <1>2 DEF StreamInv, CarriesCurrent, Current
<1>4. \A y \in Zones : (OnItsWay(c, y)' <=> OnItsWay(c, y)) /\ Current(y)' = Current(y)
  BY <1>2 DEF OnItsWay, Current
<1>5. CASE Subscribe(c)
  <2>1. /\ conn[c] = "new" /\ conn' = [conn EXCEPT ![c] = "subscribed"] /\ subs' = subs \cup {c}
        /\ UNCHANGED <<chan, left, boot, view>>
    BY <1>5 DEF Subscribe
  <2>2. conn'[c] = "subscribed" /\ \A d \in Conns : d # c => conn'[d] = conn[d]
    BY <1>1, <2>1
  <2>3. chan'[c] = <<>>
    BY <2>1 DEF StreamInv, HoldsSlot
  <2>4. \A y \in Zones : Account(c, y)'
    BY <2>2, <2>3, EmptyIsSilent DEF Account
  <2>5. HoldsSlot'
    BY <1>2, <2>1, <2>2 DEF StreamInv, HoldsSlot, Joined
  <2>6. QED
    BY <1>2, <1>3, <2>1, <2>2, <2>4, <2>5, OthersAccount
<1>6. CASE TakeSnapshot(c)
  <2>1. /\ conn[c] = "subscribed" /\ conn' = [conn EXCEPT ![c] = "booting"]
        /\ boot' = [boot EXCEPT ![c] = fact] /\ left' = [left EXCEPT ![c] = Zones]
        /\ UNCHANGED <<subs, chan, view>>
    BY <1>6 DEF TakeSnapshot
  <2>2. /\ conn'[c] = "booting" /\ boot'[c] = fact /\ left'[c] = Zones
        /\ \A d \in Conns : d # c => conn'[d] = conn[d] /\ boot'[d] = boot[d] /\ left'[d] = left[d]
    BY <1>1, <2>1
  <2>3. ASSUME NEW y \in Zones PROVE Account(c, y)'
    <3>1. Account(c, y) /\ conn[c] \in Joined
      BY <2>1 DEF StreamInv, Joined
    <3>2. Base(c, y)' \in Current(y)
      BY <2>2 DEF Base, Current
    <3>3. QED
      BY <1>2, <1>4, <2>1, <3>1, <3>2 DEF Account
  <2>4. HoldsSlot'
    BY <1>2, <2>1, <2>2 DEF StreamInv, HoldsSlot, Joined
  <2>5. QED
    BY <1>2, <1>3, <2>1, <2>2, <2>3, <2>4, OthersAccount
<1>7. CASE WriteSnapshot(c)
  <2>1. PICK z \in left[c] :
            /\ view' = [view EXCEPT ![c][z] = boot[c][z]]
            /\ left' = [left EXCEPT ![c] = left[c] \ {z}]
            /\ conn' = IF left[c] = {z} THEN [conn EXCEPT ![c] = "live"] ELSE conn
    BY <1>7 DEF WriteSnapshot
  <2>2. conn[c] = "booting" /\ UNCHANGED <<subs, chan, boot>>
    BY <1>7 DEF WriteSnapshot
  <2>3. /\ left'[c] = left[c] \ {z} /\ z \in Zones
        /\ conn'[c] \in {"booting", "live"} /\ (conn'[c] = "live" => left[c] = {z})
        /\ \A d \in Conns : d # c => conn'[d] = conn[d] /\ view'[d] = view[d] /\ left'[d] = left[d]
    BY <1>1, <2>1, <2>2
  <2>4. \A y \in Zones : view'[c][y] = IF y = z THEN boot[c][z] ELSE view[c][y]
    BY <1>1, <2>1, <2>3
  <2>5. \A y \in Zones : Base(c, y)' = Base(c, y)
    BY <2>1, <2>2, <2>3, <2>4 DEF Base
  <2>6. \A y \in Zones : Account(c, y)'
    BY <1>2, <1>4, <2>2, <2>3, <2>5 DEF StreamInv, Account, Joined
  <2>7. HoldsSlot'
    BY <1>2, <2>2, <2>3 DEF StreamInv, HoldsSlot, Joined
  <2>8. QED
    BY <1>2, <1>3, <2>2, <2>3, <2>6, <2>7, OthersAccount
<1>8. CASE Forward(c)
  <2> DEFINE m == Head(chan[c])
  <2>1. /\ conn[c] = "live" /\ chan[c] # <<>> /\ chan' = [chan EXCEPT ![c] = Tail(chan[c])]
        /\ view' = [view EXCEPT ![c][m.zone] = m.version]
        /\ UNCHANGED <<subs, conn, left, boot>>
    BY <1>8 DEF Forward
  <2>2. m \in Metric /\ m.zone \in Zones
    BY <1>1, <2>1, AfterTail DEF Metric
  <2>3. /\ chan'[c] = Tail(chan[c])
        /\ \A d \in Conns : d # c => chan'[d] = chan[d] /\ view'[d] = view[d]
    BY <1>1, <2>1
  <2>4. \A y \in Zones : view'[c][y] = IF y = m.zone THEN m.version ELSE view[c][y]
    BY <1>1, <2>1, <2>2
  <2>5. left[c] = {}
    BY <2>1 DEF StreamInv, HoldsSlot
  <2>6. ASSUME NEW y \in Zones PROVE Account(c, y)'
    <3>1. Account(c, y)
      BY DEF StreamInv
    <3>2. /\ \A v : Tells(chan[c], y, v) =>
                \/ Tells(chan'[c], y, v)
                \/ (Silent(chan'[c], y) /\ m.zone = y /\ m.version = v)
          /\ Silent(chan[c], y) => Silent(chan'[c], y) /\ m.zone # y
      BY <1>1, <2>1, <2>3, AfterTail
    <3>3. Base(c, y)' = IF y = m.zone THEN m.version ELSE Base(c, y)
      BY <2>1, <2>4, <2>5 DEF Base
    <3>4. QED
      BY <1>2, <1>4, <2>1, <3>1, <3>2, <3>3 DEF Account, Joined
  <2>7. HoldsSlot'
    BY <1>2, <2>1, <2>3 DEF StreamInv, HoldsSlot, Joined
  <2>8. QED
    BY <1>2, <1>3, <2>1, <2>3, <2>6, <2>7, OthersAccount
<1>9. CASE Close(c)
  <2>1. /\ conn' = [conn EXCEPT ![c] = "closed"] /\ subs' = subs \ {c}
        /\ UNCHANGED <<chan, left, boot, view>>
    BY <1>9 DEF Close
  <2>2. conn'[c] = "closed" /\ \A d \in Conns : d # c => conn'[d] = conn[d]
    BY <1>1, <2>1
  <2>3. HoldsSlot'
    BY <1>2, <2>1, <2>2 DEF StreamInv, HoldsSlot, Joined
  <2>4. \A y \in Zones : Account(c, y)'
    BY <2>2 DEF Account, Joined
  <2>5. QED
    BY <1>2, <1>3, <2>1, <2>2, <2>3, <2>4, OthersAccount
<1>10. CASE HangUp(c)
  <2>1. UNCHANGED <<subs, chan, conn, left, boot, view>>
    BY <1>10 DEF HangUp, handlerVars
  <2>2. HoldsSlot'
    BY <1>2, <2>1 DEF StreamInv, HoldsSlot
  <2>3. QED
    BY <1>2, <1>3, <2>1, <2>2, OthersAccount
<1>11. QED
  BY <1>5, <1>6, <1>7, <1>8, <1>9, <1>10 DEF Handler

LEMMA StreamNext ==
    ASSUME StreamInv, [Next]_vars
    PROVE  StreamInv'
<1>1. TypeOK'
  BY TypeNext DEF StreamInv
<1>2. CASE UNCHANGED vars
  <2>1. UNCHANGED <<fact, rivals, carried, to, missed, conn, chan, left, boot, view, subs>>
    BY <1>2 DEF vars, managerVars, writerVars, handlerVars
  <2>2. \A c \in Conns, z \in Zones : Account(c, z)'
    BY <2>1, OthersAccount
  <2>3. CarriesCurrent' /\ HoldsSlot'
    BY <2>1 DEF StreamInv, CarriesCurrent, Current, HoldsSlot
  <2>4. QED
    BY <1>1, <2>2, <2>3 DEF StreamInv
<1>3. CASE Next
  <2>1. CarriesCurrent' /\ HoldsSlot' /\ \A c \in Conns, z \in Zones : Account(c, z)'
    BY <1>3, StreamSet, StreamBroadcast, StreamHandler DEF Next
  <2>2. QED
    BY <1>1, <2>1 DEF StreamInv
<1>4. QED
  BY <1>2, <1>3

\* Whatever requests store and broadcast metrics at once, a client ends up with
\* the facts: when nothing of a zone is under way to it and the last was not
\* dropped, it knows or will read the newest metric, or one that was still being
\* sent when the newest was stored; there is no gap between its snapshot and the
\* first metric it is forwarded (Set, and the order of Subscribe and All).
THEOREM ViewFollowsFactsHolds == Spec => []ViewFollowsFacts
<1>1. StreamInv => ViewFollowsFacts
  <2>1. SUFFICES ASSUME StreamInv, NEW c \in Conns, NEW z \in Zones,
                        conn[c] \in {"booting", "live"}, ~OnItsWay(c, z), ~missed[c][z]
                 PROVE  Latest(c, z) \in Current(z)
    BY DEF ViewFollowsFacts, Current
  <2>2. PICK v \in Current(z) : Tells(chan[c], z, v) \/ (Silent(chan[c], z) /\ Base(c, z) = v)
    BY <2>1 DEF StreamInv, Account, Joined
  <2>3. Latest(c, z) = v
    BY <2>1, <2>2, AccountLatest DEF StreamInv
  <2>4. QED
    BY <2>2, <2>3
<1>2. StreamInv /\ [Next]_vars => StreamInv'
  BY StreamNext
<1>3. QED
  BY <1>1, <1>2, StreamInit, PTL DEF Spec
=============================================================================
