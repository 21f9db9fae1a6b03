---------------------------- MODULE MetricStream ----------------------------
(***************************************************************************)
(* The fan-out of fresh metrics: state/manager.go and the two handlers     *)
(* that stream it, handleStreamWS (api/ws.go) and handleStream             *)
(* (api/handlers.go). A metric is its zone and the number of the Set that  *)
(* stored it. Set releases the manager's lock before it broadcasts, so     *)
(* other requests and subscriptions interleave with its sends, and every   *)
(* send is dropped rather than waited for.                                 *)
(***************************************************************************)
EXTENDS Integers, Sequences

CONSTANTS
    Zones,    \* the zones of the topology
    Writers,  \* telemetry requests that may be in Set at a time
    Conns,    \* stream connections; each is used once
    SubCap,   \* capacity of a subscriber channel (64 in manager.go)
    MaxSets   \* bound: metrics stored in a behaviour

ASSUME StreamAssumption == SubCap \in Nat \ {0} /\ MaxSets \in Nat

VARIABLES
    fact,     \* the metrics map
    sets,     \* metrics stored so far
    rivals,   \* history, per zone: what was still being sent when its fact was stored
    subs,     \* the subscribed channels
    chan,     \* per connection: its subscriber channel
    carried,  \* per writer: the metric it broadcasts
    to,       \* per writer: the channels it still has to send to
    conn,     \* per connection: where its handler stands
    left,     \* per connection: zones of the snapshot not yet written
    boot,     \* per connection: the snapshot
    view,     \* per connection: what the client was last told of each zone
    missed,   \* per connection and zone: the last metric sent to it was dropped
    gone      \* per connection: the client hung up

managerVars == <<fact, sets, rivals>>
writerVars == <<carried, to>>
handlerVars == <<conn, left, boot, view>>
vars == <<managerVars, subs, chan, writerVars, handlerVars, missed, gone>>

Metric == [zone : Zones, version : 0..MaxSets]
Blank == [z \in Zones |-> 0]

\* NewManager holds a zero metric for every zone, version 0.
Init ==
    /\ fact = Blank
    /\ sets = 0
    /\ rivals = [z \in Zones |-> {}]
    /\ subs = {}
    /\ chan = [c \in Conns |-> <<>>]
    /\ carried \in [Writers -> {[zone |-> z, version |-> 0] : z \in Zones}]
    /\ \A v, w \in Writers : carried[v] = carried[w]
    /\ to = [w \in Writers |-> {}]
    /\ conn = [c \in Conns |-> "new"]
    /\ left = [c \in Conns |-> {}]
    /\ boot = [c \in Conns |-> Blank]
    /\ view = [c \in Conns |-> Blank]
    /\ missed = [c \in Conns |-> [z \in Zones |-> FALSE]]
    /\ gone = [c \in Conns |-> FALSE]

-----------------------------------------------------------------------------
(* Manager.Set. *)

\* The metrics of a zone that requests in Set have not sent to everyone yet.
BeingSent(z) == {carried[w].version : w \in {v \in Writers : to[v] # {} /\ carried[v].zone = z}}

\* Under the lock: store the metric and copy the set of subscribers.
Set(w, z) ==
    /\ to[w] = {}
    /\ sets < MaxSets
    /\ sets' = sets + 1
    /\ fact' = [fact EXCEPT ![z] = sets']
    /\ rivals' = [rivals EXCEPT ![z] = BeingSent(z)]
    /\ carried' = [carried EXCEPT ![w] = [zone |-> z, version |-> sets']]
    /\ to' = [to EXCEPT ![w] = subs]
    /\ UNCHANGED <<subs, chan, handlerVars, missed, gone>>

\* Mutant: off by one.
ChanHasRoom_OffByOne(c) == Len(chan[c]) <= SubCap
ChanHasRoom(c) == Len(chan[c]) < SubCap

\* After the lock: one non-blocking send per subscriber, in map order.
\* Mutant: the send blocks on a slow consumer.
Broadcast_Blocking(w, c) ==
    /\ c \in to[w]
    /\ ChanHasRoom(c)
    /\ chan' = [chan EXCEPT ![c] = Append(@, carried[w])]
    /\ to' = [to EXCEPT ![w] = @ \ {c}]
    /\ UNCHANGED <<managerVars, subs, carried, handlerVars, missed, gone>>
Broadcast(w, c) ==
    /\ c \in to[w]
    /\ \/ /\ ChanHasRoom(c)
          /\ chan' = [chan EXCEPT ![c] = Append(@, carried[w])]
          /\ missed' = [missed EXCEPT ![c][carried[w].zone] = FALSE]
       \/ /\ ~ChanHasRoom(c)
          /\ missed' = [missed EXCEPT ![c][carried[w].zone] = TRUE]
          /\ UNCHANGED chan
    /\ to' = [to EXCEPT ![w] = @ \ {c}]
    /\ UNCHANGED <<managerVars, subs, carried, handlerVars, gone>>

-----------------------------------------------------------------------------
(* A stream handler. *)

\* The handler subscribes first ...
\* Mutant: it takes the snapshot first and subscribes with it in hand.
Subscribe_AfterSnapshot(c) ==
    \/ /\ conn[c] = "new"
       /\ conn' = [conn EXCEPT ![c] = "subscribed"]
       /\ boot' = [boot EXCEPT ![c] = fact]
       /\ UNCHANGED <<managerVars, subs, chan, writerVars, left, view, missed, gone>>
    \/ /\ conn[c] = "subscribed"
       /\ conn' = [conn EXCEPT ![c] = "booting"]
       /\ subs' = subs \cup {c}
       /\ left' = [left EXCEPT ![c] = Zones]
       /\ UNCHANGED <<managerVars, chan, writerVars, boot, view, missed, gone>>
Subscribe(c) ==
    /\ conn[c] = "new"
    /\ conn' = [conn EXCEPT ![c] = "subscribed"]
    /\ subs' = subs \cup {c}
    /\ UNCHANGED <<managerVars, chan, writerVars, left, boot, view, missed, gone>>

\* ... then reads All in one go ...
TakeSnapshot(c) ==
    /\ conn[c] = "subscribed"
    /\ conn' = [conn EXCEPT ![c] = "booting"]
    /\ boot' = [boot EXCEPT ![c] = fact]
    /\ left' = [left EXCEPT ![c] = Zones]
    /\ UNCHANGED <<managerVars, subs, chan, writerVars, view, missed, gone>>

\* ... writes it out metric by metric, in map order ...
WriteSnapshot(c) ==
    /\ conn[c] = "booting"
    /\ \E z \in left[c] :
          /\ view' = [view EXCEPT ![c][z] = boot[c][z]]
          /\ left' = [left EXCEPT ![c] = @ \ {z}]
          /\ conn' = IF left[c] = {z} THEN [conn EXCEPT ![c] = "live"] ELSE conn
    /\ UNCHANGED <<managerVars, subs, chan, writerVars, boot, missed, gone>>

\* ... and forwards what the channel holds.
Forward(c) ==
    /\ conn[c] = "live"
    /\ chan[c] # <<>>
    /\ LET m == Head(chan[c])
       IN  view' = [view EXCEPT ![c][m.zone] = m.version]
    /\ chan' = [chan EXCEPT ![c] = Tail(@)]
    /\ UNCHANGED <<managerVars, subs, writerVars, conn, left, boot, missed, gone>>

\* The client goes away, or the connection to it fails.
HangUp(c) ==
    /\ conn[c] # "new"
    /\ ~gone[c]
    /\ gone' = [gone EXCEPT ![c] = TRUE]
    /\ UNCHANGED <<managerVars, subs, chan, writerVars, handlerVars, missed>>

\* The handler notices: a write fails, or the goroutine that drains inbound
\* frames (the request's context, over SSE) ends. Deferred calls unsubscribe.
\* Mutant: the deferred unsubscribe is forgotten.
Close_Leaky(c) ==
    /\ gone[c]
    /\ conn[c] \in {"booting", "live"}
    /\ conn' = [conn EXCEPT ![c] = "closed"]
    /\ UNCHANGED <<managerVars, subs, chan, writerVars, left, boot, view, missed, gone>>
Close(c) ==
    /\ gone[c]
    /\ conn[c] \in {"booting", "live"}
    /\ conn' = [conn EXCEPT ![c] = "closed"]
    /\ subs' = subs \ {c}
    /\ UNCHANGED <<managerVars, chan, writerVars, left, boot, view, missed, gone>>

Handler(c) == TakeSnapshot(c) \/ WriteSnapshot(c) \/ Forward(c) \/ Close(c)

Next ==
    \/ \E w \in Writers, z \in Zones : Set(w, z)
    \/ \E w \in Writers, c \in Conns : Broadcast(w, c)
    \/ \E c \in Conns : Subscribe(c) \/ Handler(c) \/ HangUp(c)

Spec == Init /\ [][Next]_vars

\* A request in Set keeps running. A handler keeps running too: every write
\* over the WebSocket has a deadline of five seconds.
FairSpec ==
    /\ Spec
    /\ \A w \in Writers : WF_vars(\E c \in Conns : Broadcast(w, c))
    /\ \A c \in Conns : WF_vars(Handler(c))

-----------------------------------------------------------------------------
(* Properties. *)

\* Channels hold metrics and no more of them than their capacity.
TypeOK ==
    /\ fact \in [Zones -> 0..MaxSets]
    /\ sets \in 0..MaxSets
    /\ rivals \in [Zones -> SUBSET (0..MaxSets)]
    /\ subs \subseteq Conns
    /\ chan \in [Conns -> Seq(Metric)]
    /\ \A c \in Conns : Len(chan[c]) <= SubCap
    /\ carried \in [Writers -> Metric]
    /\ to \in [Writers -> SUBSET Conns]
    /\ conn \in [Conns -> {"new", "subscribed", "booting", "live", "closed"}]
    /\ left \in [Conns -> SUBSET Zones]
    /\ boot \in [Conns -> [Zones -> 0..MaxSets]]
    /\ view \in [Conns -> [Zones -> 0..MaxSets]]
    /\ missed \in [Conns -> [Zones -> BOOLEAN]]
    /\ gone \in [Conns -> BOOLEAN]

\* The last that a connection has been told or will be told of a zone.
InChannel(c, z) == {k \in DOMAIN chan[c] : chan[c][k].zone = z}
Latest(c, z) ==
    IF InChannel(c, z) # {}
    THEN LET k == CHOOSE k \in InChannel(c, z) : \A j \in InChannel(c, z) : j <= k
         IN  chan[c][k].version
    ELSE IF z \in left[c] THEN boot[c][z] ELSE view[c][z]
OnItsWay(c, z) == \E w \in Writers : c \in to[w] /\ carried[w].zone = z

\* A connection that has its snapshot ends up with the facts: once nothing of
\* a zone is on its way to it, and unless the last of it was dropped, what the
\* client knows or will read from the channel is the newest metric stored, or
\* one that another request was still sending at that moment and that may have
\* overtaken it, for Set broadcasts after the unlock. Nothing older stays, and
\* there is no gap between the snapshot and the first metric forwarded.
ViewFollowsFacts ==
    \A c \in Conns, z \in Zones :
        conn[c] \in {"booting", "live"} /\ ~OnItsWay(c, z) /\ ~missed[c][z]
            => Latest(c, z) \in {fact[z]} \cup rivals[z]

\* Slow and dead clients never hold up the ingest path: every Set returns.
IngestNeverBlocks == \A w \in Writers : to[w] # {} ~> to[w] = {}

\* A client that hangs up gives its subscriber slot back (the comment on the
\* goroutine that drains inbound frames).
SlotsAreFreed == \A c \in Conns : gone[c] ~> c \notin subs
=============================================================================
