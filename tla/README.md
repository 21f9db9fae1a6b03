# Crowd Flow Optimiser: specifications

TLA+ specifications of the Crowd Flow Optimiser, model-checked with TLC and in
large part proved with TLAPS. The Go backend is the heart of the program: a ring
of autonomous zone agents that shed load onto each other by exchanging messages
over channels. Around it stand the services that record and broadcast what they
do, and a frontend whose callbacks, timers and requests race each other.
`PROJECT.json` maps every definition to the lines it stands for and lists the
runs, the mutants each property rejects, the findings, the hazards and the
theorems.

## The system

| Part | State | Operations | Talks to |
| --- | --- | --- | --- |
| Zone agents (`backend/internal/agent/node.go`) | last sample, Inbox (64), Negotiation (8) | `Run`, `evaluate`, `shedLoad`, `leastLoadedNeighbor`, `shuttleDestination`, `onNegotiation` | other agents by channel, state manager by locked reads, signage by call |
| Network (`agent/network.go`) | registry of agents, ring adjacency | `BuildNetwork`, `Deliver`, `Negotiate` | agents' channels |
| State manager (`state/manager.go`) | metric per zone, subscriber channels (64) | `Set`, `Get`, `All`, `Subscribe` | stream handlers by channel |
| Signage service (`intervention/signage.go`) | audit log, subscriber channels (64) | `Apply`, `List`, `Subscribe`, `fanout`, `polish` | signage client, text generator, stream handlers |
| HTTP handlers (`api/handlers.go`, `api/ws.go`) | one goroutine per request or stream | telemetry ingest, lists, manual interventions, SSE and WebSocket streams | manager, network, signage |
| Server (`cmd/server/main.go`) | context | start, signal, drain, exit | everything |
| Two-gate demo (`backend/main.go`) | load and outstanding request per gate | `gateAgent` | the other gate, unbuffered channels |
| Telemetry emitter (`ai-telemetry/app`) | `live_mode`, one coroutine per live socket, scenario, frame cache | `run_forever`, `live_inference_ws`, `healthz`, density estimation | posts batches to the backend; webcams of browsers |
| Stream client (`frontend/lib/api.ts`) | socket, three timers, attempts | `streamZonesWS` | WebSocket of the backend |
| Operator terminal (`frontend/app/operate`, `components/`) | zones, injections, interventions, armed button, banner, source of pictures | GETs, stream callbacks, override, demo controls, webcam, polls of the emitter | REST, stream client, emitter |
| Public sign (`frontend/app/signage`) | interventions, connection | GETs, stream callbacks | REST, stream client |

What is hard here:

- **Concurrency without a centre.** A zone that overflows starts a goroutine (a
  *talk* below) which offers the overflow to one neighbour, waits for at most two
  seconds, and then reroutes or escalates. Meanwhile both agents, other talks and
  telemetry go on, and everything the talk knew may have changed.
- **Facts and decisions are split.** A sample is first stored (`Set`) and then
  delivered to an inbox that drops it when full; an intervention is recorded,
  then fanned out, then rewritten and fanned out again, each under a lock of its
  own.
- **Everything that could block is made not to**: inboxes drop, subscriber
  channels drop, replies go into a channel of one place. Correctness then
  depends on what exactly may be lost.
- **The browser is asynchronous too.** Sockets close late, timers outlive what
  they were for, answers to two GETs of one list overtake each other, an event
  falls between a render and its effects, a camera is granted after it is no
  longer wanted.
- **Shutdown and restart.** A cancelled context that agents and talks watch in
  different places; an emitter that loses its flag when it restarts.

## Modules

| Module | What it is |
| --- | --- |
| `ZoneNetwork` | the agents, their channels, talks, telemetry ingest, facts, audit log, server lifecycle |
| `LoadShedding` | the contract of load shedding without agents, channels or timers; `ZoneNetwork` implements it |
| `MetricStream` | the manager's fan-out and the handlers that stream it |
| `SignageService` | `Apply`, fan-out, polish, list and subscriptions |
| `LivePages` | `SignageService` composed with the lists of interventions that pages keep |
| `ReconnectHistory` | `LivePages` with a history variable for one finding |
| `StreamClient` | the reconnecting WebSocket client of the pages |
| `OperatorConsole` | lead zone, injections, arming and posting an override, banner |
| `LiveInference` | webcam, live-inference socket, the emitter's flag and synthetic feed, telemetry label |
| `GateDemo` | the two-gate engine |
| `ZoneNetworkProofs`, `ZoneTalksProofs`, `MetricStreamProofs`, `LivePagesProofs`, `StreamClientProofs`, `OperatorConsoleProofs`, `LiveInferenceProofs`, `GateDemoProofs` | theorems |
| `MC...` | instances for TLC |

The modules meet where the program's parts do: the audit log that `ZoneNetwork`
appends to is the one `SignageService` fans out; the channels `MetricStream`
forwards carry what `StreamClient` receives and `OperatorConsole` displays; the
frames of interventions arrive in `LivePages`. They are composed where a property
needs both sides (`LivePages`; agents, manager and handler within `ZoneNetwork`;
page and emitter within `LiveInference`), and otherwise each takes the other's
behaviour as an unconstrained input, which is more than the other does.

### ZoneNetwork

State: `facts` is the manager's map; `inbox` and `negotiation` are the agents'
channels, the second of indices into `talks`; `last`, `pc`, `scan` and
`answering` are the local state of an agent; `talks` is every goroutine
`shedLoad` has started, each with its offer, its one-place reply channel, the
answer `Negotiate` returned and the action that follows; `log` is the audit log;
`work` and `stored` are the samples a telemetry request still has to ingest;
`dropped` remembers that the newest sample of a zone found its inbox full, and
`rivals` which samples of a zone other requests had stored and not yet delivered
when its fact was stored; `phase` is the process.

| Action | Code |
| --- | --- |
| `Post`, `SetFact`, `Deliver` | `handleTelemetry`: a decoded batch, then per sample `Set` and `Deliver` |
| `TakeSample`, `ScanNeighbor`, `ShedLoad` | `evaluate`; one locked `Get` per neighbour; the decision and the start of the goroutine |
| `TakeOffer`, `SendReply` | `onNegotiation` up to and with its signage change; the non-blocking reply |
| `Stop` | `ctx.Done()` in `Run` |
| `SendOffer`, `TakeReply`, `TimeOut`, `Cancel` | the cases of the two selects of `Negotiate` |
| `Decide`, `Intervene` | the rest of the goroutine: the shuttle search under one lock, then `Apply` |
| `Shutdown`, `Exit` | signal and cancellation; return of `main` |

Steps are as fine as the code's locks and channel operations. The step between
`Set` and `Deliver`, between two neighbours of a scan, between signage change
and reply, and between the shuttle search and its intervention are therefore
visible to the other processes. An intervention is its zone, type, target and,
as a history value, the talk its message describes; texts and severities are
left out. The operator's own interventions, which only append to the log, are in
`LivePages`.

`LoadShedding` is what the network implements: an overflow is raised, pledged
upon at most once, and settled once, by a reroute only on a pledge to absorb it.
`ImplementsLoadShedding` maps a talk to its overflow. The mapping shows what the
contract does not promise: a pledge may come after the settlement.

### MetricStream

A metric is its zone and the number of the `Set` that stored it. `Set` stores
and copies the subscriber set under the lock, then `Broadcast` sends to one
subscriber at a time, while other requests do the same: `rivals` remembers what
was still being sent when the fact was stored. A stream handler subscribes, takes
a snapshot, writes it metric by metric and forwards its channel until the client
is gone. One model stands for both transports, which differ in how they notice a
departure.

### SignageService and LivePages

An intervention is its id, whether a sign shows its severity, and whether its
message has been polished. A call of `Apply` goes through `Stamp` (id, time and
sign, without a lock), `Record` (append under the lock), `CopySubs` (the
subscriber set under the lock), one `Send` per subscriber that drops when the
channel is full, and, for what the generator has something to say about,
`Rewrite` of the logged entry and a second fan-out; any number of calls do so at
once. `End` is the goroutine's end, also that of a generator that fails. `List` is
`sort.Slice` by what it does: the log's entries, newest first.

`LivePages` adds the pages. `Connect`, `Join` (the handler subscribes) and `Opened`
(`onopen`, which refetches) make a connection, `Lost` breaks it; `Answer` is the
backend's copy of the list and `Arrive` the browser's `setInterventions` of it,
`Frame` the update or insertion of one streamed entry, `Post` and `PostDone` the
operator's override and the entry its response adds. Three history variables say what may be expected of a list. `sound`: the server made it up
while the page's present stream was subscribed (`live` says so of a list under way),
so that what it lacks comes as a frame. `lossless`: no frame of that stream was
dropped. `undone`: the entries that the page had shown, by a frame or an answer, and
that a list made up earlier then took off the page by arriving later; nothing in the
code prevents that.

### StreamClient

An action is a callback of `streamZonesWS`: `Open`, `Metric`, `Pong`,
`SocketClosed`, the three timers `Ping`, `PongTimeout`, `Reconnect`, and the
page's `Unsubscribe`. `timers` are those that run; `pingTimer`, `pongTimeout` and
`reconnectTimer` are the handles of the code, which may name a timer that is
gone. `Closing` sockets receive nothing more, and close at some later moment;
`GoSilent` is a peer that disappears. `connected` is the page's STREAM::LIVE,
which `ZonesFetched` also sets. `Answers` says whether the server answers pings:
ours does not.

### OperatorConsole

React works in steps that other events come between, and so does the model: an
event changes the state, `Commit` renders the lead from it, `LeadEffect` is the
effect that disarms the button. `effectiveZones` and `lead` are the code's two
computations over the list of zones and the injections; `Arm`, `Confirm` and
`ArmLapses` the two-press button; `PostAnswered`, `PostDone`, `PostTimeout` and
`PostFails` the override with its five-second abort; `flash` and `BannerLapses`
the banner and its timer; `Inject` and `ResetFlow` the demo controls. `zoneList` and
`rows` are the two filters of `ZONE_ORDER`, as sets of places in it. `armedFor` and
`displaced`, the lead that the last render took off the screen, are history variables.

### LiveInference

Selecting WEBCAM runs an effect that opens a socket and asks for a camera;
leaving it runs the cleanup. The camera (`CameraGranted`, possibly after the
cleanup), its interval (`FrameTick`, which uses whatever socket is current) and
the socket's events belong to a run of the effect and are kept by its number.
On the other side each socket has a coroutine (`Accept`, `TakeFrame`,
`FrameDone`, `Disconnect`), and `Tick` and `Emit` are the two halves of
`run_forever` with the pause that `live_mode` asks for. `Crash` and `Restart` are
of the emitter's process. `Poll` and `PollArrives` are the top bar's polls of
`healthz`, which may overlap. `seam` is what the estimator does with the synthetic
feed's frames: `Started`, its constructor, may find no model or no frames and simulate
although the setting says live. `healthz` answers with the setting (`Health`), and no
step of the code compares the two.

### GateDemo

A send on an unbuffered channel is one step of both gates. A gate is in `drift`,
`check`, `select`, `serve` or `respond`. `rand.Intn` is a choice from `Drifts`.
A tick may pass over a response that is being computed; that a ready response is
not passed over for ever is the strong fairness of `Respond`, since a select
with a ready case and a fresh two-second timer takes the ready case.

## Runs

| Run | Bounds | Question |
| --- | --- | --- |
| `network_safety` | four zones and an unknown zone id, two telemetry requests at a time and two in all, channels of one place | do messages, log and facts stay consistent under timeouts, drops, late answers and shutdown? |
| `network_liveness` | two zones, batches of two samples, negotiation channels of one place | do agents keep up with their channels, does every talk end and every agent stop, and do they implement the contract? |
| `metric_stream` | two zones, two requests at a time, one client, four metrics, a channel of one place | does a client end up with the facts, save for what was being sent beside them? do writers never wait, do slots get freed? |
| `live_pages` | two calls of `Apply`, one of them polished, one terminal, two GETs, a channel of one place | does a list that comes from GETs, frames and POST answers in any order end up with the audit log, save for what a later answer took back, each entry once, and none that is not in it? |
| `stream_client` | six sockets, a server that answers pings | is there one connection at a time, one way back after each failure, and an outage on the screen? |
| `console` | three zones, one of them not in the page's order; two readings, two injections | is the lead the worst zone, and does an override execute for the zone that was armed, or at least for the one that displaced it? |
| `live_inference` | WEBCAM selected twice, two frames in flight | does the flag stay with an uncontested socket, are no frames sent after leaving, does the feed resume and the label follow what is reported? |
| `gates` | gates of 4 and 6 people, requests of 2 | no deadlock, conservation, termination of requests |

Why these bounds are enough to be interesting:

- In a ring of four each zone has two neighbours and exactly one zone a shuttle
  may reach, and the unknown id is a second. Channels of one place fill after one
  message, so drops and blocked offers happen within two requests; the program's
  capacities (64 and 8) only delay them, and the theorems hold for every capacity.
  `Surge` followed by `Relapse` makes a zone accept, time out, reject, send a
  shuttle and hold inflow. Two zones are the smallest ring in which agents shed
  onto each other (`Standoff`), and `Insist` fills the channel between them.
- Two calls of `Apply` are enough for fan-outs to overtake each other and for one
  entry to be polished while the other is recorded; `MaxGets` of two is the
  mount's GET and a refetch, the pair that races. The first intervention is an alarm
  whoever applies it, the second only if it is an override, so signs have alarms to
  show, to miss and to have taken back. The sign keeps its list as a terminal that posts
  nothing, which the run contains.
- Five failed attempts reach the backoff's cap of 30 seconds; six sockets allow
  one more.
- Readings that tie in congestion, in density and in both make every branch of
  the lead's comparison matter. The third zone, in no `ZONE_ORDER`, can lead and is
  never a row.
- Two runs of the webcam's effect are the least that overlap at the emitter; what a
  third adds is a fresh start.

`MaxPosts`, `MaxSets`, `MaxApplied`, `MaxGets`, `MaxSockets`, `MaxRuns` and
`MaxFrames` bound the environment and nothing else; `MaxLoad` cuts the drift of the
gates. `CHECK_DEADLOCK FALSE` is used where the system really ends: after exit
nothing runs, and with no telemetry, click or connection left everything is idle.
The gates never stop, and their run checks deadlock.

Every property of a passing run has a mutant, a bug one could write in that place
(a timed-out offer that is sent again, a reply channel without a buffer, a `break`
that leaves only the select, a merge that prepends what is already shown, a banner
that keeps the last one's timer, a cleanup that leaves the socket), which TLC finds.

### Runs that end in a violation

Each checks one statement of the repository that the code does not meet:

- `late_acceptance`: the asker has timed out and escalated, the neighbour then
  accepts and changes its signage (`node.go:27-29`, `network.go:72`).
- `unanswered_pings`: the client closes a connection that works, because the server
  reads pings and answers none (`api.ts:72`, `ws.go:23-24`, `ws.go:48-55`).
- `log_misses_interventions`: the answer to the GET of the mount arrives after that
  of the refetch and takes the list back to before the connection
  (`operate/page.tsx:78-82`).
- `telemetry_label`: the emitter is set to live, its model does not load, it simulates,
  and the label claims live inference for as long as it runs (`ai-telemetry/app/main.py:49`,
  `density.py:141-143`, `TopBar.tsx:12-16`).

### Known divergences

Other disagreements between the code and its texts that the models show, and behaviour
that a reader may not expect, for which no run is kept. Each follows from the cited lines by reading the model's action.

- A zone that is switched off still accepts offers: `CanAbsorb` reads capacity and
  congestion only; `Offline` is read nowhere in the backend
  (`models.go:27-28`, `node.go:184`).
- Inflow is held, and the message says no neighbour could absorb the overflow, while
  the neighbour that was not asked has room (`node.go:114`, `docs/architecture.md:50-51`).
- One spare capacity may be promised to two neighbours: both offers are judged by the
  same last sample (`node.go:180-184`).
- With two concurrent telemetry requests, samples of one zone may be stored in one
  order and delivered in the other, and the agent stays with one that the manager no
  longer shows (`handlers.go:47-48`, `manager.go:10`). The run contains this.
  `AgentFollowsFacts` says how far it goes: the agent's sample is the fact, or was
  between `Set` and `Deliver` when the fact was stored.
- Two broadcasts of `Set` may overtake each other, and a subscriber ends with the
  older metric (`manager.go:40-47`). `ViewFollowsFacts` bounds it likewise: the metric
  was still being sent when the fact was stored.
- An answer with the list of interventions that the server made up before one was
  applied may arrive after its frame and takes it off the page until the next fetch
  (`operate/page.tsx:53-57,80-82`, `signage/page.tsx:15-19,37-41`, against
  `operate/page.tsx:78-79`), also when the fetch was sent after the stream was up. On
  the sign, it is an alarm that is taken back. `OnlyUndoneIsMissing` says that nothing
  else is missing.
- A second press that falls after a render with a new lead and before the effect that
  disarms the button executes for the new lead (`ZoneLead.tsx:41-54`). `SameZoneTwice`
  says that the press before was for the lead that this render displaced.
- The operator's override is on the list twice if its frame, or a list with it, comes
  before the POST's answer, which is put on top unseen (`operate/page.tsx:113`, against
  the merge of `page.tsx:66-75`). `ShownOnce` allows that and nothing else.
- After a clean close the page says STREAM::LIVE until an attempt fails: only
  `onerror` clears it (`api.ts:92`). `OutageShows` speaks of failed attempts.
- The answer to the GET of the zones replaces a newer reading that the stream has
  brought (`operate/page.tsx:45-51`). `LeadIsWorst` is of the zones at hand.
- The five-second abort covers the headers of an answer; a body that stalls keeps the
  override's button disabled (`api.ts:6-14,41`). `ButtonSettles` takes the
  body to arrive.
- The gate demonstration drops a request whose peer is merely between two selects
  (`backend/main.go:53-55`).

## Fairness

- Every telemetry request that can go on does (`WF` of `Ingest`): its steps are a
  lock that is held briefly and a send that never waits.
- Every agent that can take some step does (`WF` of `Agent`). Which ready case a
  `select` takes is left open, so nothing says that a sample or an offer in
  particular is taken; with finitely many messages it is in the end. That is what
  `AgentsKeepUp` checks, offers and samples together.
- Every talk that can go on does (`WF` of `TalkStep`); for a waiting talk this is
  the timer, which fires. A talk before its send has no timer in the code and
  none here.
- A stream handler goes on (`WF` of `Handler`): WebSocket writes carry a deadline
  of five seconds. An SSE write has no deadline of its own; that it returns is
  left to the HTTP server, which closes a connection that fails.
- Calls of `Apply` and their goroutines go on (`WF` of `Proceed` and `FanOut`): every
  step is a short lock, a send with a default, or the generator's request, which
  runs under a timeout.
- Browser timers fire, closing handshakes end (the browser does not wait for the
  peer for ever), React renders and runs effects, `setInterval` keeps polling and
  each poll ends by an answer or a failure.
- The emitter's coroutines run while its process is up. A restart after a crash, a
  camera's permission and a successful connection are never assumed.
- Nothing obliges telemetry to arrive, a signal to be sent, a client to connect or
  leave, an operator to click, or the process to exit.

## Proofs

Checked with TLAPS, for every value of the constants that satisfies the named
assumptions of the modules (`RingAssumption`: distinct zone ids;
`StrangersAssumption`; `BatchesAssumption`: batches are non-empty sequences of
samples; `CapacityAssumption`; `GatesAssumption`, `SizesAssumption`;
`ClientAssumption`; `ServiceAssumption`, `PagesAssumption`; `ConsoleAssumption`;
`LiveAssumption`; those of `MetricStream`). One theorem assumes more, as stated
with it: `DensitiesBelow`. The topology of the code is
not checked for duplicates: an id given twice would have two agents, which is
outside the model.

**`ZoneNetworkProofs!TypeCorrect`.** `TypeOK` is inductive with one addition,
`DecidedTalksAct` (a decided talk has an action), without which `Intervene`
could record none. The lemmas follow the processes: `TypeInvIngest`,
`TypeInvAgent`, `TypeInvTalk`.

**`ZoneTalksProofs!SignedFirst`.** No reroute is recorded before the zone it
leads to shows that it absorbs the overflow. `SignedBeforeRerouted` speaks of the
log only, so `SignageInv` carries the evidence along the handshake: an agent in
the act of accepting has changed its signage, and so has the zone behind every
accepting reply and every accepting answer (`AcceptanceShown`); only an
accepting answer becomes a reroute (`RerouteAccepted`); agents handle offers that
are addressed to them, or the entry would name another zone (`Addressed`); and
the log never speaks of talks that have not started (`LogIsAboutTalks`), or a new
talk would find itself rerouted. Steps are of four kinds: those that touch
neither talks nor log (`SignageQuiet`), those that change one talk
(`SignageTalk`), those that append to the log (`EntryAppended`), and the start of
a talk (`SignageShed`).

**`ZoneTalksProofs!NoOfferLost`, `AuditTellsTheStory`.** `OffersAccountedFor` is
inductive with the types. `AuditMatchesTalks` is not: `AuditInv` adds `AnswerIsReply`
(what an asker was told is what was replied) and `StoriesTold`, which says more of the
asked zone than the run's invariant: it has changed its signage exactly if its
verdict on the offer was to absorb, whether or not the asker has heard of it. The verdict
(`Pledged`) is reached as the offer is taken in hand and kept in every later step
(`VerdictsKept`).

**`ZoneTalksProofs!NetworkRefinesContract`.** `Spec => Contract!Spec`: the step
simulation of `ImplementsLoadShedding`, for every ring and capacity. Under `AuditInv`,
`ShedLoad` raises an overflow, `TakeOffer` may pledge on one, `Intervene` settles one,
`Exit` halts, and every other step leaves the contract's variables alone (`ContractShed`,
`ContractTake`, `ContractTalkStep`, `ContractReply`). That the contract's fairness
follows from the network's is left to TLC.

**`ZoneNetworkProofs!AgentFollows`.** For any number of telemetry requests at a time,
what an agent will have decided on when its inbox is drained is the manager's fact, or
a rival of it (`Current`). `FollowInv` adds `StoresItsSample`: a sample between `Set` and
`Deliver` is the fact of its zone or one of its rivals, so whichever request delivers
last leaves one of these. `TakingKeepsNewest`
shows that taking a sample from the inbox loses nothing newer.

**`ZoneNetworkProofs!NoStaff`** (assuming `DensitiesBelow`: no sample's density reaches
the 1e9 the search starts from). The `DISPATCH_STAFF` branch of `shedLoad` is dead
in every ring, although facts change between the two reads of the search. `StaffInv`
adds that facts and samples under way are below the bound (`NearFacts`), that a search
that has looked at a neighbour has a best one (`SearchFinds`), and that no talk
decides on that action (`NoTalkDispatches`).

**`MetricStreamProofs!TypeCorrect`** needs nothing but itself.
**`MetricStreamProofs!ViewFollowsFactsHolds`**, for any number of writers: for each client
and zone, `Account` says where the newest fact, or a rival of it, is once no broadcast of
the zone is under way to the client and unless the last was dropped: last in its channel,
in its snapshot, or already with the client; `CarriesCurrent` says that whatever is still
being broadcast is the fact or one of its rivals, `HoldsSlot`
that a handler is subscribed from before its snapshot until it leaves.

**`LivePagesProofs!ServiceTypeCorrect`, `AuditTrailHolds`.** However many calls of
`Apply` and polishing goroutines overlap, the log is append-only but for messages.
`ServiceInv` adds that stamps are readings of the past (`StampsPast`) and that ids
tell calls and entries apart (`IdsApart`), or `Rewrite` could touch an entry of
another call. `StepsOfService` reduces the steps of the composition to those of the
service.

**`LivePagesProofs!PagesTypesHold`, `NothingIsInvented`, `ShownOnceHolds`,
`OnlyUndoneIsMissingHolds`.** One invariant, `PagesInv`, was checked by TLC first and is
proved for every number of calls, pages and entries and every channel capacity. Its parts:

- `LogDistinct`: the log has an id once.
- `Told`: whatever is on a page, in a channel, in the answer to a GET or with a call past
  `Record` is in the log, and the log has its polished message if it has. A page's
  override may still be with its call. (`NothingInvented` alone is not inductive: it
  does not speak of what is under way.)
- `Copies`: an answer has an id once, a list once, or twice if it is the page's own
  override and the POST has been answered. `OnTopFacts` and `MergedFacts` say what the
  two ways of inserting do to a list.
- `Subscribed` and `CallsTell`: who sends is sent to subscribers only; a call that has
  recorded its entry has what the log has.
- `Flow`: a page has seen what is on it and what a later list undid (`Seen`). Of every
  entry of the log, a subscribed page that has been dropped nothing either has seen the
  log's version, and nothing in its channel says otherwise, or that version is on its
  way: as the last word on its id in the channel, or with a call that will send it. The
  same is said of a GET that was answered while the page was subscribed, since its list
  will replace the page's: no list takes anything out of `Seen` (`SeenEffect`,
  `LiveEffect`). When a page has settled, nothing is on its way, and
  `OnlyUndoneIsMissing` is what is left.

`Sortable` shows that the log can be put in order, newest first, so that `List` is not an
arbitrary value: an entry's place is the number of entries that are not older, and that is
a bijection (`FS_Injection`).

**`StreamClientProofs!OneConnectionHolds`, `NeverStrandedHolds`.** They are inductive
together, with the types and `HandlesHold`: a timer that runs is the one its handle
names. Without that, `clearTimeout` could miss it.
**`ClientTypesHold`, `OutageShowsHolds`, `BacksOffHolds`.** `RetryInv` adds that
there have been fewer attempts than sockets, none while a connection is open
(`AttemptsCounted`), and that the last delay is that of the last attempt (`WaitIsLast`).
`Powers` is what the delays need to know of powers of two; it is taken from the
library's theorem on the number of subsets (`FS_SUBSET`), whose own proof, in the
library, rests on 2^(n+1) = 2^n + 2^n.

**`OperatorConsoleProofs!SameZoneTwiceHolds`.** From `ArmedForDisplayed`: while no
effect is due, an armed button was armed for the zone on the screen, and while one is,
for the zone that this render displaced. `BannerIsItsOwn`
is inductive by itself.
**`ConsoleTypesHold`, `LeadIsWorstHolds`.** Of the state, `LeadIsWorst` needs no more
than `ZonesInv`: the list has each zone once. The rest is about the reduce, which is a
recursive function. That a function with the given recursion exists (`BestExists`) and
that it finds the worst zone of every prefix (`BestTops`) would be inductions over the
list; they are proved by the least place at which they would fail, which `Least` takes from
the library's theorems on well-founded orders. One step of the reduce is `NextTops`, and
that its comparison is an order is `TakesOrders`. `RowsOnce` needs that `ZONE_ORDER`
lists no zone twice, which `ConsoleAssumption` states of the constant in the code.

**`LiveInferenceProofs!NoFramesAfterLeavingHolds`.** From `OneSocket`: every socket but
the last is closing or closed, and so is the last when another source runs; late
cameras find no socket to send on. **`UncontestedStaysLiveHolds`** adds the emitter's
side: handlers that no other has overlapped are alone and hold the flag, and while
the flag is set at most the batch under way is late. **`LiveTypesHold`** joins the
two with `CamTypes` (as many cameras as sockets) and `Bounds`.

**`GateDemoProofs`.** `TypeCorrect`; `RequestsAreServed`, that a request is
outstanding exactly while the peer serves it, which is inductive by itself;
`NoMutualBlocking` from it; and `PeopleConserved`, the action property, from the
same invariant.

Every invariant and every action property of a passing run is proved. Only
model-checked are the liveness properties (`EveryTalkEnds`, `AgentsKeepUp`,
`EveryAgentStops`, `IngestNeverBlocks`, `SlotsAreFreed`, `EveryRequestConcluded`,
`DeadPeerReplaced`, `ApplyReturns`, `ButtonSettles`, `FeedResumes`, `LabelCatchesUp`) and the
fairness half of `ImplementsLoadShedding`: they need `ENABLED`, about which these provers
do not reason.

## Not modelled

- Rendering, layout, animation and the landing page; the lead's action line; the
  sensitivity sliders and layer switches, which nothing reads.
- JSON coding, HTTP status codes, CORS, routing and logging; requests that are
  refused change nothing. Message texts, severities, flow rates and clock times are
  abstracted away wherever no decision depends on them.
- The vision models, what density estimation computes, and the random walk of the venue
  scenario: numbers and thresholds without control. Of the estimator, only whether it runs
  live or has degraded is in `LiveInference`. The single-frame endpoints of the emitter.
- `streamZones`, the SSE client that no page uses, which leaves reconnection to the
  browser; React's StrictMode, which runs effects twice in development only.
- The deployment files, and the older copy of the telemetry layer under `app/`.
- The interventions' order in a page's list: the code gives no guarantee (fan-outs
  overtake each other), so `OnlyUndoneIsMissing` speaks of sets.

## Plan

1. Proofs: the invariants on which the liveness properties rest (nobody waits for
   what cannot come), as far as they can be stated without `ENABLED`.
2. `VenueScenario`: the thresholds and clamps of the synthetic scenario in scaled
   integers, against the congestion levels that the backend acts on.
3. The operator's list in `OperatorConsole` and `LivePages` as one, so that injected
   entries and streamed ones meet.
