---------------------------- MODULE StreamClient ----------------------------
(***************************************************************************)
(* streamZonesWS of the frontend (lib/api.ts): the WebSocket a page keeps  *)
(* open, its ping interval, the five seconds it waits for a pong, and the  *)
(* reconnection with backoff. Callbacks run to completion on the browser's *)
(* event loop, so an action is a callback: an event of a socket, a timer   *)
(* that fires, or the page's unsubscription.                               *)
(*                                                                         *)
(* Sockets are numbered in the order connect() creates them; `ws` of the   *)
(* code is the last one. A timer is its kind and the socket it was started *)
(* for. The handles of the code (pingTimer, pongTimeout, reconnectTimer)   *)
(* keep the number of the last timer they were given, also when that timer *)
(* is gone: clearing such a handle does nothing.                           *)
(***************************************************************************)
EXTENDS Integers, Sequences

CONSTANTS
    Answers,    \* the server answers pings; the backend does not (api/ws.go)
    MaxSockets  \* bound: sockets a client creates

ASSUME ClientAssumption == Answers \in BOOLEAN /\ MaxSockets \in Nat \ {0}

VARIABLES
    sock,               \* the readyState of every socket created
    timers,             \* the timers that run
    pingTimer, pongTimeout, reconnectTimer,  \* handles, 0 for null
    reconnectAttempts,
    wait,               \* milliseconds the last reconnect timer was started with
    closed,             \* the page has unsubscribed
    connected,          \* the page's STREAM::LIVE
    silent,             \* sockets whose peer is gone without a word
    zonesPending        \* the page waits for its GET of the zones; signs send none

handles == <<pingTimer, pongTimeout, reconnectTimer>>
vars == <<sock, timers, handles, reconnectAttempts, wait, closed, connected, silent, zonesPending>>

ws == Len(sock)
Kinds == {"ping", "pong", "reconnect"}
States == {"connecting", "open", "closing", "closed"}

\* WebSocket.close(): nothing is received from here on.
Closing(g) == IF sock[g] = "closed" THEN sock ELSE [sock EXCEPT ![g] = "closing"]

\* Milliseconds.
FirstDelay == 2000
MaxDelay == 30000
\* Mutant: no cap.
Backoff_Uncapped(attempts) == FirstDelay * 2^attempts
Backoff(attempts) ==
    IF FirstDelay * 2^attempts < MaxDelay THEN FirstDelay * 2^attempts ELSE MaxDelay

Init ==
    /\ sock = <<"connecting">>
    /\ timers = {}
    /\ pingTimer = 0 /\ pongTimeout = 0 /\ reconnectTimer = 0
    /\ reconnectAttempts = 0
    /\ wait = 0
    /\ closed = FALSE
    /\ connected = FALSE
    /\ silent = {}
    /\ zonesPending \in BOOLEAN

-----------------------------------------------------------------------------
(* Events of a socket. *)

\* onopen.
Open(g) ==
    /\ sock[g] = "connecting"
    /\ sock' = [sock EXCEPT ![g] = "open"]
    /\ reconnectAttempts' = 0
    /\ timers' = timers \cup {<<"ping", g>>}
    /\ pingTimer' = g
    /\ UNCHANGED <<pongTimeout, reconnectTimer, wait, closed, connected, silent, zonesPending>>

\* onmessage with a metric; interventions change nothing here.
Metric(g) ==
    /\ sock[g] = "open"
    /\ g \notin silent
    /\ connected' = TRUE
    /\ UNCHANGED <<sock, timers, handles, reconnectAttempts, wait, closed, silent, zonesPending>>

\* onmessage with a pong.
Pong(g) ==
    /\ Answers
    /\ sock[g] = "open"
    /\ g \notin silent
    /\ timers' = timers \ {<<"pong", pongTimeout>>}
    /\ UNCHANGED <<sock, handles, reconnectAttempts, wait, closed, connected, silent, zonesPending>>

\* The timers that onclose clears.
\* Mutant: the timeout of an unanswered ping survives its socket.
ClearedOnClose_PingOnly == {<<"ping", pingTimer>>}
ClearedOnClose == {<<"ping", pingTimer>>, <<"pong", pongTimeout>>}

\* The connection attempt fails, the peer closes, the network gives up on a
\* connection or a closing handshake ends: onerror if there was an error, and
\* then onclose. A failed attempt is always an error.
\* Mutant: the page is not told of errors.
SocketClosed_Silently(g) ==
    /\ sock[g] # "closed"
    /\ sock' = [sock EXCEPT ![g] = "closed"]
    /\ timers' = (timers \ ClearedOnClose) \cup (IF closed THEN {} ELSE {<<"reconnect", g>>})
    /\ wait' = Backoff(reconnectAttempts)
    /\ reconnectAttempts' = reconnectAttempts + 1
    /\ reconnectTimer' = g
    /\ UNCHANGED <<connected, pingTimer, pongTimeout, closed, silent, zonesPending>>
SocketClosed(g) ==
    /\ sock[g] # "closed"
    /\ sock' = [sock EXCEPT ![g] = "closed"]
    /\ \E err \in IF sock[g] = "connecting" THEN {TRUE} ELSE BOOLEAN :
          connected' = (connected /\ (closed \/ ~err))
    /\ \/ /\ ~closed
          /\ wait' = Backoff(reconnectAttempts)
          /\ reconnectAttempts' = reconnectAttempts + 1
          /\ reconnectTimer' = g
          /\ timers' = (timers \ ClearedOnClose) \cup {<<"reconnect", g>>}
       \/ /\ closed
          /\ timers' = timers \ ClearedOnClose
          /\ UNCHANGED <<wait, reconnectAttempts, reconnectTimer>>
    /\ UNCHANGED <<pingTimer, pongTimeout, closed, silent, zonesPending>>

\* The peer is gone and nobody says so: a machine or a network that went away.
GoSilent(g) ==
    /\ sock[g] = "open"
    /\ silent' = silent \cup {g}
    /\ UNCHANGED <<sock, timers, handles, reconnectAttempts, wait, closed, connected, zonesPending>>

-----------------------------------------------------------------------------
(* Timers. *)

\* The ping interval. On a socket that is not open it does nothing. Its period
\* is three times the timeout's, which therefore does not run any more.
\* Mutant: nobody waits for the pong.
Ping_NoTimeout(g) ==
    /\ <<"ping", g>> \in timers
    /\ sock[ws] = "open"
    /\ UNCHANGED vars
Ping(g) ==
    /\ <<"ping", g>> \in timers
    /\ sock[ws] = "open"
    /\ <<"pong", ws>> \notin timers
    /\ timers' = timers \cup {<<"pong", ws>>}
    /\ pongTimeout' = ws
    /\ UNCHANGED <<sock, pingTimer, reconnectTimer, reconnectAttempts, wait, closed, connected, silent, zonesPending>>

\* Five seconds without a pong. The callback closes whatever `ws` is by then.
PongTimeout(g) ==
    /\ <<"pong", g>> \in timers
    /\ timers' = timers \ {<<"pong", g>>}
    /\ sock' = Closing(ws)
    /\ UNCHANGED <<handles, reconnectAttempts, wait, closed, connected, silent, zonesPending>>

\* The reconnect timer calls connect().
\* Mutant: the backoff starts again with every attempt.
Reconnect_Eager(g) ==
    /\ <<"reconnect", g>> \in timers
    /\ ws < MaxSockets
    /\ timers' = timers \ {<<"reconnect", g>>}
    /\ sock' = Append(sock, "connecting")
    /\ reconnectAttempts' = 0
    /\ UNCHANGED <<handles, wait, closed, connected, silent, zonesPending>>
Reconnect(g) ==
    /\ <<"reconnect", g>> \in timers
    /\ ws < MaxSockets
    /\ timers' = timers \ {<<"reconnect", g>>}
    /\ sock' = Append(sock, "connecting")
    /\ UNCHANGED <<handles, reconnectAttempts, wait, closed, connected, silent, zonesPending>>

\* The GET of the zones, beside the stream, is answered or fails; the terminal
\* takes a failure for one of the stream, also when metrics are coming in, and
\* also when it has left.
ZonesFetched ==
    /\ zonesPending
    /\ zonesPending' = FALSE
    /\ connected' \in {connected, FALSE}
    /\ UNCHANGED <<sock, timers, handles, reconnectAttempts, wait, closed, silent>>

\* The function streamZonesWS returns; pages call it when they unmount.
\* Mutant: a scheduled reconnection is forgotten.
Unsubscribe_Forgetful ==
    /\ ~closed
    /\ closed' = TRUE
    /\ timers' = timers \ ClearedOnClose
    /\ sock' = Closing(ws)
    /\ UNCHANGED <<handles, reconnectAttempts, wait, connected, silent, zonesPending>>
Unsubscribe ==
    /\ ~closed
    /\ closed' = TRUE
    /\ timers' = timers \ {<<"reconnect", reconnectTimer>>, <<"ping", pingTimer>>,
                           <<"pong", pongTimeout>>}
    /\ sock' = Closing(ws)
    /\ UNCHANGED <<handles, reconnectAttempts, wait, connected, silent, zonesPending>>

-----------------------------------------------------------------------------

Socket(g) == Open(g) \/ Metric(g) \/ Pong(g) \/ SocketClosed(g) \/ GoSilent(g)
Timer(g) == Ping(g) \/ PongTimeout(g) \/ Reconnect(g)

Next == (\E g \in DOMAIN sock : Socket(g) \/ Timer(g)) \/ ZonesFetched \/ Unsubscribe

Spec == Init /\ [][Next]_vars

\* Timers fire, and a closing handshake ends: the browser does not wait for
\* the peer for ever. Whether an attempt succeeds is up to the network.
FairSpec ==
    /\ Spec
    /\ \A g \in 1..MaxSockets :
          /\ WF_vars(g \in DOMAIN sock /\ Timer(g))
          /\ WF_vars(g \in DOMAIN sock /\ sock[g] = "closing" /\ SocketClosed(g))

-----------------------------------------------------------------------------
(* Properties. *)

TypeOK ==
    /\ sock \in Seq(States) /\ Len(sock) \in 1..MaxSockets
    /\ timers \subseteq Kinds \X (1..MaxSockets)
    /\ {pingTimer, pongTimeout, reconnectTimer} \subseteq 0..MaxSockets
    /\ reconnectAttempts \in 0..MaxSockets
    /\ wait \in 0..MaxDelay
    /\ closed \in BOOLEAN /\ connected \in BOOLEAN
    /\ silent \subseteq 1..MaxSockets
    /\ zonesPending \in BOOLEAN

\* A client has one connection at a time: connect() runs only when the last
\* socket has closed, whatever timers and close events come in between. And no
\* timer outlives what it was started for. In particular the timeout of a
\* ping, which closes whatever socket is current when it fires, only ever
\* meets the socket that was pinged (the shared `ws` at api.ts:72).
OneConnection ==
    /\ \A g \in 1..(ws - 1) : sock[g] = "closed"
    /\ \A t \in timers :
          /\ t[2] = ws
          /\ IF t[1] = "reconnect" THEN sock[ws] = "closed" ELSE sock[ws] \in {"open", "closing"}

\* A client whose page still listens is connected, connecting or about to: no
\* order of close events and timers leaves it with nothing to wake it up. One
\* that has unsubscribed has no timer left, and will not connect again.
NeverStranded ==
    IF closed THEN timers = {} /\ sock[ws] \in {"closing", "closed"}
              ELSE sock[ws] # "closed" \/ <<"reconnect", ws>> \in timers

\* What the top bar says of the stream.
Indicator == IF connected THEN "STREAM::LIVE" ELSE "STREAM::LOST"

\* An outage is shown. A connection that closes without an error leaves
\* STREAM::LIVE on the screen, but only until the first attempt to reconnect
\* fails; from then on it takes a frame, not a connection, to be LIVE again.
OutageShows == reconnectAttempts >= 2 /\ ~closed => Indicator = "STREAM::LOST"

\* Failed attempts are spaced ever further apart, up to thirty seconds.
BacksOff ==
    [][\A g \in DOMAIN sock :
          sock[g] = "connecting" /\ sock'[g] = "closed" /\ ~closed
              => wait' = MaxDelay \/ wait' >= 2 * wait]_vars

\* A peer that went away without a word is noticed and replaced: the unanswered
\* ping closes the connection, and the client tries again for as long as the
\* page listens (and the bound allows).
DeadPeerReplaced == \A g \in 1..(MaxSockets - 1) : g \in silent ~> ws > g \/ closed

\* The client closes connections whose peer is gone, and no others ("two-way
\* ping/pong liveness", api/ws.go:24).
HealthyLinkIsKept ==
    [][\A g \in DOMAIN sock :
          sock[g] = "open" /\ sock'[g] = "closing" /\ ~closed' => g \in silent]_vars
=============================================================================
