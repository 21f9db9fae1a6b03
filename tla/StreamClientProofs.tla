------------------------- MODULE StreamClientProofs -------------------------
(***************************************************************************)
(* Theorems about StreamClient, for every number of sockets and whether or *)
(* not the server answers pings.                                           *)
(*                                                                         *)
(* The first invariant is OneConnection and NeverStranded, and what they   *)
(* rest on: the handles of the code point at the timers that run, so       *)
(* clearing the handles clears the timers. The second adds the attempts,   *)
(* the delays and what the page shows.                                     *)
(***************************************************************************)
EXTENDS StreamClient, SequenceTheorems, FunctionTheorems, FiniteSetTheorems, TLAPS

\* The types that the argument needs.
ClientTypes ==
    /\ sock \in Seq(States) /\ Len(sock) >= 1
    /\ timers \subseteq Kinds \X Nat
    /\ closed \in BOOLEAN

\* The handles of the code are those of the timers that run.
HandlesHold ==
    \A t \in timers :
        /\ t[1] = "ping" => pingTimer = t[2]
        /\ t[1] = "pong" => pongTimeout = t[2]
        /\ t[1] = "reconnect" => reconnectTimer = t[2]

ConnectionInv == ClientTypes /\ HandlesHold /\ OneConnection /\ NeverStranded

\* A timer is a kind and a number.
LEMMA TimerIsPair ==
    ASSUME ClientTypes, NEW t \in timers
    PROVE  t = <<t[1], t[2]>> /\ t[1] \in Kinds /\ t[2] \in Nat
  BY DEF ClientTypes

\* One socket changes its state: which states and how many sockets there are.
LEMMA SocketChanges ==
    ASSUME ClientTypes, NEW g \in DOMAIN sock, NEW s \in States, sock' = [sock EXCEPT ![g] = s]
    PROVE  /\ sock' \in Seq(States) /\ Len(sock') = Len(sock) /\ Len(sock') >= 1
           /\ \A h \in 1..Len(sock) : sock'[h] = IF h = g THEN s ELSE sock[h]
<1>1. g \in 1..Len(sock)
  BY LenProperties DEF ClientTypes
<1>2. QED
  BY <1>1, ExceptSeq DEF ClientTypes

\* Sockets that are not the last are closed.
LEMMA LiveIsLast ==
    ASSUME ConnectionInv, NEW g \in DOMAIN sock, sock[g] # "closed"
    PROVE  g = ws /\ g \in Nat /\ g \in 1..Len(sock)
<1>1. Len(sock) \in Nat /\ DOMAIN sock = 1..Len(sock)
  BY LenProperties DEF ConnectionInv, ClientTypes
<1>2. QED
  BY <1>1 DEF ConnectionInv, OneConnection, ws

\* The first socket is connecting and nothing else runs.
LEMMA InvInit == Init => ConnectionInv
<1> SUFFICES ASSUME Init PROVE ConnectionInv
  OBVIOUS
<1>1. sock \in Seq(States) /\ Len(sock) = 1 /\ sock[1] = "connecting"
  BY DEF Init, States
<1>2. ws = 1 /\ timers = {} /\ closed = FALSE
  BY <1>1 DEF Init, ws
<1>3. ClientTypes
  <2>1. closed \in BOOLEAN
    BY <1>2, Zenon
  <2>2. timers \subseteq Kinds \X Nat
    BY <1>2, Zenon
  <2>3. QED
    BY <1>1, <2>1, <2>2 DEF ClientTypes
<1>4. HandlesHold
  BY <1>2 DEF HandlesHold
<1>5. OneConnection
  <2>1. \A g \in 1..(ws - 1) : FALSE
    BY <1>2
  <2>2. QED
    BY <1>2, <2>1 DEF OneConnection
<1>6. NeverStranded
  BY <1>1, <1>2 DEF NeverStranded
<1>7. QED
  BY <1>3, <1>4, <1>5, <1>6 DEF ConnectionInv

LEMMA InvSocket ==
    ASSUME ConnectionInv, NEW g \in DOMAIN sock, Socket(g)
    PROVE  ConnectionInv'
<1> USE DEF ConnectionInv
<1>0. Len(sock) \in Nat /\ DOMAIN sock = 1..Len(sock) /\ g \in Nat /\ ws \in 1..Len(sock)
  BY LenProperties DEF ClientTypes, ws
<1>1. CASE Open(g)
  <2>1. g = ws /\ timers = {}
    BY <1>1, LiveIsLast, TimerIsPair DEF Open, OneConnection
  <2>2. /\ sock' \in Seq(States) /\ Len(sock') = Len(sock) /\ Len(sock') >= 1
        /\ \A h \in 1..Len(sock) : sock'[h] = IF h = g THEN "open" ELSE sock[h]
    BY <1>1, SocketChanges DEF Open, States
  <2>3. timers' = {<<"ping", g>>} /\ pingTimer' = g /\ closed' = closed
    BY <1>1, <2>1 DEF Open
  <2>4. ~closed
    BY <1>1, <2>1 DEF Open, NeverStranded
  <2>5. ClientTypes'
    BY <1>0, <2>2, <2>3 DEF ClientTypes, Kinds
  <2>6. HandlesHold'
    BY <2>3 DEF HandlesHold
  <2>7. OneConnection'
    <3>1. ws' = ws /\ ws = Len(sock)
      BY <2>2 DEF ws
    <3>2. \A h \in 1..(ws' - 1) : sock'[h] = "closed"
      <4>1. SUFFICES ASSUME NEW h \in 1..(ws' - 1) PROVE sock'[h] = "closed"
        OBVIOUS
      <4>2. h \in 1..(ws - 1)
        BY <3>1, <4>1, Zenon
      <4>3. h \in 1..Len(sock) /\ h # g
        <5>1. Len(sock) \in Nat /\ g = Len(sock) /\ h \in 1..(Len(sock) - 1)
          BY <1>0, <2>1, <3>1, <4>2, Zenon
        <5>2. QED
          BY <5>1
      <4>4. sock[h] = "closed"
        BY <4>2 DEF OneConnection
      <4>5. QED
        BY <2>2, <4>3, <4>4
    <3>3. sock'[ws'] = "open"
      BY <1>0, <2>1, <2>2, <3>1
    <3>4. \A t \in timers' : t = <<"ping", ws'>>
      BY <2>1, <2>3, <3>1
    <3>5. QED
      BY <3>2, <3>3, <3>4 DEF OneConnection
  <2>8. NeverStranded'
    BY <1>0, <2>1, <2>2, <2>3, <2>4 DEF NeverStranded, ws
  <2>9. QED
    BY <2>5, <2>6, <2>7, <2>8
<1>2. CASE Metric(g)
  BY <1>2 DEF Metric, handles, ClientTypes, HandlesHold, OneConnection, NeverStranded, ws
<1>3. CASE Pong(g)
  <2>1. timers' \subseteq timers /\ \A t \in timers : t[1] = "reconnect" => t \in timers'
    BY <1>3, TimerIsPair DEF Pong
  <2>2. UNCHANGED <<sock, handles, closed>>
    BY <1>3 DEF Pong
  <2>3. QED
    BY <2>1, <2>2 DEF handles, ClientTypes, HandlesHold, OneConnection, NeverStranded, ws
<1>4. CASE SocketClosed(g)
  <2>1. g = ws
    BY <1>4, LiveIsLast DEF SocketClosed
  <2>2. /\ sock' \in Seq(States) /\ Len(sock') = Len(sock) /\ Len(sock') >= 1
        /\ \A h \in 1..Len(sock) : sock'[h] = IF h = g THEN "closed" ELSE sock[h]
    BY <1>4, SocketChanges DEF SocketClosed, States
  <2>3. timers \ ClearedOnClose = {}
    <3>1. \A t \in timers : t[1] \in {"ping", "pong"}
      BY <1>4, <2>1, TimerIsPair DEF SocketClosed, OneConnection, Kinds
    <3>2. QED
      BY <3>1, TimerIsPair DEF ClearedOnClose, HandlesHold
  <2>4. /\ timers' = IF closed THEN {} ELSE {<<"reconnect", g>>}
        /\ ~closed => reconnectTimer' = g
        /\ closed' = closed
    BY <1>4, <2>3 DEF SocketClosed
  <2>5. ClientTypes'
    BY <1>0, <2>2, <2>4 DEF ClientTypes, Kinds
  <2>6. HandlesHold'
    BY <2>4 DEF HandlesHold
  <2>7. OneConnection'
    <3>1. ws' = ws /\ ws = Len(sock)
      BY <2>2 DEF ws
    <3>2. \A h \in 1..(ws' - 1) : sock'[h] = "closed"
      <4>1. SUFFICES ASSUME NEW h \in 1..(ws' - 1) PROVE sock'[h] = "closed"
        OBVIOUS
      <4>2. h \in 1..(ws - 1)
        BY <3>1, <4>1, Zenon
      <4>3. h \in 1..Len(sock) /\ h # g
        <5>1. Len(sock) \in Nat /\ g = Len(sock) /\ h \in 1..(Len(sock) - 1)
          BY <1>0, <2>1, <3>1, <4>2, Zenon
        <5>2. QED
          BY <5>1
      <4>4. sock[h] = "closed"
        BY <4>2 DEF OneConnection
      <4>5. QED
        BY <2>2, <4>3, <4>4
    <3>3. sock'[ws'] = "closed"
      BY <1>0, <2>1, <2>2, <3>1
    <3>4. \A t \in timers' : t = <<"reconnect", ws'>>
      BY <2>1, <2>4, <3>1
    <3>5. QED
      BY <3>2, <3>3, <3>4 DEF OneConnection
  <2>8. NeverStranded'
    BY <1>0, <2>1, <2>2, <2>4 DEF NeverStranded, ws
  <2>9. QED
    BY <2>5, <2>6, <2>7, <2>8
<1>5. CASE GoSilent(g)
  BY <1>5 DEF GoSilent, handles, ClientTypes, HandlesHold, OneConnection, NeverStranded, ws
<1>6. QED
  BY <1>1, <1>2, <1>3, <1>4, <1>5 DEF Socket

\* close() on the current socket.
LEMMA ClosingLast ==
    ASSUME ConnectionInv, sock' = Closing(ws)
    PROVE  /\ sock' \in Seq(States) /\ Len(sock') = Len(sock) /\ Len(sock') >= 1
           /\ \A h \in 1..(Len(sock) - 1) : sock'[h] = sock[h]
           /\ sock'[Len(sock)] = IF sock[ws] = "closed" THEN "closed" ELSE "closing"
<1>1. Len(sock) \in Nat /\ ws \in DOMAIN sock /\ ws = Len(sock) /\ ws >= 1
  BY LenProperties DEF ConnectionInv, ClientTypes, ws
<1>2. CASE sock[ws] = "closed"
  BY <1>1, <1>2 DEF Closing, ConnectionInv, ClientTypes
<1>3. CASE sock[ws] # "closed"
  <2>1. sock' = [sock EXCEPT ![ws] = "closing"]
    BY <1>3 DEF Closing
  <2>2. /\ sock' \in Seq(States) /\ Len(sock') = Len(sock) /\ Len(sock') >= 1
        /\ \A h \in 1..Len(sock) : sock'[h] = IF h = ws THEN "closing" ELSE sock[h]
    BY <1>1, <2>1, SocketChanges DEF ConnectionInv, States
  <2>3. QED
    BY <1>1, <1>3, <2>2
<1>4. QED
  BY <1>2, <1>3

LEMMA InvTimer ==
    ASSUME ConnectionInv, NEW g \in DOMAIN sock, Timer(g)
    PROVE  ConnectionInv'
<1> USE DEF ConnectionInv
<1>0. Len(sock) \in Nat /\ DOMAIN sock = 1..Len(sock) /\ g \in Nat /\ ws \in 1..Len(sock)
  BY LenProperties DEF ClientTypes, ws
<1>1. CASE Ping(g)
  <2>1. /\ timers' = timers \cup {<<"pong", ws>>} /\ pongTimeout' = ws
        /\ UNCHANGED <<sock, pingTimer, reconnectTimer, closed>>
        /\ sock[ws] = "open" /\ <<"pong", ws>> \notin timers
    BY <1>1 DEF Ping
  <2>2. \A t \in timers : t[1] # "pong"
    BY <2>1, TimerIsPair DEF OneConnection
  <2>3. ClientTypes'
    BY <1>0, <2>1 DEF ClientTypes, Kinds
  <2>4. HandlesHold'
    BY <2>1, <2>2 DEF HandlesHold
  <2>5. OneConnection' /\ NeverStranded'
    BY <1>0, <1>1, <2>1 DEF OneConnection, NeverStranded, ws, Ping
  <2>6. QED
    BY <2>3, <2>4, <2>5
<1>2. CASE PongTimeout(g)
  <2>1. /\ timers' = timers \ {<<"pong", g>>} /\ sock' = Closing(ws)
        /\ UNCHANGED <<handles, closed>> /\ <<"pong", g>> \in timers
    BY <1>2 DEF PongTimeout
  <2>2. sock[ws] \in {"open", "closing"} /\ sock[ws] # "closed"
    BY <2>1 DEF OneConnection
  <2>3. /\ sock' \in Seq(States) /\ Len(sock') = Len(sock) /\ Len(sock') >= 1
        /\ \A h \in 1..(Len(sock) - 1) : sock'[h] = sock[h]
        /\ sock'[Len(sock)] = "closing"
    BY <2>1, <2>2, ClosingLast
  <2>4. ClientTypes' /\ HandlesHold'
    BY <2>1, <2>3 DEF ClientTypes, HandlesHold, handles
  <2>5. OneConnection'
    BY <1>0, <2>1, <2>2, <2>3 DEF OneConnection, ws
  <2>6. NeverStranded'
    BY <1>0, <2>1, <2>2, <2>3 DEF NeverStranded, ws
  <2>7. QED
    BY <2>4, <2>5, <2>6
<1>3. CASE Reconnect(g)
  <2>1. /\ <<"reconnect", g>> \in timers /\ timers' = timers \ {<<"reconnect", g>>}
        /\ sock' = Append(sock, "connecting")
        /\ UNCHANGED <<handles, closed>>
    BY <1>3 DEF Reconnect
  <2>2. g = ws /\ sock[ws] = "closed" /\ ~closed
    BY <2>1 DEF OneConnection, NeverStranded
  <2>3. timers' = {}
    BY <2>1, <2>2, TimerIsPair DEF OneConnection, Kinds
  <2>4. /\ sock' \in Seq(States) /\ Len(sock') = Len(sock) + 1
        /\ \A h \in 1..Len(sock) : sock'[h] = sock[h]
        /\ sock'[Len(sock) + 1] = "connecting"
    BY <2>1, AppendProperties DEF ClientTypes, States
  <2>5. \A h \in 1..Len(sock) : sock'[h] = "closed"
    BY <1>0, <2>2, <2>4 DEF OneConnection, ws
  <2>6. ws' = Len(sock) + 1 /\ closed' = closed
    BY <2>1, <2>4 DEF ws
  <2>7. ClientTypes' /\ HandlesHold'
    BY <1>0, <2>1, <2>3, <2>4 DEF ClientTypes, HandlesHold
  <2>8. OneConnection'
    BY <1>0, <2>3, <2>5, <2>6 DEF OneConnection
  <2>9. NeverStranded'
    BY <2>2, <2>3, <2>4, <2>6 DEF NeverStranded
  <2>10. QED
    BY <2>7, <2>8, <2>9
<1>4. QED
  BY <1>1, <1>2, <1>3 DEF Timer

LEMMA InvUnsubscribe == ConnectionInv /\ Unsubscribe => ConnectionInv'
<1> SUFFICES ASSUME ConnectionInv, Unsubscribe PROVE ConnectionInv'
  OBVIOUS
<1> USE DEF ConnectionInv
<1>1. Len(sock) \in Nat /\ ws = Len(sock) /\ ws >= 1
  BY LenProperties DEF ClientTypes, ws
<1>2. timers' = {}
  BY TimerIsPair DEF Unsubscribe, HandlesHold, Kinds
<1>3. sock' = Closing(ws) /\ closed' = TRUE
  BY DEF Unsubscribe
<1>4. /\ sock' \in Seq(States) /\ Len(sock') = Len(sock) /\ Len(sock') >= 1
      /\ \A h \in 1..(Len(sock) - 1) : sock'[h] = sock[h]
      /\ sock'[Len(sock)] \in {"closing", "closed"}
  BY <1>3, ClosingLast
<1>5. QED
  BY <1>1, <1>2, <1>3, <1>4 DEF ClientTypes, HandlesHold, OneConnection, NeverStranded, ws

LEMMA InvNext == ConnectionInv /\ [Next]_vars => ConnectionInv'
<1> SUFFICES ASSUME ConnectionInv, [Next]_vars PROVE ConnectionInv'
  OBVIOUS
<1> USE DEF ConnectionInv, ClientTypes, HandlesHold, OneConnection, NeverStranded, ws, handles
<1>1. ASSUME NEW g \in DOMAIN sock, Socket(g) \/ Timer(g) PROVE ConnectionInv'
  BY <1>1, InvSocket, InvTimer
<1>2. CASE ZonesFetched
  BY <1>2 DEF ZonesFetched
<1>3. CASE Unsubscribe
  BY <1>3, InvUnsubscribe
<1>4. CASE UNCHANGED vars
  BY <1>4 DEF vars
<1>5. QED
  BY <1>1, <1>2, <1>3, <1>4 DEF Next

\* A client has one connection at a time, and no timer outlives its socket, in
\* every order of close events, timers and unsubscription (connect and onclose
\* of streamZonesWS).
THEOREM OneConnectionHolds == Spec => []OneConnection
<1>1. ConnectionInv => OneConnection
  BY DEF ConnectionInv
<1>2. QED
  BY <1>1, InvInit, InvNext, PTL DEF Spec

\* A client that is listened to always has something that will wake it up, and
\* one that has unsubscribed has nothing (the returned function of streamZonesWS).
THEOREM NeverStrandedHolds == Spec => []NeverStranded
<1>1. ConnectionInv => NeverStranded
  BY DEF ConnectionInv
<1>2. QED
  BY <1>1, InvInit, InvNext, PTL DEF Spec

-----------------------------------------------------------------------------
(* The delays. Powers of two are beyond the provers' arithmetic, so they    *)
(* are counted: a set of n elements has 2^n subsets, and with one element   *)
(* more twice as many.                                                      *)

\* Powers of two are natural numbers and double.
LEMMA Powers == ASSUME NEW n \in Nat PROVE 2^n \in Nat /\ 2^(n + 1) = 2 * 2^n
<1>1. PICK S, T, B : /\ S = 1..n /\ T = 1..(n + 1)
                     /\ B = {X \cup {n + 1} : X \in SUBSET S}
  OBVIOUS
<1>2. /\ IsFiniteSet(S) /\ Cardinality(S) = n
      /\ IsFiniteSet(T) /\ Cardinality(T) = n + 1
  BY <1>1, FS_Interval
<1>3. /\ IsFiniteSet(SUBSET S) /\ Cardinality(SUBSET S) = 2^n
      /\ IsFiniteSet(SUBSET T) /\ Cardinality(SUBSET T) = 2^(n + 1)
  BY <1>2, FS_SUBSET
<1>4. /\ Cardinality(SUBSET S) \in Nat
      /\ IsFiniteSet(B) /\ Cardinality(B) = Cardinality(SUBSET S)
  <2>1. PICK f : f = [X \in SUBSET S |-> X \cup {n + 1}]
    OBVIOUS
  <2>2. f \in [SUBSET S -> B]
    BY <1>1, <2>1
  <2>3. \A X, Y \in SUBSET S : f[X] = f[Y] => X = Y
    <3>1. SUFFICES ASSUME NEW X \in SUBSET S, NEW Y \in SUBSET S,
                          X \cup {n + 1} = Y \cup {n + 1}
                   PROVE  X = Y
      BY <2>1
    <3>2. n + 1 \notin S
      BY <1>1
    <3>3. QED
      BY <3>1, <3>2
  <2>4. \A Z \in B : \E X \in SUBSET S : f[X] = Z
    BY <1>1, <2>1
  <2>5. f \in Bijection(SUBSET S, B)
    BY <2>2, <2>3, <2>4, Fun_IsBij, Zenon
  <2>6. QED
    BY <1>3, <2>5, FS_Bijection, FS_SameCardinalityBij, FS_CardinalityType, Fun_ExistsBij
<1>5. SUBSET T = (SUBSET S) \cup B
  <2>1. T = S \cup {n + 1}
    BY <1>1
  <2>2. ASSUME NEW Z \in SUBSET T PROVE Z \in SUBSET S \/ Z \in B
    <3>1. CASE n + 1 \in Z
      <4>1. Z \ {n + 1} \in SUBSET S /\ (Z \ {n + 1}) \cup {n + 1} = Z
        BY <2>1, <3>1
      <4>2. QED
        BY <1>1, <4>1, Zenon
    <3>2. CASE n + 1 \notin Z
      BY <2>1, <3>2
    <3>3. QED
      BY <3>1, <3>2
  <2>3. ASSUME NEW Z \in B PROVE Z \in SUBSET T
    BY <1>1, <2>1
  <2>4. ASSUME NEW Z \in SUBSET S PROVE Z \in SUBSET T
    BY <2>1
  <2>5. QED
    BY <2>2, <2>3, <2>4
<1>6. (SUBSET S) \cap B = {}
  <2>1. n + 1 \notin S
    BY <1>1
  <2>2. QED
    BY <1>1, <2>1
<1>7. Cardinality(SUBSET T) = Cardinality(SUBSET S) + Cardinality(B)
  <2>1. Cardinality((SUBSET S) \cap B) = 0
    BY <1>6, FS_EmptySet
  <2>2. Cardinality((SUBSET S) \cup B)
           = Cardinality(SUBSET S) + Cardinality(B) - Cardinality((SUBSET S) \cap B)
    BY <1>3, <1>4, FS_Union, Zenon
  <2>3. \A a, b : a \in Nat /\ b = a => a + b - 0 = a + b
    OBVIOUS
  <2>4. QED
    BY <1>4, <1>5, <2>1, <2>2, <2>3, Zenon
<1>8. QED
  BY <1>3, <1>4, <1>7

\* Delays are at most thirty seconds, and double until they are that long.
LEMMA BackoffGrows ==
    ASSUME NEW n \in Nat
    PROVE  /\ Backoff(n) \in 0..MaxDelay
           /\ Backoff(n + 1) = MaxDelay \/ Backoff(n + 1) >= 2 * Backoff(n)
<1>1. PICK p, q : p = 2^n /\ q = 2^(n + 1)
  OBVIOUS
<1>2. p \in Nat /\ q = 2 * p
  BY <1>1, Powers
<1>3. /\ Backoff(n) = IF FirstDelay * p < MaxDelay THEN FirstDelay * p ELSE MaxDelay
      /\ Backoff(n + 1) = IF FirstDelay * q < MaxDelay THEN FirstDelay * q ELSE MaxDelay
  BY <1>1 DEF Backoff
<1>4. FirstDelay * p \in Nat /\ FirstDelay * q = 2 * (FirstDelay * p) /\ MaxDelay \in Nat
  BY <1>2 DEF FirstDelay, MaxDelay
<1>5. QED
  BY ONLY <1>3, <1>4

-----------------------------------------------------------------------------
(* Attempts, delays and what the page shows. The attempts are those since   *)
(* the last connection: none while there is one, and at most one for every  *)
(* socket before. The last delay is that of the last attempt.               *)

AttemptsCounted ==
    /\ reconnectAttempts \in Nat
    /\ reconnectAttempts <= ws
    /\ sock[ws] # "closed" => reconnectAttempts <= ws - 1
    /\ sock[ws] \in {"open", "closing"} /\ ~closed => reconnectAttempts = 0

WaitIsLast ==
    sock[ws] \in {"connecting", "closed"} /\ ~closed =>
        IF reconnectAttempts = 0 THEN wait = 0 ELSE wait = Backoff(reconnectAttempts - 1)

\* The types, apart for numbers and for flags.
SizesOK ==
    /\ sock \in Seq(States) /\ Len(sock) \in 1..MaxSockets
    /\ timers \subseteq Kinds \X (1..MaxSockets)
    /\ {pingTimer, pongTimeout, reconnectTimer} \subseteq 0..MaxSockets
    /\ reconnectAttempts \in 0..MaxSockets
    /\ wait \in 0..MaxDelay
    /\ silent \subseteq 1..MaxSockets
FlagsOK == closed \in BOOLEAN /\ connected \in BOOLEAN /\ zonesPending \in BOOLEAN

RetryInv == SizesOK /\ FlagsOK /\ AttemptsCounted /\ WaitIsLast /\ OutageShows

ClientInv == ConnectionInv /\ RetryInv

\* The sockets, the last of which is the current one.
LEMMA SocketFacts ==
    ASSUME ClientInv
    PROVE  /\ Len(sock) \in Nat /\ Len(sock) \in 1..MaxSockets /\ ws = Len(sock)
           /\ DOMAIN sock = 1..Len(sock) /\ ws \in DOMAIN sock
           /\ MaxSockets \in Nat
           /\ DOMAIN sock \subseteq 1..MaxSockets
           /\ \A g \in DOMAIN sock : sock[g] # "closed" => g = ws
<1>1. Len(sock) \in Nat /\ DOMAIN sock = 1..Len(sock) /\ ws = Len(sock)
  BY LenProperties DEF ClientInv, ConnectionInv, ClientTypes, ws
<1>2. Len(sock) \in 1..MaxSockets /\ MaxSockets \in Nat
  BY ClientAssumption DEF ClientInv, RetryInv, SizesOK
<1>3. \A g \in DOMAIN sock : sock[g] # "closed" => g = ws
  BY LiveIsLast DEF ClientInv
<1> QED
  BY <1>1, <1>2, <1>3

\* Steps that leave the sockets, the attempts and the delay alone.
LEMMA RetryQuiet ==
    ASSUME RetryInv, UNCHANGED <<sock, reconnectAttempts, wait, closed>>,
           SizesOK', FlagsOK', OutageShows'
    PROVE  RetryInv'
<1>1. ws' = ws
  BY DEF ws
<1>2. AttemptsCounted' /\ WaitIsLast'
  BY <1>1 DEF RetryInv, AttemptsCounted, WaitIsLast
<1> QED
  BY <1>2 DEF RetryInv

\* What the page shows is unchanged, if what it depends on is.
LEMMA ShownAsBefore ==
    ASSUME OutageShows, UNCHANGED <<reconnectAttempts, closed, connected>> PROVE OutageShows'
BY DEF OutageShows, Indicator

\* Events of a socket.
LEMMA RetrySocket ==
    ASSUME ClientInv, NEW g \in DOMAIN sock, Socket(g) PROVE RetryInv'
<1>1. /\ Len(sock) \in Nat /\ Len(sock) \in 1..MaxSockets /\ ws = Len(sock)
      /\ DOMAIN sock = 1..Len(sock) /\ ws \in DOMAIN sock
      /\ MaxSockets \in Nat
      /\ DOMAIN sock \subseteq 1..MaxSockets
      /\ \A h \in DOMAIN sock : sock[h] # "closed" => h = ws
  BY SocketFacts
<1>2. RetryInv /\ SizesOK /\ FlagsOK /\ AttemptsCounted /\ WaitIsLast /\ OutageShows
      /\ ClientTypes
  BY DEF ClientInv, RetryInv, ConnectionInv
<1>3. CASE Open(g)
  <2>1. g = ws /\ ws' = ws
    BY <1>1, <1>3 DEF Open, ws
  <2>2. /\ sock' \in Seq(States) /\ Len(sock') = Len(sock)
        /\ sock'[ws] = "open"
    BY <1>2, <1>3, <2>1, SocketChanges DEF Open, States
  <2>3. /\ reconnectAttempts' = 0 /\ timers' = timers \cup {<<"ping", g>>} /\ pingTimer' = g
        /\ UNCHANGED <<pongTimeout, reconnectTimer, wait, silent>>
    BY <1>3 DEF Open
  <2>4. SizesOK'
    BY <1>1, <1>2, <2>1, <2>2, <2>3 DEF SizesOK, Kinds
  <2>5. FlagsOK'
    BY <1>2, <1>3, Zenon DEF FlagsOK, Open
  <2>6. AttemptsCounted'
    BY <1>1, <2>1, <2>2, <2>3 DEF AttemptsCounted
  <2>7. WaitIsLast'
    BY <2>1, <2>2 DEF WaitIsLast
  <2>8. OutageShows'
    BY <2>3 DEF OutageShows
  <2> QED
    BY <2>4, <2>5, <2>6, <2>7, <2>8 DEF RetryInv
<1>4. CASE Metric(g)
  <2>1. closed \/ reconnectAttempts = 0
    BY <1>1, <1>2, <1>4 DEF Metric, AttemptsCounted
  <2>2. UNCHANGED <<sock, timers, handles, reconnectAttempts, wait, closed, silent>>
    BY <1>4 DEF Metric
  <2>3. SizesOK'
    BY <1>2, <2>2 DEF SizesOK, handles
  <2>4. FlagsOK'
    BY <1>2, <1>4, Zenon DEF FlagsOK, Metric
  <2>5. OutageShows'
    BY <2>1, <2>2 DEF OutageShows
  <2> QED
    BY <1>2, <2>2, <2>3, <2>4, <2>5, RetryQuiet
<1>5. CASE Pong(g)
  <2>1. timers' \subseteq timers
        /\ UNCHANGED <<sock, handles, reconnectAttempts, wait, closed, connected, silent>>
    BY <1>5 DEF Pong
  <2>2. SizesOK'
    BY <1>2, <2>1 DEF SizesOK, handles
  <2>3. FlagsOK'
    BY <1>2, <1>5, Zenon DEF FlagsOK, Pong
  <2> QED
    BY <1>2, <2>1, <2>2, <2>3, RetryQuiet, ShownAsBefore
<1>6. CASE SocketClosed(g)
  <2>1. g = ws
    BY <1>1, <1>6 DEF SocketClosed
  <2>2. /\ sock' \in Seq(States) /\ Len(sock') = Len(sock)
        /\ sock'[ws] = "closed"
    BY <1>2, <1>6, <2>1, SocketChanges DEF SocketClosed, States
  <2>3. ws' = ws
    BY <1>1, <2>2 DEF ws
  <2>4. reconnectAttempts \in Nat /\ reconnectAttempts <= ws - 1
    BY <1>2, <1>6, <2>1 DEF SocketClosed, AttemptsCounted
  <2>5. PICK err \in BOOLEAN : /\ connected' = (connected /\ (closed \/ ~err))
                               /\ sock[g] = "connecting" => err = TRUE
    BY <1>6, Zenon DEF SocketClosed
  <2>6. connected' \in BOOLEAN
    BY <2>5, Zenon
  <2>7. /\ closed' = closed /\ zonesPending' = zonesPending
        /\ UNCHANGED <<pingTimer, pongTimeout, silent>>
    BY <1>6 DEF SocketClosed
  <2>8. FlagsOK'
    BY <1>2, <2>6, <2>7, Zenon DEF FlagsOK
  <2>9. CASE closed
    <3>1. timers' \subseteq timers /\ UNCHANGED <<wait, reconnectAttempts, reconnectTimer>>
      BY <1>6, <2>9 DEF SocketClosed
    <3>2. SizesOK'
      BY <1>2, <2>2, <2>7, <3>1 DEF SizesOK
    <3>3. AttemptsCounted'
      BY <1>1, <2>2, <2>3, <2>4, <3>1 DEF AttemptsCounted
    <3>4. WaitIsLast' /\ OutageShows'
      BY <2>7, <2>9 DEF WaitIsLast, OutageShows
    <3> QED
      BY <2>8, <3>2, <3>3, <3>4 DEF RetryInv
  <2>10. CASE ~closed
    <3>1. /\ wait' = Backoff(reconnectAttempts)
          /\ reconnectAttempts' = reconnectAttempts + 1
          /\ reconnectTimer' = g
          /\ timers' \subseteq timers \cup {<<"reconnect", g>>}
      BY <1>6, <2>10 DEF SocketClosed
    <3>2. wait' \in 0..MaxDelay
      <4>1. Backoff(reconnectAttempts) \in 0..MaxDelay
        BY <2>4, BackoffGrows
      <4> QED
        BY ONLY <3>1, <4>1
    <3>3. SizesOK'
      BY <1>1, <1>2, <2>1, <2>2, <2>4, <2>7, <3>1, <3>2 DEF SizesOK, Kinds
    <3>4. AttemptsCounted'
      BY <1>1, <2>2, <2>3, <2>4, <3>1 DEF AttemptsCounted
    <3>5. WaitIsLast'
      <4>1. reconnectAttempts' # 0 /\ reconnectAttempts' - 1 = reconnectAttempts
        BY <2>4, <3>1
      <4> QED
        BY <3>1, <4>1 DEF WaitIsLast, Backoff
    <3>6. OutageShows'
      <4>1. CASE sock[ws] = "connecting"
        <5>1. ~connected'
          BY <2>1, <2>5, <2>10, <4>1, Zenon
        <5> QED
          BY <5>1 DEF OutageShows, Indicator
      <4>2. CASE sock[ws] # "connecting"
        <5>1. sock[ws] \in States /\ sock[ws] # "closed"
          BY <1>1, <1>2, <1>6, <2>1 DEF SocketClosed, SizesOK
        <5>2. reconnectAttempts = 0
          BY <1>2, <2>10, <4>2, <5>1 DEF States, AttemptsCounted
        <5> QED
          BY <3>1, <5>2 DEF OutageShows
      <4> QED
        BY <4>1, <4>2
    <3> QED
      BY <2>8, <3>3, <3>4, <3>5, <3>6 DEF RetryInv
  <2> QED
    BY <2>9, <2>10
<1>7. CASE GoSilent(g)
  <2>1. silent' = silent \cup {g}
        /\ UNCHANGED <<sock, timers, handles, reconnectAttempts, wait, closed, connected>>
    BY <1>7 DEF GoSilent
  <2>2. SizesOK'
    BY <1>1, <1>2, <2>1 DEF SizesOK, handles
  <2>3. FlagsOK'
    BY <1>2, <1>7, Zenon DEF FlagsOK, GoSilent
  <2> QED
    BY <1>2, <2>1, <2>2, <2>3, RetryQuiet, ShownAsBefore
<1> QED
  BY <1>3, <1>4, <1>5, <1>6, <1>7 DEF Socket

\* close() on a socket that is not needed any more, or whose peer is gone.
LEMMA RetryClosing ==
    ASSUME ClientInv, sock' = Closing(ws), timers' \subseteq timers, FlagsOK',
           UNCHANGED <<handles, reconnectAttempts, wait, connected, silent>>,
           closed' \/ (sock[ws] \in {"open", "closing"} /\ closed' = closed)
    PROVE  RetryInv'
<1>1. Len(sock) \in Nat /\ Len(sock) \in 1..MaxSockets /\ ws = Len(sock)
  BY SocketFacts
<1>2. RetryInv /\ SizesOK /\ AttemptsCounted /\ OutageShows
  BY DEF ClientInv, RetryInv
<1>3. /\ sock' \in Seq(States) /\ Len(sock') = Len(sock)
      /\ sock'[Len(sock)] = IF sock[ws] = "closed" THEN "closed" ELSE "closing"
  BY ClosingLast DEF ClientInv
<1>4. ws' = ws
  BY <1>1, <1>3 DEF ws
<1>5. SizesOK'
  BY <1>2, <1>3 DEF SizesOK, handles
<1>6. AttemptsCounted'
  BY <1>1, <1>2, <1>3, <1>4 DEF AttemptsCounted
<1>7. WaitIsLast'
  BY <1>1, <1>3, <1>4 DEF WaitIsLast
<1>8. OutageShows'
  BY <1>2 DEF OutageShows, Indicator
<1> QED
  BY <1>5, <1>6, <1>7, <1>8 DEF RetryInv

\* Timers that fire.
LEMMA RetryTimer ==
    ASSUME ClientInv, NEW g \in DOMAIN sock, Timer(g) PROVE RetryInv'
<1>1. /\ Len(sock) \in Nat /\ Len(sock) \in 1..MaxSockets /\ ws = Len(sock)
      /\ DOMAIN sock = 1..Len(sock) /\ ws \in DOMAIN sock
      /\ MaxSockets \in Nat
      /\ DOMAIN sock \subseteq 1..MaxSockets
  BY SocketFacts
<1>2. RetryInv /\ SizesOK /\ FlagsOK /\ AttemptsCounted /\ OutageShows /\ OneConnection
  BY DEF ClientInv, RetryInv, ConnectionInv
<1>3. CASE Ping(g)
  <2>1. /\ timers' = timers \cup {<<"pong", ws>>} /\ pongTimeout' = ws
        /\ UNCHANGED <<sock, pingTimer, reconnectTimer, reconnectAttempts, wait, closed,
                       connected, silent>>
    BY <1>3 DEF Ping
  <2>2. SizesOK'
    BY <1>1, <1>2, <2>1 DEF SizesOK, Kinds
  <2>3. FlagsOK'
    BY <1>2, <1>3, Zenon DEF FlagsOK, Ping
  <2> QED
    BY <1>2, <2>1, <2>2, <2>3, RetryQuiet, ShownAsBefore
<1>4. CASE PongTimeout(g)
  <2>1. <<"pong", g>> \in timers
        /\ timers' \subseteq timers /\ sock' = Closing(ws)
        /\ UNCHANGED <<handles, reconnectAttempts, wait, closed, connected, silent>>
    BY <1>4 DEF PongTimeout
  <2>2. sock[ws] \in {"open", "closing"}
    BY <1>2, <2>1 DEF OneConnection
  <2>3. FlagsOK'
    BY <1>2, <1>4, Zenon DEF FlagsOK, PongTimeout
  <2> QED
    BY <2>1, <2>2, <2>3, RetryClosing
<1>5. CASE Reconnect(g)
  <2>1. /\ sock' = Append(sock, "connecting") /\ ws < MaxSockets
        /\ timers' \subseteq timers /\ <<"reconnect", g>> \in timers
        /\ UNCHANGED <<handles, reconnectAttempts, wait, closed, connected, silent>>
    BY <1>5 DEF Reconnect
  <2>2. /\ sock' \in Seq(States) /\ Len(sock') = Len(sock) + 1
        /\ sock'[Len(sock) + 1] = "connecting"
    BY <1>2, <2>1, AppendProperties DEF SizesOK, States
  <2>3. ws' = ws + 1
    BY <1>1, <2>2 DEF ws
  <2>4. sock[ws] = "closed"
    BY <1>2, <2>1 DEF OneConnection
  <2>5. SizesOK'
    BY <1>1, <1>2, <2>1, <2>2 DEF SizesOK, handles
  <2>6. FlagsOK'
    BY <1>2, <1>5, Zenon DEF FlagsOK, Reconnect
  <2>7. AttemptsCounted'
    BY <1>1, <1>2, <2>1, <2>2, <2>3 DEF AttemptsCounted
  <2>8. WaitIsLast'
    BY <1>2, <2>1, <2>4 DEF RetryInv, WaitIsLast, Backoff
  <2> QED
    BY <1>2, <2>1, <2>5, <2>6, <2>7, <2>8, ShownAsBefore DEF RetryInv
<1> QED
  BY <1>3, <1>4, <1>5 DEF Timer

\* ClientInv is inductive.
LEMMA ClientStep == ClientInv /\ [Next]_vars => ClientInv'
<1> SUFFICES ASSUME ClientInv, [Next]_vars PROVE RetryInv'
  BY InvNext DEF ClientInv
<1>1. ASSUME NEW g \in DOMAIN sock, Socket(g) \/ Timer(g) PROVE RetryInv'
  BY <1>1, RetrySocket, RetryTimer
<1>2. RetryInv /\ SizesOK /\ FlagsOK /\ OutageShows
  BY DEF ClientInv, RetryInv
<1>3. CASE ZonesFetched
  <2>1. UNCHANGED <<sock, timers, handles, reconnectAttempts, wait, closed, silent>>
    BY <1>3 DEF ZonesFetched
  <2>2. connected' = connected \/ connected' = FALSE
    <3>1. \A x, y : x \in {y, FALSE} => x = y \/ x = FALSE
      OBVIOUS
    <3> QED
      BY <1>3, <3>1, Zenon DEF ZonesFetched
  <2>3. SizesOK'
    BY <1>2, <2>1 DEF SizesOK, handles
  <2>4. FlagsOK'
    BY <1>2, <1>3, <2>2, Zenon DEF FlagsOK, ZonesFetched
  <2>5. OutageShows'
    <3>1. CASE connected' = connected
      BY <1>2, <2>1, <3>1, ShownAsBefore
    <3>2. CASE connected' = FALSE
      BY <3>2 DEF OutageShows, Indicator
    <3> QED
      BY <2>2, <3>1, <3>2
  <2> QED
    BY <1>2, <2>1, <2>3, <2>4, <2>5, RetryQuiet
<1>4. CASE Unsubscribe
  <2>1. /\ closed' = TRUE /\ timers' \subseteq timers /\ sock' = Closing(ws)
        /\ UNCHANGED <<handles, reconnectAttempts, wait, connected, silent>>
    BY <1>4 DEF Unsubscribe
  <2>2. FlagsOK'
    BY <1>2, <1>4, Zenon DEF FlagsOK, Unsubscribe
  <2> QED
    BY <2>1, <2>2, RetryClosing
<1>5. CASE UNCHANGED vars
  <2>1. UNCHANGED <<sock, timers, handles, reconnectAttempts, wait, closed, connected, silent,
                    zonesPending>>
    BY <1>5 DEF vars
  <2>2. SizesOK'
    BY <1>2, <2>1 DEF SizesOK, handles
  <2>3. FlagsOK'
    BY <1>2, <2>1, Zenon DEF FlagsOK
  <2> QED
    BY <1>2, <2>1, <2>2, <2>3, RetryQuiet, ShownAsBefore
<1> QED
  BY <1>1, <1>3, <1>4, <1>5 DEF Next

\* The first socket is connecting and nothing has been tried.
LEMMA ClientInit == Init => ClientInv
<1> SUFFICES ASSUME Init PROVE RetryInv
  BY InvInit DEF ClientInv
<1>1. sock \in Seq(States) /\ Len(sock) = 1 /\ ws = 1 /\ sock[1] = "connecting"
  BY DEF Init, States, ws
<1>2. MaxSockets \in Nat \ {0}
  BY ClientAssumption
<1>3. timers = {} /\ silent = {} /\ reconnectAttempts = 0 /\ wait = 0
      /\ pingTimer = 0 /\ pongTimeout = 0 /\ reconnectTimer = 0
  BY DEF Init
<1>4. SizesOK
  <2>1. MaxDelay \in Nat
    BY DEF MaxDelay
  <2> QED
    BY <1>1, <1>2, <1>3, <2>1 DEF SizesOK
<1>5. FlagsOK
  BY Zenon DEF Init, FlagsOK
<1>6. AttemptsCounted /\ WaitIsLast /\ OutageShows
  BY <1>1, <1>3 DEF AttemptsCounted, WaitIsLast, OutageShows
<1> QED
  BY <1>4, <1>5, <1>6 DEF RetryInv

\* Every variable of the client has its type; no handle, timer or count of
\* attempts exceeds the number of sockets, and no delay thirty seconds.
THEOREM ClientTypesHold == Spec => []TypeOK
<1>1. ClientInv => TypeOK
  BY Zenon DEF ClientInv, RetryInv, SizesOK, FlagsOK, TypeOK
<1> QED
  BY <1>1, ClientInit, ClientStep, PTL DEF Spec

\* From the second failed attempt on the page says that the stream is lost,
\* until a frame arrives (onError and onMetric of the page).
THEOREM OutageShowsHolds == Spec => []OutageShows
<1>1. ClientInv => OutageShows
  BY DEF ClientInv, RetryInv
<1> QED
  BY <1>1, ClientInit, ClientStep, PTL DEF Spec

\* Failed attempts are spaced at least twice as far apart as before, up to
\* thirty seconds (onclose of streamZonesWS).
THEOREM BacksOffHolds == Spec => BacksOff
<1>1. ASSUME ClientInv, [Next]_vars, NEW g \in DOMAIN sock,
             sock[g] = "connecting", sock'[g] = "closed", ~closed
      PROVE  wait' = MaxDelay \/ wait' >= 2 * wait
  <2>1. g = ws /\ Len(sock) \in Nat /\ ws = Len(sock) /\ DOMAIN sock = 1..Len(sock)
    BY <1>1, SocketFacts
  <2>2. SocketClosed(g)
    <3>1. ASSUME NEW h \in DOMAIN sock, Socket(h) PROVE SocketClosed(h)
      BY <1>1, <3>1 DEF Socket, Open, Metric, Pong, GoSilent
    <3>2. ASSUME NEW h \in DOMAIN sock, Timer(h) PROVE FALSE
      BY <1>1, <2>1, <3>2 DEF Timer, Ping, PongTimeout, Reconnect, Closing,
                              ClientInv, ConnectionInv, ClientTypes
    <3>3. ~Unsubscribe /\ ~ZonesFetched /\ ~UNCHANGED vars
      BY <1>1, <2>1 DEF Unsubscribe, ZonesFetched, Closing, vars
    <3>4. \A h \in DOMAIN sock : SocketClosed(h) => h = ws
      BY <1>1, SocketFacts DEF SocketClosed
    <3> QED
      BY <1>1, <2>1, <3>1, <3>2, <3>3, <3>4 DEF Next
  <2>3. wait' = Backoff(reconnectAttempts)
    BY <1>1, <2>2 DEF SocketClosed
  <2>4. /\ reconnectAttempts \in Nat
        /\ IF reconnectAttempts = 0 THEN wait = 0 ELSE wait = Backoff(reconnectAttempts - 1)
    BY <1>1, <2>1 DEF ClientInv, RetryInv, AttemptsCounted, WaitIsLast
  <2>5. CASE reconnectAttempts = 0
    <3>1. Backoff(reconnectAttempts) \in 0..MaxDelay
      BY <2>4, BackoffGrows
    <3> QED
      BY ONLY <2>3, <2>4, <2>5, <3>1
  <2>6. CASE reconnectAttempts # 0
    <3>1. PICK n \in Nat : n = reconnectAttempts - 1 /\ n + 1 = reconnectAttempts
      BY <2>4, <2>6
    <3>2. wait = Backoff(n) /\ wait' = Backoff(n + 1)
      BY <2>3, <2>4, <2>6, <3>1
    <3> QED
      BY <3>2, BackoffGrows
  <2> QED
    BY <2>5, <2>6
<1>2. ClientInv /\ [Next]_vars =>
         [\A g \in DOMAIN sock :
             sock[g] = "connecting" /\ sock'[g] = "closed" /\ ~closed
                 => wait' = MaxDelay \/ wait' >= 2 * wait]_vars
  BY <1>1
<1> QED
  BY <1>2, ClientInit, ClientStep, PTL DEF Spec, BacksOff
=============================================================================
