------------------------- MODULE LiveInferenceProofs -------------------------
(***************************************************************************)
(* Theorems about LiveInference, for every number of runs and frames and   *)
(* either mode of the emitter.                                             *)
(*                                                                         *)
(* The page and the emitter have an invariant each, PageInv and            *)
(* EmitterInv; CamTypes and Bounds are what is left of the types.          *)
(***************************************************************************)
EXTENDS LiveInference, SequenceTheorems, TLAPS

-----------------------------------------------------------------------------
(* The page. *)

SockStates == {"connecting", "open", "closing", "closed"}

\* Sockets are numbered, and there is one more when an effect asks for it.
PageTypes ==
    /\ {source, running} \subseteq Sources
    /\ sock \in Seq(SockStates) /\ Len(sock) \in Runs
    /\ source = "WEBCAM" /\ running # "WEBCAM" => Len(sock) < MaxRuns
    /\ inbox \in [Runs -> Nat]

\* A socket that is or will be open is the last one, and WEBCAM is running.
OneSocket == \A r \in DOMAIN sock : Gone(sock[r]) \/ (r = wsRef /\ running = "WEBCAM")

PageInv == PageTypes /\ OneSocket

\* What a run of the effect and its cleanup make of the sockets.
LEMMA SocketsAfterEffect ==
    ASSUME PageInv, Effect
    PROVE  /\ sock' \in Seq(SockStates) /\ Len(sock') \in Runs
           /\ \A r \in DOMAIN sock' : Gone(sock'[r]) \/ (r = Len(sock') /\ running' = "WEBCAM")
<1> USE DEF PageInv
<1>1. Len(sock) \in Nat \ {0} /\ DOMAIN sock = 1..Len(sock)
  BY LenProperties, LiveAssumption DEF PageTypes, Runs
<1>2. CASE source = "CONCOURSE" /\ Cleanup
  <2> DEFINE n == Len(sock)
             s == Closing(sock[n])
  <2>1. sock' = [sock EXCEPT ![n] = s]
    BY <1>2 DEF Cleanup, Last
  <2>2. sock[n] \in SockStates /\ n \in 1..Len(sock)
    BY <1>1, ElementOfSeq DEF PageTypes
  <2>3. s \in SockStates /\ Gone(s)
    BY <2>2 DEF Closing, Gone, SockStates
  <2>4. /\ sock' \in Seq(SockStates) /\ Len(sock') = Len(sock)
        /\ \A r \in 1..Len(sock) : sock'[r] = IF r = n THEN s ELSE sock[r]
    BY <2>1, <2>2, <2>3, ExceptSeq DEF PageTypes
  <2>5. DOMAIN sock' = 1..Len(sock)
    BY <2>4, LenProperties
  <2>6. ASSUME NEW r \in DOMAIN sock' PROVE Gone(sock'[r])
    <3>1. CASE r = n
      BY <2>3, <2>4, <2>5, <3>1, <2>2
    <3>2. CASE r # n
      BY <1>1, <2>4, <2>5, <3>2 DEF OneSocket, wsRef
    <3>3. QED
      BY <3>1, <3>2
  <2>7. QED
    BY <2>4, <2>6 DEF PageTypes
<1>3. CASE source = "WEBCAM" /\ sock' = Append(sock, "connecting")
  <2>1. running # "WEBCAM" /\ running' = "WEBCAM"
    BY <1>3 DEF Effect
  <2>2. /\ sock' \in Seq(SockStates) /\ Len(sock') = Len(sock) + 1
        /\ \A r \in 1..Len(sock) : sock'[r] = sock[r]
    BY <1>3, AppendProperties DEF PageTypes, SockStates
  <2>3. Len(sock') \in Runs
    BY <1>1, <1>3, <2>1, <2>2, LiveAssumption DEF PageTypes, Runs
  <2>4. DOMAIN sock' = 1..(Len(sock) + 1)
    BY <2>2, LenProperties
  <2>5. ASSUME NEW r \in DOMAIN sock', r # Len(sock') PROVE Gone(sock'[r])
    <3>1. r \in 1..Len(sock)
      BY <1>1, <2>2, <2>4, <2>5
    <3>2. QED
      BY <1>1, <2>1, <2>2, <3>1 DEF OneSocket
  <2>6. QED
    BY <2>1, <2>2, <2>3, <2>5
<1>4. QED
  BY <1>2, <1>3 DEF Effect

\* One socket changes its state: it opens when it was connecting, or closes.
LEMMA SocketMoves ==
    ASSUME PageInv, NEW r \in DOMAIN sock, NEW s \in SockStates, sock' = [sock EXCEPT ![r] = s],
           Gone(s) \/ ~Gone(sock[r])
    PROVE  /\ sock' \in Seq(SockStates) /\ Len(sock') = Len(sock)
           /\ \A q \in DOMAIN sock' : Gone(sock'[q]) \/ (q = wsRef /\ running = "WEBCAM")
<1> USE DEF PageInv
<1>1. r \in 1..Len(sock) /\ DOMAIN sock = 1..Len(sock)
  BY LenProperties DEF PageTypes
<1>2. /\ sock' \in Seq(SockStates) /\ Len(sock') = Len(sock)
      /\ \A q \in 1..Len(sock) : sock'[q] = IF q = r THEN s ELSE sock[q]
  BY <1>1, ExceptSeq DEF PageTypes
<1>3. DOMAIN sock' = 1..Len(sock)
  BY <1>2, LenProperties
<1>4. QED
  BY <1>1, <1>2, <1>3 DEF OneSocket

\* The two parts of the invariant from what a step does to the sockets.
LEMMA PageInvFrom ==
    ASSUME PageInv, sock' \in Seq(SockStates), Len(sock') = Len(sock), inbox' \in [Runs -> Nat],
           UNCHANGED <<source, running>>,
           \A q \in DOMAIN sock' : Gone(sock'[q]) \/ (q = wsRef /\ running = "WEBCAM")
    PROVE  PageInv'
  BY DEF PageInv, PageTypes, OneSocket, wsRef

LEMMA PageNext == PageInv /\ [Next]_vars => PageInv'
<1> SUFFICES ASSUME PageInv, [Next]_vars PROVE PageInv'
  OBVIOUS
<1>0. PageTypes /\ OneSocket /\ Len(sock) \in Nat \ {0} /\ DOMAIN sock = 1..Len(sock)
  BY LenProperties, LiveAssumption DEF PageInv, PageTypes, Runs
<1>1. CASE \E src \in Sources : Select(src)
  <2>1. PICK src \in Sources : Select(src)
    BY <1>1
  <2>2. source' = src /\ UNCHANGED <<running, sock, inbox>> /\ (src = "WEBCAM" => Len(sock) < MaxRuns)
    BY <2>1 DEF Select
  <2>3. PageTypes'
    BY <1>0, <2>2 DEF PageTypes
  <2>4. OneSocket'
    BY <1>0, <2>2 DEF OneSocket, wsRef
  <2>5. QED
    BY <2>3, <2>4 DEF PageInv
<1>2. CASE Effect
  <2>1. running' = source /\ source' = source /\ inbox' = inbox
    BY <1>2 DEF Effect
  <2>2. PageTypes'
    BY <1>0, <1>2, <2>1, SocketsAfterEffect DEF PageTypes
  <2>3. OneSocket'
    BY <1>2, SocketsAfterEffect DEF OneSocket, wsRef
  <2>4. QED
    BY <2>2, <2>3 DEF PageInv
<1>3. ASSUME NEW r \in DOMAIN sock, SocketOpens(r) \/ SocketClosed(r) PROVE PageInv'
  <2> DEFINE s == IF SocketOpens(r) THEN "open" ELSE "closed"
  <2>1. sock' = [sock EXCEPT ![r] = s] /\ UNCHANGED <<source, running, inbox>>
    BY <1>3 DEF SocketOpens, SocketClosed
  <2>2. s \in SockStates /\ (Gone(s) \/ ~Gone(sock[r]))
    BY <1>3 DEF SocketOpens, SockStates, Gone
  <2>3. QED
    BY <1>0, <2>1, <2>2, SocketMoves, PageInvFrom DEF PageTypes
<1>4. CASE Crash
  <2>1. sock' = [r \in 1..Len(sock) |-> IF handler[r] = "none" THEN sock[r] ELSE "closed"]
    BY <1>0, <1>4 DEF Crash
  <2>2. \A r \in 1..Len(sock) : sock[r] \in SockStates
    BY ElementOfSeq, <1>0 DEF PageTypes
  <2>3. sock' \in [1..Len(sock) -> SockStates]
    BY <2>1, <2>2 DEF SockStates
  <2>4. sock' \in Seq(SockStates) /\ Len(sock') = Len(sock)
    BY <1>0, <2>3
  <2>5. \A q \in DOMAIN sock' : Gone(sock'[q]) \/ (q = wsRef /\ running = "WEBCAM")
    BY <1>0, <2>1 DEF OneSocket, Gone
  <2>6. inbox' \in [Runs -> Nat] /\ UNCHANGED <<source, running>>
    BY <1>4 DEF Crash
  <2>7. QED
    BY <2>4, <2>5, <2>6, PageInvFrom
<1>5. ASSUME NEW r \in DOMAIN sock, FrameTick(r) \/ TakeFrame(r) PROVE PageInv'
  <2>1. UNCHANGED <<source, running, sock>>
    BY <1>5 DEF FrameTick, TakeFrame, pageVars
  <2>2. inbox' \in [Runs -> Nat]
    <3>1. CASE FrameTick(r)
      <4>1. wsRef \in Runs /\ inbox[wsRef] \in Nat
        BY <1>0 DEF PageTypes, wsRef
      <4>2. inbox' = [inbox EXCEPT ![wsRef] = inbox[wsRef] + 1]
        BY <3>1 DEF FrameTick
      <4>3. QED
        BY <1>0, <4>1, <4>2 DEF PageTypes
    <3>2. CASE TakeFrame(r)
      <4>1. inbox' = [inbox EXCEPT ![r] = inbox[r] - 1] /\ inbox[r] > 0
        BY <3>2 DEF TakeFrame
      <4>2. r \in Runs /\ inbox[r] \in Nat
        BY <1>0, LiveAssumption DEF PageTypes, Runs
      <4>3. inbox[r] - 1 \in Nat
        BY <4>1, <4>2
      <4>4. QED
        BY <1>0, <4>1, <4>2, <4>3 DEF PageTypes
    <3>3. QED
      BY <1>5, <3>1, <3>2
  <2>3. QED
    BY <1>0, <2>1, <2>2, PageInvFrom DEF PageTypes, OneSocket
<1>6. CASE UNCHANGED <<source, running, sock, inbox>>
  BY <1>0, <1>6, PageInvFrom DEF PageTypes, OneSocket
<1>7. ASSUME NEW r \in DOMAIN sock,
             CameraGranted(r) \/ CameraDenied(r) \/ Accept(r) \/ FrameDone(r) \/ Disconnect(r)
      PROVE  UNCHANGED <<source, running, sock, inbox>>
  BY <1>7 DEF CameraGranted, CameraDenied, Accept, FrameDone, Disconnect, pageVars
<1>8. Tick \/ Emit \/ Restart \/ Label \/ UNCHANGED vars => UNCHANGED <<source, running, sock, inbox>>
  BY DEF Tick, Emit, Restart, Label, Poll, PollArrives, vars, pageVars
<1>9. QED
  BY <1>1, <1>2, <1>3, <1>4, <1>5, <1>6, <1>7, <1>8 DEF Next, Page, Emitter, Serving

LEMMA PageInit == Init => PageInv
<1> SUFFICES ASSUME Init PROVE PageInv
  OBVIOUS
<1>1. sock \in Seq(SockStates) /\ Len(sock) = 1 /\ DOMAIN sock = 1..1 /\ running = "WEBCAM"
  BY DEF Init, SockStates
<1>2. PageTypes
  BY <1>1, LiveAssumption DEF Init, PageTypes, Runs, Sources
<1>3. OneSocket
  BY <1>1 DEF OneSocket, wsRef
<1>4. QED
  BY <1>2, <1>3 DEF PageInv

\* No picture leaves the browser once another source runs, whatever cameras
\* are granted and however late (the effect of DemoControls and its cleanup).
THEOREM NoFramesAfterLeavingHolds == Spec => NoFramesAfterLeaving
<1>1. PageInv /\ [Next]_vars => [\A r \in Runs : inbox'[r] > inbox[r] => running = "WEBCAM"]_vars
  <2> SUFFICES ASSUME PageInv, Next, NEW r \in Runs, inbox'[r] > inbox[r] PROVE running = "WEBCAM"
    BY DEF vars
  <2>0. PageTypes /\ OneSocket /\ Len(sock) \in Nat \ {0} /\ DOMAIN sock = 1..Len(sock)
    BY LenProperties, LiveAssumption DEF PageInv, PageTypes, Runs
  <2>1. ASSUME NEW q \in DOMAIN sock, FrameTick(q) PROVE running = "WEBCAM"
    BY <2>0, <2>1 DEF FrameTick, OneSocket, wsRef, Gone
  <2>2. ASSUME NEW q \in DOMAIN sock, TakeFrame(q) PROVE FALSE
    BY <2>0, <2>2 DEF TakeFrame, PageTypes
  <2>3. ~Crash
    BY <2>0 DEF Crash, PageTypes
  <2>4. inbox' # inbox
    BY <2>0 DEF PageTypes
  <2>5. ASSUME NEW q \in DOMAIN sock
        PROVE  ~(CameraGranted(q) \/ CameraDenied(q) \/ SocketOpens(q) \/ SocketClosed(q) \/ Accept(q)
                 \/ FrameDone(q) \/ Disconnect(q))
    BY <2>4 DEF CameraGranted, CameraDenied, SocketOpens, SocketClosed, Accept, FrameDone, Disconnect
  <2>6. ~(Effect \/ Tick \/ Emit \/ Restart \/ Label \/ \E src \in Sources : Select(src))
    BY <2>4 DEF Effect, Tick, Emit, Restart, Label, Poll, PollArrives, Select
  <2>7. QED
    BY <2>1, <2>2, <2>3, <2>5, <2>6 DEF Next, Page, Emitter, Serving
<1>2. QED
  BY <1>1, PageInit, PageNext, PTL DEF Spec, NoFramesAfterLeaving

-----------------------------------------------------------------------------
(* The emitter. *)

HandlerStates == {"none", "serving", "inferring", "done"}

\* One handler at most is being served, unless the last was contested; while
\* it is, the flag is set, and a synthetic batch is late, or still to be, at
\* most once.
EmitterInv ==
    /\ handler \in [Runs -> HandlerStates]
    /\ sim \in {"idle", "building"} /\ late \in {0, 1, 2}
    /\ ~contested => \A q, r \in Runs : Active(q) /\ Active(r) => q = r
    /\ ~contested => \A r \in Runs : Active(r) => live_mode
    /\ live_mode => late = 0 \/ (late = 1 /\ sim = "idle")

\* A handler moves on, and the others stay.
LEMMA HandlerMoves ==
    ASSUME EmitterInv, NEW r \in Runs, NEW s \in HandlerStates, handler' = [handler EXCEPT ![r] = s]
    PROVE  /\ handler' \in [Runs -> HandlerStates] /\ handler'[r] = s
           /\ \A q \in Runs : q # r => (Active(q)' <=> Active(q))
           /\ Active(r)' <=> s \in {"serving", "inferring"}
  BY DEF EmitterInv, Active

LEMMA EmitterNext == PageInv /\ EmitterInv /\ [Next]_vars => EmitterInv'
<1> SUFFICES ASSUME PageInv, EmitterInv, [Next]_vars PROVE EmitterInv'
  OBVIOUS
<1>0. DOMAIN sock \subseteq Runs
  BY LenProperties, LiveAssumption DEF PageInv, PageTypes, Runs
<1>1. ASSUME NEW r \in DOMAIN sock, Accept(r) PROVE EmitterInv'
  <2>1. /\ handler' = [handler EXCEPT ![r] = "serving"] /\ live_mode' = TRUE /\ late' = 0 /\ sim' = sim
        /\ contested' = \E q \in Runs : Active(q)
    BY <1>1 DEF Accept
  <2>2. /\ handler' \in [Runs -> HandlerStates]
        /\ \A q \in Runs : q # r => (Active(q)' <=> Active(q))
    BY <1>0, <2>1, HandlerMoves DEF HandlerStates
  <2>3. ~contested' => \A q \in Runs : Active(q)' => q = r
    BY <2>1, <2>2
  <2>4. QED
    BY <2>1, <2>2, <2>3 DEF EmitterInv
<1>2. ASSUME NEW r \in DOMAIN sock, TakeFrame(r) \/ FrameDone(r) PROVE EmitterInv'
  <2> DEFINE s == IF TakeFrame(r) THEN "inferring" ELSE "serving"
  <2>1. /\ handler' = [handler EXCEPT ![r] = s] /\ UNCHANGED <<contested, live_mode, sim, late>>
        /\ Active(r)
    BY <1>2 DEF TakeFrame, FrameDone, Active
  <2>2. s \in {"serving", "inferring"} /\ s \in HandlerStates
    BY DEF HandlerStates
  <2>3. /\ handler' \in [Runs -> HandlerStates]
        /\ \A q \in Runs : Active(q)' <=> Active(q)
    BY <1>0, <2>1, <2>2, HandlerMoves
  <2>4. QED
    BY <2>1, <2>3 DEF EmitterInv
<1>3. ASSUME NEW r \in DOMAIN sock, Disconnect(r) PROVE EmitterInv'
  <2>1. /\ handler' = [handler EXCEPT ![r] = "done"] /\ UNCHANGED <<contested, sim, late>>
        /\ live_mode' = FALSE /\ Active(r)
    BY <1>3 DEF Disconnect, Active
  <2>2. /\ handler' \in [Runs -> HandlerStates]
        /\ \A q \in Runs : Active(q)' => Active(q) /\ q # r
    BY <1>0, <2>1, HandlerMoves DEF HandlerStates
  <2>3. ~contested => \A q \in Runs : ~Active(q)'
    BY <1>0, <2>1, <2>2 DEF EmitterInv
  <2>4. QED
    BY <2>1, <2>2, <2>3 DEF EmitterInv
<1>4. CASE Tick \/ Emit
  <2>1. UNCHANGED <<handler, contested, live_mode>> /\ sim' \in {"idle", "building"} /\ late' \in {0, 1, 2}
    BY <1>4 DEF Tick, Emit, EmitterInv
  <2>2. \A q \in Runs : Active(q)' <=> Active(q)
    BY <2>1 DEF Active
  <2>3. live_mode => late' = 0 \/ (late' = 1 /\ sim' = "idle")
    BY <1>4 DEF Tick, Emit, EmitterInv
  <2>4. QED
    BY <2>1, <2>2, <2>3 DEF EmitterInv
<1>5. CASE Crash
  <2>1. /\ handler' = [r \in Runs |-> IF handler[r] = "none" THEN "none" ELSE "done"]
        /\ live_mode' = FALSE /\ sim' = "idle" /\ late' = 0
    BY <1>5 DEF Crash
  <2>2. handler' \in [Runs -> HandlerStates] /\ \A q \in Runs : ~Active(q)'
    BY <2>1 DEF Active, HandlerStates
  <2>3. QED
    BY <2>1, <2>2 DEF EmitterInv
<1>6. CASE UNCHANGED <<handler, contested, live_mode, sim, late>>
  BY <1>6 DEF EmitterInv, Active
<1>7. Page \/ Restart \/ Label \/ UNCHANGED vars => UNCHANGED <<handler, contested, live_mode, sim, late>>
  BY DEF Page, Select, Effect, CameraGranted, CameraDenied, FrameTick, SocketOpens, SocketClosed, Restart,
         Label, Poll, PollArrives, vars, emitterVars
<1>8. QED
  BY <1>1, <1>2, <1>3, <1>4, <1>5, <1>6, <1>7 DEF Next, Emitter, Serving

LEMMA EmitterInit == Init => EmitterInv
  BY DEF Init, EmitterInv, Active, HandlerStates

\* A socket that no other overlaps keeps the synthetic feed paused from its
\* first frame to its last (live_inference_ws and run_forever).
THEOREM UncontestedStaysLiveHolds == Spec => []UncontestedStaysLive
<1>1. PageInv /\ EmitterInv => UncontestedStaysLive
  <2> SUFFICES ASSUME PageInv, EmitterInv, Active(wsRef), ~contested PROVE live_mode /\ late <= 1
    BY DEF UncontestedStaysLive
  <2>1. wsRef \in Runs
    BY DEF PageInv, PageTypes, wsRef
  <2>2. live_mode
    BY <2>1 DEF EmitterInv
  <2>3. late = 0 \/ late = 1
    BY <2>2 DEF EmitterInv
  <2>4. QED
    BY <2>2, <2>3
<1>2. QED
  BY <1>1, PageInit, PageNext, EmitterInit, EmitterNext, PTL DEF Spec

-----------------------------------------------------------------------------
(* The types of both. *)

CamStates == {"asked", "on", "off"}

\* Each run has a camera and a socket.
CamTypes == cam \in Seq(CamStates) /\ Len(cam) = Len(sock)

\* A camera, or a socket, changes its state.
LEMMA OneChanges ==
    ASSUME NEW States, NEW seq \in Seq(States), NEW n \in DOMAIN seq, NEW s \in States
    PROVE  [seq EXCEPT ![n] = s] \in Seq(States) /\ Len([seq EXCEPT ![n] = s]) = Len(seq)
<1>1. n \in 1..Len(seq)
  BY LenProperties
<1>2. QED
  BY <1>1, ExceptSeq

\* A run adds one of each, its cleanup and the other steps change what is there.
LEMMA CamNext == PageInv /\ CamTypes /\ [Next]_vars => CamTypes'
<1> SUFFICES ASSUME PageInv, CamTypes, [Next]_vars PROVE CamTypes'
  OBVIOUS
<1>0. /\ sock \in Seq(SockStates) /\ Len(sock) \in Nat \ {0}
      /\ DOMAIN sock = 1..Len(sock) /\ DOMAIN cam = 1..Len(sock) /\ Len(sock) \in DOMAIN sock
      /\ \A r \in DOMAIN sock : sock[r] \in SockStates
      /\ \A r \in DOMAIN cam : cam[r] \in CamStates
  <2>1. sock \in Seq(SockStates) /\ Len(sock) \in Nat \ {0}
    BY LiveAssumption DEF PageInv, PageTypes, Runs
  <2>2. DOMAIN sock = 1..Len(sock) /\ DOMAIN cam = 1..Len(sock)
    BY <2>1, LenProperties DEF CamTypes
  <2>3. Len(sock) \in DOMAIN sock
    BY <2>1, <2>2
  <2>4. (\A r \in DOMAIN sock : sock[r] \in SockStates) /\ (\A r \in DOMAIN cam : cam[r] \in CamStates)
    BY <2>1, <2>2, ElementOfSeq DEF CamTypes
  <2>5. QED
    BY <2>1, <2>2, <2>3, <2>4
<1>1. CASE Effect /\ source = "CONCOURSE" /\ Cleanup
  <2>1. cam' = [cam EXCEPT ![Len(sock)] = Released(cam[Len(sock)])]
    BY <1>1 DEF Cleanup, Last, CamTypes
  <2>2. sock' = [sock EXCEPT ![Len(sock)] = Closing(sock[Len(sock)])]
    BY <1>1 DEF Cleanup, Last
  <2>3. Released(cam[Len(sock)]) \in CamStates
    BY <1>0 DEF Released, CamStates
  <2>4. Closing(sock[Len(sock)]) \in SockStates
    BY <1>0 DEF Closing, SockStates
  <2>5. cam' \in Seq(CamStates) /\ Len(cam') = Len(cam)
    BY <1>0, <2>1, <2>3, OneChanges DEF CamTypes
  <2>6. Len(sock') = Len(sock)
    BY <1>0, <2>2, <2>4, OneChanges
  <2>7. QED
    BY <2>5, <2>6 DEF CamTypes
<1>2. CASE cam' = Append(cam, "asked") /\ sock' = Append(sock, "connecting")
  <2>1. cam' \in Seq(CamStates) /\ Len(cam') = Len(cam) + 1
    BY <1>2, AppendProperties DEF CamTypes, CamStates
  <2>2. Len(sock') = Len(sock) + 1
    BY <1>0, <1>2, AppendProperties DEF SockStates
  <2>3. QED
    BY <2>1, <2>2 DEF CamTypes
<1>3. ASSUME NEW r \in DOMAIN sock, CameraGranted(r) \/ CameraDenied(r) PROVE CamTypes'
  <2>1. sock' = sock /\ \E s \in CamStates : cam' = [cam EXCEPT ![r] = s]
    BY <1>3 DEF CameraGranted, CameraDenied, CamStates
  <2>2. QED
    BY <1>0, <2>1, OneChanges DEF CamTypes
<1>4. ASSUME NEW r \in DOMAIN sock, SocketOpens(r) \/ SocketClosed(r) PROVE CamTypes'
  <2>1. cam' = cam /\ \E s \in SockStates : sock' = [sock EXCEPT ![r] = s]
    BY <1>4 DEF SocketOpens, SocketClosed, SockStates
  <2>2. QED
    BY <1>0, <2>1, OneChanges DEF CamTypes
<1>5. CASE Crash
  <2>1. cam' = cam /\ sock' = [r \in 1..Len(sock) |-> IF handler[r] = "none" THEN sock[r] ELSE "closed"]
    BY <1>0, <1>5 DEF Crash
  <2>2. sock' \in [1..Len(sock) -> SockStates]
    BY <1>0, <2>1 DEF SockStates
  <2>3. Len(sock') = Len(sock)
    BY <1>0, <2>2
  <2>4. QED
    BY <2>1, <2>3 DEF CamTypes
<1>6. CASE UNCHANGED <<cam, sock>>
  BY <1>6 DEF CamTypes
<1>7. ASSUME NEW r \in DOMAIN sock, FrameTick(r) \/ Accept(r) \/ Serving(r) PROVE UNCHANGED <<cam, sock>>
  BY <1>7 DEF FrameTick, Accept, Serving, TakeFrame, FrameDone, Disconnect, pageVars
<1>8. (\E src \in Sources : Select(src)) \/ Tick \/ Emit \/ Restart \/ Label \/ UNCHANGED vars => UNCHANGED <<cam, sock>>
  BY DEF Select, Tick, Emit, Restart, Label, Poll, PollArrives, vars, pageVars
<1>9. QED
  BY <1>1, <1>2, <1>3, <1>4, <1>5, <1>6, <1>7, <1>8 DEF Next, Page, Emitter, Effect

\* An interval sends no frame too many, flags are flags, and a poll finds the
\* setting or nobody.
Bounds ==
    /\ inbox \in [Runs -> 0..MaxFrames]
    /\ contested \in BOOLEAN /\ live_mode \in BOOLEAN
    /\ emitterUp \in BOOLEAN /\ labelLive \in BOOLEAN
    /\ seam \in Started
    /\ answers \subseteq {"down", Mode}

\* One step per action that touches them.
LEMMA BoundsNext == PageInv /\ Bounds /\ [Next]_vars => Bounds'
<1> SUFFICES ASSUME PageInv, Bounds, [Next]_vars PROVE Bounds'
  OBVIOUS
<1> DEFINE Others == UNCHANGED <<contested, live_mode, emitterUp, seam, labelVars>>
<1>0. DOMAIN sock \subseteq Runs /\ wsRef \in Runs /\ MaxFrames \in Nat
  BY LenProperties, LiveAssumption DEF PageInv, PageTypes, Runs, wsRef
<1>1. ASSUME NEW r \in DOMAIN sock, FrameTick(r) PROVE Bounds'
  <2>1. inbox' = [inbox EXCEPT ![wsRef] = inbox[wsRef] + 1] /\ inbox[wsRef] < MaxFrames /\ Others
    BY <1>1 DEF FrameTick, emitterVars
  <2>2. inbox[wsRef] \in 0..MaxFrames
    BY <1>0 DEF Bounds
  <2>3. inbox[wsRef] + 1 \in 0..MaxFrames
    BY <1>0, <2>1, <2>2
  <2>4. inbox' \in [Runs -> 0..MaxFrames]
    BY <1>0, <2>1, <2>3 DEF Bounds
  <2>5. QED
    BY <2>1, <2>4 DEF Bounds, labelVars
<1>2. ASSUME NEW r \in DOMAIN sock, TakeFrame(r) PROVE Bounds'
  <2>1. inbox' = [inbox EXCEPT ![r] = inbox[r] - 1] /\ inbox[r] > 0 /\ Others
    BY <1>2 DEF TakeFrame
  <2>2. inbox[r] \in 0..MaxFrames
    BY <1>0 DEF Bounds
  <2>3. inbox[r] - 1 \in 0..MaxFrames
    BY <1>0, <2>1, <2>2
  <2>4. inbox' \in [Runs -> 0..MaxFrames]
    BY <1>0, <2>1, <2>3 DEF Bounds
  <2>5. QED
    BY <2>1, <2>4 DEF Bounds, labelVars
<1>3. CASE Crash
  <2>1. /\ inbox' = [r \in Runs |-> 0] /\ contested' = FALSE /\ live_mode' = FALSE /\ emitterUp' = FALSE
        /\ UNCHANGED <<seam, labelVars>>
    BY <1>3 DEF Crash
  <2>2. inbox' \in [Runs -> 0..MaxFrames]
    BY <1>0, <2>1
  <2>3. QED
    BY <2>1, <2>2 DEF Bounds, labelVars
<1>4. ASSUME NEW r \in DOMAIN sock, Accept(r) PROVE Bounds'
  <2>1. /\ contested' = (\E q \in Runs : Active(q)) /\ live_mode' = TRUE
        /\ UNCHANGED <<inbox, emitterUp, seam, labelVars>>
    BY <1>4 DEF Accept
  <2>2. (\E q \in Runs : Active(q)) \in BOOLEAN
    OBVIOUS
  <2>3. contested' \in BOOLEAN
    BY <2>1, <2>2
  <2>4. QED
    BY <2>1, <2>3 DEF Bounds, labelVars
<1>5. ASSUME NEW r \in DOMAIN sock, FrameDone(r) \/ Disconnect(r) PROVE Bounds'
  BY <1>5 DEF FrameDone, Disconnect, Bounds, labelVars
<1>6. CASE Restart
  BY <1>6 DEF Restart, Bounds, labelVars
<1>7. CASE Poll
  BY <1>7 DEF Poll, Health, Bounds, emitterVars
<1>8. ASSUME NEW a, PollArrives(a) PROVE Bounds'
  <2>1. answers' = answers \ {a} /\ labelLive' = (a = "live") /\ UNCHANGED <<inbox, emitterVars>>
    BY <1>8 DEF PollArrives
  <2>2. (a = "live") \in BOOLEAN
    OBVIOUS
  <2>3. labelLive' \in BOOLEAN
    BY <2>1, <2>2
  <2>4. QED
    BY <2>1, <2>3 DEF Bounds, emitterVars
<1>9. CASE UNCHANGED <<inbox, contested, live_mode, emitterUp, seam, labelVars>>
  BY <1>9 DEF Bounds, labelVars
<1>10. ASSUME NEW r \in DOMAIN sock, CameraGranted(r) \/ CameraDenied(r) \/ SocketOpens(r) \/ SocketClosed(r)
       PROVE  UNCHANGED <<inbox, contested, live_mode, emitterUp, seam, labelVars>>
  BY <1>10 DEF CameraGranted, CameraDenied, SocketOpens, SocketClosed, emitterVars
<1>11. (\E src \in Sources : Select(src)) \/ Effect \/ Tick \/ Emit \/ UNCHANGED vars
         => UNCHANGED <<inbox, contested, live_mode, emitterUp, seam, labelVars>>
  BY DEF Select, Effect, Tick, Emit, vars, emitterVars
<1>12. QED
  BY <1>1, <1>2, <1>3, <1>4, <1>5, <1>6, <1>7, <1>8, <1>9, <1>10, <1>11 DEF Next, Page, Emitter, Serving, Label

\* The terminal's cameras and sockets, the emitter's handlers and the label keep
\* their types; every run has one camera and one socket (the effect of
\* DemoControls, live_inference_ws, TelemetrySource).
THEOREM LiveTypesHold == Spec => []TypeOK
<1>1. Init => CamTypes /\ Bounds
  <2> SUFFICES ASSUME Init PROVE CamTypes /\ Bounds
    OBVIOUS
  <2>1. cam = <<"asked">> /\ sock = <<"connecting">>
    BY DEF Init
  <2>2. CamTypes
    BY <2>1 DEF CamTypes, CamStates
  <2>3. inbox \in [Runs -> 0..MaxFrames]
    BY LiveAssumption DEF Init
  <2>4. QED
    BY <2>2, <2>3 DEF Init, Bounds
<1>2. PageInv /\ EmitterInv /\ CamTypes /\ Bounds => TypeOK
  <2> SUFFICES ASSUME PageInv, EmitterInv, CamTypes, Bounds PROVE TypeOK
    OBVIOUS
  <2>1. {contested, live_mode, emitterUp, labelLive} \subseteq BOOLEAN /\ answers \subseteq {"down", Mode} /\ seam \in Started
    BY DEF Bounds
  <2>2. late \in 0..2
    BY DEF EmitterInv
  <2>3. QED
    BY <2>1, <2>2 DEF PageInv, PageTypes, EmitterInv, CamTypes, Bounds, TypeOK, SockStates, CamStates, HandlerStates
<1>3. QED
  BY <1>1, <1>2, PageInit, PageNext, EmitterInit, EmitterNext, CamNext, BoundsNext, PTL DEF Spec
=============================================================================
