---------------------------- MODULE LiveInference ----------------------------
(***************************************************************************)
(* The webcam of the terminal's demo controls (components/                 *)
(* DemoControls.tsx), the socket it feeds (ai-telemetry app/main.py), the  *)
(* flag by which that socket pauses the synthetic feed (app/services/      *)
(* simulator.py), and the telemetry label of the top bar (TopBar.tsx).     *)
(*                                                                         *)
(* Each time WEBCAM is selected an effect runs that opens a socket and     *)
(* asks for the camera; its cleanup runs when another source is selected.  *)
(* What a run started is kept by its number. wsRef.current is the socket   *)
(* of the last run, also for the intervals of earlier ones.                *)
(***************************************************************************)
EXTENDS Integers, Sequences

CONSTANTS
    Mode,       \* the emitter's setting AI_MODE, "live" or "simulated"
    MaxRuns,    \* bound: times WEBCAM is selected
    MaxFrames   \* bound: frames on their way to a handler

ASSUME LiveAssumption ==
    Mode \in {"live", "simulated"} /\ MaxRuns \in Nat \ {0} /\ MaxFrames \in Nat \ {0}

VARIABLES
    source,     \* the source on the screen
    running,    \* the source whose effect has run
    cam,        \* per run: its camera, asked for, on or off
    sock,       \* per run: its socket
    inbox,      \* per run: frames sent and not yet taken
    handler,    \* per run: the emitter's coroutine for the socket
    contested,  \* history: another handler was there when the last was accepted
    live_mode,  \* the flag
    sim,        \* the synthetic feed: between ticks or at work on a batch
    late,       \* history: synthetic batches since the flag was set
    emitterUp,
    seam,       \* what its estimator makes of the synthetic feed's frames
    answers,    \* what polls of /healthz have found and not yet reported
    labelLive   \* the label says HF live inference

pageVars == <<source, running, cam, sock>>
emitterVars == <<handler, contested, live_mode, sim, late, emitterUp, seam>>
labelVars == <<answers, labelLive>>
vars == <<pageVars, inbox, emitterVars, labelVars>>

Sources == {"WEBCAM", "CONCOURSE"}  \* STADIUM is like CONCOURSE
Runs == 1..MaxRuns
wsRef == Len(sock)
Active(r) == handler[r] \in {"serving", "inferring"}
Gone(s) == s \in {"closing", "closed"}

\* DensityEstimator's constructor: where live inference is asked for, no model
\* may load, or no frames be found, and the estimates are simulated after all.
\* A webcam frame tries again to load one, for webcam frames only.
Started == IF Mode = "live" THEN {"live", "simulated"} ELSE {"simulated"}

\* The first effect has run with the mount.
Init ==
    /\ source = "WEBCAM" /\ running = "WEBCAM"
    /\ cam = <<"asked">>
    /\ sock = <<"connecting">>
    /\ inbox = [r \in Runs |-> 0]
    /\ handler = [r \in Runs |-> "none"]
    /\ contested = FALSE
    /\ live_mode = FALSE
    /\ sim = "idle" /\ late = 0
    /\ emitterUp = TRUE /\ seam \in Started
    /\ answers = {} /\ labelLive = FALSE

-----------------------------------------------------------------------------
(* The page. *)

\* A click on a source. Effects of the last selection have run by then.
Select(src) ==
    /\ source = running
    /\ src # source
    /\ src = "WEBCAM" => Len(sock) < MaxRuns
    /\ source' = src
    /\ UNCHANGED <<running, cam, sock, inbox, emitterVars, labelVars>>

Released(c) == IF c = "on" THEN "off" ELSE c
Closing(s) == IF s = "closed" THEN s ELSE "closing"
Last(seq, Change(_)) == [seq EXCEPT ![Len(seq)] = Change(@)]

\* The cleanup of WEBCAM: the interval, the camera and the socket, as far as
\* they are there; a camera that is still being asked for is not.
\* Mutant: the socket is forgotten.
Cleanup_KeepsSocket == cam' = Last(cam, Released) /\ sock' = sock
Cleanup == cam' = Last(cam, Released) /\ sock' = Last(sock, Closing)

\* Mutant of Effect: the socket of the last run is used again.
Effect_SameSocket ==
    /\ source # running
    /\ running' = source
    /\ \/ source = "CONCOURSE" /\ Cleanup
       \/ source = "WEBCAM" /\ cam' = Append(cam, "asked") /\ sock' = sock
    /\ UNCHANGED <<source, inbox, emitterVars, labelVars>>
Effect ==
    /\ source # running
    /\ running' = source
    /\ \/ source = "CONCOURSE" /\ Cleanup
       \/ /\ source = "WEBCAM"
          /\ cam' = Append(cam, "asked")
          /\ sock' = Append(sock, "connecting")
    /\ UNCHANGED <<source, inbox, emitterVars, labelVars>>

\* getUserMedia answers: the camera is on and its interval starts, no matter
\* that the user may have gone on to another source.
CameraGranted(r) ==
    /\ cam[r] = "asked"
    /\ cam' = [cam EXCEPT ![r] = "on"]
    /\ UNCHANGED <<source, running, sock, inbox, emitterVars, labelVars>>

CameraDenied(r) ==
    /\ cam[r] = "asked"
    /\ cam' = [cam EXCEPT ![r] = "off"]
    /\ UNCHANGED <<source, running, sock, inbox, emitterVars, labelVars>>

\* Ten times a second an interval sends a frame, however many the emitter has
\* yet to look at.
FrameTick(r) ==
    /\ cam[r] = "on"
    /\ sock[wsRef] = "open"
    /\ inbox[wsRef] < MaxFrames
    /\ inbox' = [inbox EXCEPT ![wsRef] = @ + 1]
    /\ UNCHANGED <<pageVars, emitterVars, labelVars>>

SocketOpens(r) ==
    /\ sock[r] = "connecting"
    /\ Active(r)
    /\ sock' = [sock EXCEPT ![r] = "open"]
    /\ UNCHANGED <<source, running, cam, inbox, emitterVars, labelVars>>

\* The closing handshake ends, or the connection breaks. Nobody reconnects.
SocketClosed(r) ==
    /\ sock[r] # "closed"
    /\ sock' = [sock EXCEPT ![r] = "closed"]
    /\ UNCHANGED <<source, running, cam, inbox, emitterVars, labelVars>>

-----------------------------------------------------------------------------
(* live_inference_ws. *)

Accept(r) ==
    /\ emitterUp
    /\ handler[r] = "none"
    /\ sock[r] \in {"connecting", "closing"}
    /\ handler' = [handler EXCEPT ![r] = "serving"]
    /\ contested' = \E q \in Runs : Active(q)
    /\ live_mode' = TRUE
    /\ late' = 0
    /\ UNCHANGED <<pageVars, inbox, sim, emitterUp, seam, labelVars>>

TakeFrame(r) ==
    /\ handler[r] = "serving"
    /\ inbox[r] > 0
    /\ handler' = [handler EXCEPT ![r] = "inferring"]
    /\ inbox' = [inbox EXCEPT ![r] = @ - 1]
    /\ UNCHANGED <<pageVars, contested, live_mode, sim, late, emitterUp, seam, labelVars>>

\* The batch has been posted, or whatever went wrong has been logged.
\* Mutant: what is undone when the socket ends is undone here.
FrameDone_Resumes(r) ==
    /\ handler[r] = "inferring"
    /\ handler' = [handler EXCEPT ![r] = "serving"]
    /\ live_mode' = FALSE
    /\ UNCHANGED <<pageVars, inbox, contested, sim, late, emitterUp, seam, labelVars>>
FrameDone(r) ==
    /\ handler[r] = "inferring"
    /\ handler' = [handler EXCEPT ![r] = "serving"]
    /\ UNCHANGED <<pageVars, inbox, contested, live_mode, sim, late, emitterUp, seam, labelVars>>

\* The end of the socket is noticed when all its frames have been taken. The
\* flag is reset whoever else is being served.
\* Mutant: it is not reset.
Disconnect_StaysLive(r) ==
    /\ handler[r] = "serving" /\ inbox[r] = 0 /\ Gone(sock[r])
    /\ handler' = [handler EXCEPT ![r] = "done"]
    /\ UNCHANGED <<pageVars, inbox, contested, live_mode, sim, late, emitterUp, seam, labelVars>>
Disconnect(r) ==
    /\ handler[r] = "serving" /\ inbox[r] = 0 /\ Gone(sock[r])
    /\ handler' = [handler EXCEPT ![r] = "done"]
    /\ live_mode' = FALSE
    /\ UNCHANGED <<pageVars, inbox, contested, sim, late, emitterUp, seam, labelVars>>

-----------------------------------------------------------------------------
(* run_forever, and the process it runs in. *)

\* The flag is looked at once a tick.
Tick ==
    /\ emitterUp /\ sim = "idle" /\ ~live_mode
    /\ sim' = "building"
    /\ UNCHANGED <<pageVars, inbox, handler, contested, live_mode, late, emitterUp, seam, labelVars>>

Emit ==
    /\ sim = "building"
    /\ sim' = "idle"
    /\ late' = IF live_mode /\ late < 2 THEN late + 1 ELSE late
    /\ UNCHANGED <<pageVars, inbox, handler, contested, live_mode, emitterUp, seam, labelVars>>

Crash ==
    /\ emitterUp
    /\ emitterUp' = FALSE
    /\ sock' = [r \in DOMAIN sock |-> IF handler[r] = "none" THEN sock[r] ELSE "closed"]
    /\ handler' = [r \in Runs |-> IF handler[r] = "none" THEN "none" ELSE "done"]
    /\ inbox' = [r \in Runs |-> 0]
    /\ live_mode' = FALSE
    /\ sim' = "idle" /\ late' = 0 /\ contested' = FALSE
    /\ UNCHANGED <<source, running, cam, seam, labelVars>>

Restart ==
    /\ ~emitterUp
    /\ emitterUp' = TRUE
    /\ seam' \in Started
    /\ UNCHANGED <<pageVars, inbox, handler, contested, live_mode, sim, late, labelVars>>

-----------------------------------------------------------------------------
(* TelemetrySource. *)

\* healthz answers with the setting.
Health == IF emitterUp THEN Mode ELSE "down"

\* Every thirty seconds, whether or not earlier polls have come back.
Poll ==
    /\ answers' = answers \cup {Health}
    /\ UNCHANGED <<pageVars, inbox, emitterVars, labelLive>>

\* Mutant: a failed poll leaves the label as it is.
PollArrives_KeepsLast(a) ==
    /\ a \in answers
    /\ answers' = answers \ {a}
    /\ labelLive' = (a = "live" \/ (a = "down" /\ labelLive))
    /\ UNCHANGED <<pageVars, inbox, emitterVars>>
PollArrives(a) ==
    /\ a \in answers
    /\ answers' = answers \ {a}
    /\ labelLive' = (a = "live")
    /\ UNCHANGED <<pageVars, inbox, emitterVars>>

-----------------------------------------------------------------------------

Page ==
    \/ \E src \in Sources : Select(src)
    \/ Effect
    \/ \E r \in DOMAIN sock : \/ CameraGranted(r) \/ CameraDenied(r) \/ FrameTick(r)
                              \/ SocketOpens(r) \/ SocketClosed(r)
Serving(r) == TakeFrame(r) \/ FrameDone(r) \/ Disconnect(r)
Emitter == (\E r \in DOMAIN sock : Accept(r) \/ Serving(r)) \/ Tick \/ Emit \/ Crash \/ Restart
Label == Poll \/ \E a \in {"down", Mode} : PollArrives(a)

Next == Page \/ Emitter \/ Label

Spec == Init /\ [][Next]_vars

\* The browser runs effects and ends closing handshakes, the emitter's
\* coroutines run while it is up, polls are sent and answered. Cameras, users
\* and crashes are not forced.
FairSpec ==
    /\ Spec
    /\ WF_vars(Effect)
    /\ \A r \in Runs :
          /\ WF_vars(r \in DOMAIN sock /\ Serving(r))
          /\ WF_vars(r \in DOMAIN sock /\ sock[r] = "closing" /\ SocketClosed(r))
    /\ WF_vars(Tick) /\ WF_vars(Emit)
    /\ WF_vars(Poll) /\ \A a \in {"down", Mode} : WF_vars(PollArrives(a))

-----------------------------------------------------------------------------
(* Properties. *)

TypeOK ==
    /\ {source, running} \subseteq Sources
    /\ cam \in Seq({"asked", "on", "off"})
    /\ sock \in Seq({"connecting", "open", "closing", "closed"})
    /\ Len(cam) = Len(sock) /\ Len(sock) \in Runs
    /\ inbox \in [Runs -> 0..MaxFrames]
    /\ handler \in [Runs -> {"none", "serving", "inferring", "done"}]
    /\ {contested, live_mode, emitterUp, labelLive} \subseteq BOOLEAN
    /\ sim \in {"idle", "building"} /\ late \in 0..2
    /\ seam \in Started
    /\ answers \subseteq {"down", Mode}

\* No picture leaves the browser once another source runs, even from a camera
\* that was granted too late and keeps its interval for ever: there is no open
\* socket to send it on.
NoFramesAfterLeaving ==
    [][\A r \in Runs : inbox'[r] > inbox[r] => running = "WEBCAM"]_vars

\* A socket that no other handler overlaps keeps the synthetic feed paused from
\* its first frame to its last, also over frames that fail. At most one
\* synthetic batch is still to come then: the one whose tick had begun.
UncontestedStaysLive == Active(wsRef) /\ ~contested => live_mode /\ late <= 1

\* When the operator has left WEBCAM for good, the synthetic feed runs again:
\* a pause ends with the sockets that caused it, even with frames still queued.
FeedResumes ==
    <>[](running # "WEBCAM") => []<>(sim = "building" \/ ~emitterUp)

\* The label ends up saying what the emitter reports, although polls overlap
\* and may be answered late: an emitter that is gone is not called live, and one
\* that is back is again what its setting says. (Not what its estimator does.)
LabelCatchesUp ==
    \A up \in BOOLEAN : <>[](emitterUp = up) => <>[](labelLive = (up /\ Mode = "live"))

\* What the comment on TelemetrySource says: live inference is claimed "when the
\* vision seam runs live", and "otherwise the honest fallback". An emitter that
\* stays up and simulates, with no webcam at work, is not called live for good.
LabelIsTruthful ==
    <>[](emitterUp /\ seam = "simulated" /\ \A r \in Runs : ~Active(r)) => <>[]~labelLive
=============================================================================
