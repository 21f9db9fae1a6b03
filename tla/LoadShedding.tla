---------------------------- MODULE LoadShedding ----------------------------
(***************************************************************************)
(* What the zone agents promise about load shedding, without agents,       *)
(* channels, telemetry or timers. An overflow that a zone raises is put to *)
(* one neighbour. The neighbour may pledge to absorb it or refuse, once    *)
(* and for good, and may do so too late to matter. The zone settles the    *)
(* overflow once: it reroutes people only on a pledge to absorb them, and  *)
(* it may escalate whenever it loses patience. As long as the server runs  *)
(* every overflow is settled.                                              *)
(***************************************************************************)
CONSTANT Overflows  \* identities of the overflows that may be raised

VARIABLES
    shed,    \* per overflow: "none", "open", "rerouted" or "escalated"
    pledge,  \* per overflow: "none", "absorb" or "refuse"
    running  \* the server has not exited

vars == <<shed, pledge, running>>

Init ==
    /\ shed = [i \in Overflows |-> "none"]
    /\ pledge = [i \in Overflows |-> "none"]
    /\ running = TRUE

Raise(i) ==
    /\ running
    /\ shed[i] = "none"
    /\ shed' = [shed EXCEPT ![i] = "open"]
    /\ UNCHANGED <<pledge, running>>

Pledge(i) ==
    /\ running
    /\ shed[i] # "none"
    /\ pledge[i] = "none"
    /\ \E p \in {"absorb", "refuse"} : pledge' = [pledge EXCEPT ![i] = p]
    /\ UNCHANGED <<shed, running>>

Reroute(i) ==
    /\ running
    /\ shed[i] = "open"
    /\ pledge[i] = "absorb"
    /\ shed' = [shed EXCEPT ![i] = "rerouted"]
    /\ UNCHANGED <<pledge, running>>

Escalate(i) ==
    /\ running
    /\ shed[i] = "open"
    /\ shed' = [shed EXCEPT ![i] = "escalated"]
    /\ UNCHANGED <<pledge, running>>

Halt ==
    /\ running
    /\ running' = FALSE
    /\ UNCHANGED <<shed, pledge>>

Settle(i) == Reroute(i) \/ Escalate(i)

Next ==
    \/ \E i \in Overflows : Raise(i) \/ Pledge(i) \/ Settle(i)
    \/ Halt

Spec == Init /\ [][Next]_vars

FairSpec == Spec /\ \A i \in Overflows : WF_vars(Settle(i))
=============================================================================
