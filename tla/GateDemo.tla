------------------------------ MODULE GateDemo ------------------------------
(***************************************************************************)
(* The standalone engine of backend/main.go: two gates, each a goroutine,  *)
(* that negotiate over two unbuffered request channels and, per request,   *)
(* an unbuffered response channel. A send on such a channel happens        *)
(* together with the receive, so each exchange is one step of both gates.  *)
(***************************************************************************)
EXTENDS Integers

CONSTANTS
    North, South,  \* the two gates
    Capacity,      \* maxCapacity of each gate (100 and 150)
    Amount,        \* people in a reroute request (50)
    Drifts,        \* the differences rand.Intn(10) - rand.Intn(5) may have
    MaxLoad        \* bound: no gate drifts above this load

Gates == {North, South}
Peer(g) == IF g = North THEN South ELSE North

ASSUME GatesAssumption == North # South
ASSUME SizesAssumption ==
    /\ Capacity \in [Gates -> Nat]
    /\ Amount \in Nat
    /\ Drifts \subseteq Int
    /\ MaxLoad \in Nat

VARIABLES
    load,     \* currentLoad of each gate
    pending,  \* the gate has a request out and no verdict yet
    pc,       \* where the gate stands in its loop
    verdict   \* what a gate that is about to respond will say

vars == <<load, pending, pc, verdict>>

\* 85% of the capacity, rounded down.
Threshold(g) == (Capacity[g] * 85) \div 100

\* max(0, currentLoad).
Clamped(n) == IF n < 0 THEN 0 ELSE n

Init ==
    /\ load \in [Gates -> 0..MaxLoad]
    /\ \A g \in Gates : /\ load[g] >= Capacity[g] \div 4
                        /\ load[g] < Capacity[g] \div 4 + Capacity[g] \div 2
    /\ pending = [g \in Gates |-> FALSE]
    /\ pc = [g \in Gates |-> "drift"]
    /\ verdict = [g \in Gates |-> FALSE]

\* The top of the loop: telemetry arrives and the load changes.
Drift(g) ==
    /\ pc[g] = "drift"
    /\ \E d \in Drifts :
          /\ Clamped(load[g] + d) <= MaxLoad
          /\ load' = [load EXCEPT ![g] = Clamped(load[g] + d)]
    /\ pc' = [pc EXCEPT ![g] = "check"]
    /\ UNCHANGED <<pending, verdict>>

\* The threshold trigger fires unless a negotiation is outstanding.
Trips(g) == ~pending[g] /\ load[g] > Threshold(g)

Skip(g) ==
    /\ pc[g] = "check"
    /\ ~Trips(g)
    /\ pc' = [pc EXCEPT ![g] = "select"]
    /\ UNCHANGED <<load, pending, verdict>>

\* The request is sent to a peer that is in its select: the peer leaves it
\* with the request and this gate enters its own.
\* Mutant: the send blocks, with the gate outside its select.
Ask_Blocking(g) ==
    \/ /\ pc[g] = "check"
       /\ Trips(g)
       /\ pc' = [pc EXCEPT ![g] = "sending"]
       /\ UNCHANGED <<load, pending, verdict>>
    \/ /\ pc[g] = "sending"
       /\ pc[Peer(g)] = "select"
       /\ pending' = [pending EXCEPT ![g] = TRUE]
       /\ pc' = [pc EXCEPT ![g] = "select", ![Peer(g)] = "serve"]
       /\ UNCHANGED <<load, verdict>>
Ask(g) ==
    /\ pc[g] = "check"
    /\ Trips(g)
    /\ pc[Peer(g)] = "select"
    /\ pending' = [pending EXCEPT ![g] = TRUE]
    /\ pc' = [pc EXCEPT ![g] = "select", ![Peer(g)] = "serve"]
    /\ UNCHANGED <<load, verdict>>

\* The default case: nobody receives, the gate escalates to its operators.
EscalateBusy(g) ==
    /\ pc[g] = "check"
    /\ Trips(g)
    /\ pc[Peer(g)] # "select"
    /\ pc' = [pc EXCEPT ![g] = "select"]
    /\ UNCHANGED <<load, pending, verdict>>

\* An inbound request: people are taken in at once if they fit, and the
\* response is then offered to the peer.
\* Mutant: they are counted when the response has been taken.
Serve_CountLater(g) ==
    /\ pc[g] = "serve"
    /\ verdict' = [verdict EXCEPT ![g] = load[g] + Amount < Capacity[g]]
    /\ pc' = [pc EXCEPT ![g] = "respond"]
    /\ UNCHANGED <<load, pending>>
Serve(g) ==
    /\ pc[g] = "serve"
    /\ LET fits == load[g] + Amount < Capacity[g]
       IN  /\ load' = [load EXCEPT ![g] = IF fits THEN @ + Amount ELSE @]
           /\ verdict' = [verdict EXCEPT ![g] = fits]
    /\ pc' = [pc EXCEPT ![g] = "respond"]
    /\ UNCHANGED pending

\* The response is handed over to the peer's select, which accounts for the
\* people that left and forgets the negotiation; both gates loop.
\* Mutant: the negotiation is not forgotten.
Respond_KeepPending(g) ==
    /\ pc[g] = "respond"
    /\ pc[Peer(g)] = "select"
    /\ pending[Peer(g)]
    /\ load' = [load EXCEPT ![Peer(g)] = IF verdict[g] THEN @ - Amount ELSE @]
    /\ verdict' = [verdict EXCEPT ![g] = FALSE]
    /\ pc' = [p \in Gates |-> "drift"]
    /\ UNCHANGED pending
Respond(g) ==
    /\ pc[g] = "respond"
    /\ pc[Peer(g)] = "select"
    /\ pending[Peer(g)]
    /\ load' = [load EXCEPT ![Peer(g)] = IF verdict[g] THEN @ - Amount ELSE @]
    /\ verdict' = [verdict EXCEPT ![g] = FALSE]
    /\ pending' = [pending EXCEPT ![Peer(g)] = FALSE]
    /\ pc' = [p \in Gates |-> "drift"]

\* Nothing came for two seconds. A response that is just being computed may
\* miss this round of the select.
Tick(g) ==
    /\ pc[g] = "select"
    /\ pc' = [pc EXCEPT ![g] = "drift"]
    /\ UNCHANGED <<load, pending, verdict>>

Run(g) == Drift(g) \/ Skip(g) \/ Ask(g) \/ EscalateBusy(g) \/ Serve(g) \/ Tick(g)

Next == \E g \in Gates : Run(g) \/ Respond(g)

Spec == Init /\ [][Next]_vars

\* Goroutines run when they can. A gate that is blocked sending its response
\* is served as soon as the peer enters its select, where that case is ready
\* and the timer is not, so a response is not passed over for ever.
FairSpec ==
    /\ Spec
    /\ \A g \in Gates : WF_vars(Run(g)) /\ SF_vars(Respond(g))

-----------------------------------------------------------------------------
(* Properties. *)

\* Loads are numbers and each gate is at one place of its loop.
TypeOK ==
    /\ load \in [Gates -> Int]
    /\ pending \in [Gates -> BOOLEAN]
    /\ pc \in [Gates -> {"drift", "check", "select", "serve", "respond"}]
    /\ verdict \in [Gates -> BOOLEAN]

\* A gate whose request is outstanding still serves its own loop while its
\* peer is busy with that request and with nothing else.
OutstandingIsServed ==
    \A g \in Gates :
        /\ pending[g] <=> pc[Peer(g)] \in {"serve", "respond"}
        /\ pending[g] => pc[g] \in {"drift", "check", "select"}

\* At any time some gate is not waiting in a send: two gates that trip
\* simultaneously never deadlock on each other's channels (the comment on
\* pending).
NeverBothBlocked == \E g \in Gates : pc[g] \in {"drift", "check", "select", "serve"}

\* People taken in by one gate whose departure the other has not yet seen.
Underway(g) == IF pc[g] = "respond" /\ verdict[g] THEN Amount ELSE 0
People == load[North] + load[South] - Underway(North) - Underway(South)

\* Negotiation moves people and neither makes nor loses any: only telemetry
\* changes how many there are at the two gates.
NegotiationConservesPeople ==
    [][(\A g \in Gates : ~(pc[g] = "drift" /\ pc'[g] = "check")) => People' = People]_vars

\* Every negotiation is concluded.
EveryRequestConcluded == \A g \in Gates : pending[g] ~> ~pending[g]
=============================================================================
