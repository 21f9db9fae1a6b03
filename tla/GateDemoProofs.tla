--------------------------- MODULE GateDemoProofs ---------------------------
(* Proofs about GateDemo: the two gates never block each other, and their
   negotiation conserves people, for gates of any capacity, any amount and
   any drift. *)
EXTENDS GateDemo, TLAPS

\* The peer of a gate is the other gate.
LEMMA PeerFacts ==
    \A g \in Gates : Peer(g) \in Gates /\ Peer(g) # g /\ Peer(Peer(g)) = g
                     /\ \A h \in Gates : h = g \/ h = Peer(g)
BY GatesAssumption DEF Gates, Peer

\* TypeOK holds at the start and every step of every gate preserves it.
THEOREM TypeCorrect == Spec => []TypeOK
<1>1. Init => TypeOK
  BY DEF Init, TypeOK
<1>2. TypeOK /\ [Next]_vars => TypeOK'
  <2> SUFFICES ASSUME TypeOK, [Next]_vars PROVE TypeOK'
    OBVIOUS
  <2> USE PeerFacts, SizesAssumption DEF TypeOK
  <2>1. ASSUME NEW g \in Gates, Drift(g) PROVE TypeOK'
    <3>1. PICK d \in Drifts : load' = [load EXCEPT ![g] = Clamped(load[g] + d)]
      BY <2>1 DEF Drift
    <3>2. Clamped(load[g] + d) \in Int
      BY DEF Clamped
    <3> QED
      BY <2>1, <3>1, <3>2 DEF Drift
  <2>2. ASSUME NEW g \in Gates, Skip(g) PROVE TypeOK'
    BY <2>2 DEF Skip
  <2>3. ASSUME NEW g \in Gates, Ask(g) PROVE TypeOK'
    BY <2>3 DEF Ask
  <2>4. ASSUME NEW g \in Gates, EscalateBusy(g) PROVE TypeOK'
    BY <2>4 DEF EscalateBusy
  <2>5. ASSUME NEW g \in Gates, Serve(g) PROVE TypeOK'
    BY <2>5 DEF Serve
  <2>6. ASSUME NEW g \in Gates, Tick(g) PROVE TypeOK'
    BY <2>6 DEF Tick
  <2>7. ASSUME NEW g \in Gates, Respond(g) PROVE TypeOK'
    BY <2>7 DEF Respond
  <2>8. CASE UNCHANGED vars
    BY <2>8 DEF vars
  <2> QED
    BY <2>1, <2>2, <2>3, <2>4, <2>5, <2>6, <2>7, <2>8 DEF Next, Run
<1> QED
  BY <1>1, <1>2, PTL DEF Spec

\* OutstandingIsServed is inductive: a request goes out only to a peer that
\* is in its select, and that peer does nothing else until it has responded.
THEOREM RequestsAreServed == Spec => []OutstandingIsServed
<1>1. Init => OutstandingIsServed
  BY PeerFacts DEF Init, OutstandingIsServed
<1>2. TypeOK /\ OutstandingIsServed /\ [Next]_vars => OutstandingIsServed'
  <2> SUFFICES ASSUME TypeOK, OutstandingIsServed, [Next]_vars
               PROVE OutstandingIsServed'
    OBVIOUS
  <2> USE PeerFacts DEF TypeOK, OutstandingIsServed
  <2>1. ASSUME NEW g \in Gates, Drift(g) PROVE OutstandingIsServed'
    BY <2>1 DEF Drift
  <2>2. ASSUME NEW g \in Gates, Skip(g) PROVE OutstandingIsServed'
    BY <2>2 DEF Skip
  <2>3. ASSUME NEW g \in Gates, Ask(g) PROVE OutstandingIsServed'
    BY <2>3 DEF Ask, Trips
  <2>4. ASSUME NEW g \in Gates, EscalateBusy(g) PROVE OutstandingIsServed'
    BY <2>4 DEF EscalateBusy
  <2>5. ASSUME NEW g \in Gates, Serve(g) PROVE OutstandingIsServed'
    BY <2>5 DEF Serve
  <2>6. ASSUME NEW g \in Gates, Tick(g) PROVE OutstandingIsServed'
    BY <2>6 DEF Tick
  <2>7. ASSUME NEW g \in Gates, Respond(g) PROVE OutstandingIsServed'
    BY <2>7 DEF Respond
  <2>8. CASE UNCHANGED vars
    BY <2>8 DEF vars
  <2> QED
    BY <2>1, <2>2, <2>3, <2>4, <2>5, <2>6, <2>7, <2>8 DEF Next, Run
<1> QED
  BY <1>1, <1>2, TypeCorrect, PTL DEF Spec

\* A gate in its blocking response has a peer whose request is outstanding,
\* and such a peer is in its own loop.
THEOREM NoMutualBlocking == Spec => []NeverBothBlocked
<1>1. TypeOK /\ OutstandingIsServed => NeverBothBlocked
  BY PeerFacts DEF TypeOK, OutstandingIsServed, NeverBothBlocked, Gates
<1> QED
  BY <1>1, TypeCorrect, RequestsAreServed, PTL

\* Serving a request adds to the load what is then underway, and responding
\* takes it off the load of the gate that asked.
THEOREM PeopleConserved == Spec => NegotiationConservesPeople
<1> DEFINE Drifting == \E g \in Gates : pc[g] = "drift" /\ pc'[g] = "check"
<1>1. TypeOK /\ OutstandingIsServed /\ [Next]_vars /\ ~Drifting => People' = People
  <2> SUFFICES ASSUME TypeOK, OutstandingIsServed, [Next]_vars, ~Drifting
               PROVE People' = People
    OBVIOUS
  <2> USE PeerFacts, GatesAssumption, SizesAssumption DEF TypeOK, People, Underway, Gates, Peer
  <2>1. ASSUME NEW g \in Gates, Drift(g) PROVE FALSE
    BY <2>1 DEF Drift
  <2>2. ASSUME NEW g \in Gates, Skip(g) PROVE People' = People
    BY <2>2 DEF Skip
  <2>3. ASSUME NEW g \in Gates, Ask(g) PROVE People' = People
    BY <2>3 DEF Ask
  <2>4. ASSUME NEW g \in Gates, EscalateBusy(g) PROVE People' = People
    BY <2>4 DEF EscalateBusy
  <2>5. ASSUME NEW g \in Gates, Serve(g) PROVE People' = People
    <3>1. pc[g] = "serve" /\ pc' = [pc EXCEPT ![g] = "respond"]
      BY <2>5 DEF Serve
    <3>2. CASE load[g] + Amount < Capacity[g]
      <4>1. verdict'[g] /\ \A h \in Gates \ {g} : verdict'[h] = verdict[h]
        BY <2>5, <3>2, Zenon DEF Serve
      <4>2. load' = [load EXCEPT ![g] = @ + Amount]
        BY <2>5, <3>2 DEF Serve
      <4> QED
        BY <3>1, <4>1, <4>2
    <3>3. CASE ~(load[g] + Amount < Capacity[g])
      <4>1. ~verdict'[g] /\ \A h \in Gates \ {g} : verdict'[h] = verdict[h]
        BY <2>5, <3>3, Zenon DEF Serve
      <4>2. load' = load
        BY <2>5, <3>3 DEF Serve
      <4> QED
        BY <3>1, <4>1, <4>2
    <3> QED
      BY <3>2, <3>3
  <2>6. ASSUME NEW g \in Gates, Tick(g) PROVE People' = People
    BY <2>6 DEF Tick
  <2>7. ASSUME NEW g \in Gates, Respond(g) PROVE People' = People
    <3>1. CASE g = North
      BY <2>7, <3>1 DEF Respond
    <3>2. CASE g = South
      BY <2>7, <3>2 DEF Respond
    <3> QED
      BY <3>1, <3>2
  <2>8. CASE UNCHANGED vars
    BY <2>8 DEF vars
  <2> QED
    BY <2>1, <2>2, <2>3, <2>4, <2>5, <2>6, <2>7, <2>8 DEF Next, Run
<1>2. TypeOK /\ OutstandingIsServed /\ [Next]_vars
        => [(\A g \in Gates : ~(pc[g] = "drift" /\ pc'[g] = "check")) => People' = People]_vars
  BY <1>1
<1> QED
  BY <1>2, TypeCorrect, RequestsAreServed, PTL DEF Spec, NegotiationConservesPeople
=============================================================================
