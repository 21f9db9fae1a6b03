-------------------------- MODULE MCOperatorConsole --------------------------
(* The two zones of the injections and one that ZONE_ORDER does not list.   *)
(* The readings tie with the injected ones, or differ in density alone.     *)
EXTENDS OperatorConsole, TLC

Order == <<"E_PIER", "GATE_A">>
Calm == [congestion |-> "LOW", density |-> 3]
Tight == [congestion |-> "CRITICAL", density |-> 1]
ReadingsOf == ("GATE_A" :> {Calm, Tight}) @@ ("E_PIER" :> {Calm}) @@ ("ANNEX" :> {Tight})
Lists == {<<>>, <<[id |-> "E_PIER", reading |-> Calm], [id |-> "GATE_A", reading |-> Calm]>>}
MCBottleneck == [congestion |-> "CRITICAL", density |-> 1]
MCEmergency == [congestion |-> "CRITICAL", density |-> 2]
=============================================================================
