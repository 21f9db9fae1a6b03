----------------------------- MODULE MCGateDemo -----------------------------
(* Gates of four and six people that reroute two at a time: the thresholds
   are three and five, both can trip, accept and reject. *)
EXTENDS GateDemo

SmallCapacity == [g \in Gates |-> IF g = North THEN 4 ELSE 6]
SmallDrifts == {-1, 0, 2}
=============================================================================
