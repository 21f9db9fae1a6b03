--------------------------- MODULE MCZoneNetwork ---------------------------
(* Instances of ZoneNetwork for TLC: four zones in a ring, so that each zone
   has two neighbours and one zone a shuttle can reach, and batches that
   make the zones shed load, absorb it and refuse it. *)
EXTENDS ZoneNetwork

CONSTANTS a, b, c, d,  \* the zones of the topology
          x,           \* a zone id no agent owns
          One, Two     \* telemetry requests

FourZones == <<a, b, c, d>>
TwoZones == <<a, b>>

Reading(zone, occupancy, density, congestion) ==
    [zone |-> zone,
     metric |-> [capacity |-> 10, occupancy |-> occupancy, density |-> density,
                 congestion |-> congestion, offline |-> FALSE]]

Packed(zone) == Reading(zone, 13, 5, "CRITICAL")     \* sheds three people
Calm(zone) == Reading(zone, 2, 1, "LOW")             \* has room for eight

\* a overflows: b can absorb it, a shuttle can go where x is said to be.
Surge == <<Calm(b), Calm(x), Packed(a)>>
\* a calms down and overflows again, faster than an inbox of one may drain.
Relapse == <<Calm(a), Packed(a)>>
\* Both zones of a ring of two overflow at the same time.
Standoff == <<Packed(a), Packed(b)>>
\* One zone overflows twice, for a neighbour with a channel of one place.
Insist == <<Packed(a), Packed(a)>>
\* b can absorb what a sheds.
Relief == <<Calm(b), Packed(a)>>

SafetyBatches == {Surge, Relapse}
StandoffBatches == {Standoff, Insist, Relief}
=============================================================================
