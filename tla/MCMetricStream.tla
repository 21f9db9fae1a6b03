--------------------------- MODULE MCMetricStream ---------------------------
(* Instance of MetricStream: two requests that broadcast at once, two zones
   and a client whose channel a second metric fills. *)
EXTENDS MetricStream

CONSTANTS p, q,      \* zones
          One, Two,  \* telemetry requests
          c1         \* a stream connection
=============================================================================
