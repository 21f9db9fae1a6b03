--------------------------- MODULE MCStreamClient ---------------------------
(* Instances of StreamClient. Six sockets are as many failed attempts as it
   takes to pass the cap of the backoff. *)
EXTENDS StreamClient
=============================================================================
