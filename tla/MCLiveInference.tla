--------------------------- MODULE MCLiveInference ---------------------------
(* WEBCAM is selected twice, so that a second socket overlaps the first.    *)
EXTENDS LiveInference
=============================================================================
