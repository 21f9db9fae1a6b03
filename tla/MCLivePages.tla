----------------------------- MODULE MCLivePages -----------------------------
(* One terminal and two overlapping calls of Apply; a sign's list is kept   *)
(* like a terminal's that posts nothing.                                    *)
EXTENDS LivePages

CONSTANTS c1, c2, page
=============================================================================
