-------------------------- MODULE ReconnectHistory --------------------------
(***************************************************************************)
(* LivePages with a history variable: what had been executed when the      *)
(* present connection of a page was made.                                  *)
(***************************************************************************)
EXTENDS LivePages

VARIABLE before  \* per page: the length of the log when its connection was made

InitBefore == Init /\ before = [p \in Pages |-> 0]

NextBefore ==
    /\ Next
    /\ before' = [p \in Pages |-> IF link[p] = "down" /\ link'[p] = "up" THEN Len(log) ELSE before[p]]

SpecBefore == InitBefore /\ [][NextBefore]_<<vars, before>>

\* "Refetch the authoritative list on every (re)connect so the log never
\* misses interventions that executed while the stream was down"
\* (operate/page.tsx:78-79): when the refetch of the present connection has
\* succeeded, whatever had executed before the connection was made is shown.
ReconnectMissesNothing ==
    \A p \in Pages :
        link[p] = "open" /\ gets[p][Len(gets[p])].at = "done" =>
            \A k \in 1..before[p] : \E j \in DOMAIN shown[p] : shown[p][j].id = log[k].id
=============================================================================
