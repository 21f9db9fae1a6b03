------------------------------ MODULE LivePages ------------------------------
(***************************************************************************)
(* The list of interventions that the pages of the frontend keep, beside   *)
(* the service it comes from. The operator terminal (app/operate/page.tsx) *)
(* and the public sign (app/signage/page.tsx) fill it in the same way,     *)
(* from three sources that nobody orders: a GET of the whole list when the *)
(* page is mounted and another whenever its stream opens, the frames of    *)
(* the stream, and, on the terminal, the answer to the operator's POST.    *)
(* The last to arrive wins.                                                *)
(*                                                                         *)
(* A stream handler of the service serves the connection of one page at a  *)
(* time, so Streams names the pages too. A frame stays in the handler's    *)
(* channel until the page handles it. When a connection breaks the handler *)
(* leaves at once: what it would still take reaches nobody.                *)
(***************************************************************************)
EXTENDS SignageService, FiniteSets

CONSTANTS
    Operators,    \* the pages that are terminals, the others are signs
    AgentAlarms,  \* the interventions that are an alarm when an agent applies them
    MaxGets,      \* bound: GETs of the list that a page sends
    MaxLogLines   \* lines the terminal's log shows (50 in InterventionLog.tsx)

ASSUME PagesAssumption ==
    Operators \subseteq Streams /\ AgentAlarms \subseteq Ids /\ MaxGets \in Nat \ {0} /\ MaxLogLines \in Nat

VARIABLES
    shown,    \* per page: its state `interventions`
    link,     \* per page: its WebSocket is down, up (upgraded by the server) or open (onopen ran)
    gets,     \* per page: its GETs, in the order they were sent
    post,     \* per page: the override whose POST it waits for, or 0
    own,      \* per page: interventions that it posted
    sound,    \* history: the page's list was made up while its present stream was subscribed
    undone,   \* history: entries, as the page had them, that a list took back since the last break
    lossless  \* history: no frame of this connection was dropped

pageVars == <<shown, link, gets, post, own, sound, undone, lossless>>
vars == <<serviceVars, pageVars>>

Pages == Streams

\* A GET of the list: the list it carries, and whether that was made up while the
\* page's present stream was subscribed. What such a list lacks comes as a frame,
\* but the frame may well come before the list.
NewGet == [at |-> "sent", list |-> <<>>, live |-> FALSE]

Entries(list) == {list[j] : j \in DOMAIN list}

Init ==
    /\ ServiceInit
    /\ shown = [p \in Pages |-> <<>>]
    /\ link = [p \in Pages |-> "down"]
    /\ gets = [p \in Pages |-> <<NewGet>>]
    /\ post = [p \in Pages |-> 0]
    /\ own = [p \in Pages |-> {}]
    /\ sound = [p \in Pages |-> FALSE]
    /\ undone = [p \in Pages |-> {}]
    /\ lossless = [p \in Pages |-> TRUE]

-----------------------------------------------------------------------------
(* The service, and a stream's send that finds the channel full. *)

Serve(c) ==
    /\ Proceed(c) \/ Stamp(c, applied + 1 \in AgentAlarms)
    /\ UNCHANGED pageVars

FanOut(c, p) ==
    /\ Send(c, p)
    /\ lossless' = [lossless EXCEPT ![p] = @ /\ ChanHasRoom(p)]
    /\ UNCHANGED <<shown, link, gets, post, own, sound, undone>>

-----------------------------------------------------------------------------
(* The connection. *)

Connect(p) ==
    /\ link[p] = "down"
    /\ Len(gets[p]) < MaxGets
    /\ link' = [link EXCEPT ![p] = "up"]
    /\ lossless' = [lossless EXCEPT ![p] = TRUE]
    /\ UNCHANGED <<serviceVars, shown, gets, post, own, sound, undone>>

\* The handler subscribes some time after the upgrade, before or after onopen.
Join(p) ==
    /\ link[p] # "down"
    /\ Subscribe(p)
    /\ UNCHANGED pageVars

\* onOpen: the list is fetched anew.
Opened(p) ==
    /\ link[p] = "up"
    /\ link' = [link EXCEPT ![p] = "open"]
    /\ gets' = [gets EXCEPT ![p] = Append(@, NewGet)]
    /\ UNCHANGED <<serviceVars, shown, post, own, sound, undone, lossless>>

\* An entry takes the place of the first with its id, or goes on top.
\* Mutants: it always goes on top; only what is there already is updated.
Merged_OnTop(list, iv) == <<iv>> \o list
Merged_UpdateOnly(list, iv) ==
    [k \in DOMAIN list |-> IF list[k].id = iv.id THEN iv ELSE list[k]]
Merged(list, iv) ==
    LET at == {k \in DOMAIN list : list[k].id = iv.id}
    IN IF at = {} THEN <<iv>> \o list
       ELSE [list EXCEPT ![CHOOSE k \in at : \A j \in at : k <= j] = iv]

\* onIntervention. Nothing here looks at the lists that are under way.
Frame(p) ==
    /\ link[p] = "open"
    /\ Receive(p)
    /\ shown' = [shown EXCEPT ![p] = Merged(@, Head(chan[p]))]
    /\ undone' = [undone EXCEPT ![p] = @ \ {Head(chan[p])}]
    /\ UNCHANGED <<link, gets, post, own, sound, lossless>>

Lost(p) ==
    /\ link[p] # "down"
    /\ link' = [link EXCEPT ![p] = "down"]
    /\ Unsubscribe(p)
    /\ gets' = [gets EXCEPT ![p] = [k \in DOMAIN gets[p] |-> [gets[p][k] EXCEPT !.live = FALSE]]]
    /\ sound' = [sound EXCEPT ![p] = FALSE]
    /\ undone' = [undone EXCEPT ![p] = {}]
    /\ UNCHANGED <<shown, post, own, lossless>>

-----------------------------------------------------------------------------
(* fetchInterventions. *)

\* The server makes up the answer. A GET that fails, for whatever reason, or
\* takes longer than five seconds changes nothing: it is one never answered.
Answer(p, k) ==
    /\ gets[p][k].at = "sent"
    /\ gets' = [gets EXCEPT ![p][k] = [@ EXCEPT !.at = "answered", !.list = List,
                                                !.live = p \in subs]]
    /\ UNCHANGED <<serviceVars, shown, link, post, own, sound, undone, lossless>>

\* It arrives and replaces what the page had, whatever came in between.
Arrive(p, k) ==
    /\ gets[p][k].at = "answered"
    /\ shown' = [shown EXCEPT ![p] = gets[p][k].list]
    /\ sound' = [sound EXCEPT ![p] = gets[p][k].live]
    /\ undone' = [undone EXCEPT ![p] = (@ \cup Entries(shown[p])) \ Entries(gets[p][k].list)]
    /\ gets' = [gets EXCEPT ![p][k] = [@ EXCEPT !.at = "done", !.list = <<>>, !.live = FALSE]]
    /\ UNCHANGED <<serviceVars, link, post, own, lossless>>

-----------------------------------------------------------------------------
(* applyIntervention. *)

\* handleOverride posts and handleApplyIntervention applies: an override is
\* HIGH. The button is disabled until there is an answer, so when there is another
\* POST the last has been answered or has failed, after five seconds at most.
Post(p, c) ==
    /\ p \in Operators
    /\ Stamp(c, TRUE)
    /\ post' = [post EXCEPT ![p] = applied']
    /\ own' = [own EXCEPT ![p] = @ \cup {applied'}]
    /\ UNCHANGED <<shown, link, gets, sound, undone, lossless>>

\* The answer is on its way once Apply has returned. It goes on top of the list
\* without a look at what is there.
Posted(id) == [id |-> id, alarm |-> TRUE, message |-> "plain"]
PostDone(p) ==
    /\ post[p] # 0
    /\ \A c \in Calls : call[c].iv.id = post[p] => call[c].at \notin {"stamped", "recorded"} /\ ~Sending(c)
    /\ shown' = [shown EXCEPT ![p] = <<Posted(post[p])>> \o @]
    /\ undone' = [undone EXCEPT ![p] = @ \ {Posted(post[p])}]
    /\ post' = [post EXCEPT ![p] = 0]
    /\ UNCHANGED <<serviceVars, link, gets, own, sound, lossless>>

-----------------------------------------------------------------------------

Page(p) ==
    \/ Connect(p) \/ Join(p) \/ Opened(p) \/ Frame(p) \/ Lost(p)
    \/ \E k \in DOMAIN gets[p] : Answer(p, k) \/ Arrive(p, k)
    \/ PostDone(p)

Next ==
    \/ \E c \in Calls : Serve(c)
    \/ \E c \in Calls, p \in Pages : FanOut(c, p) \/ Post(p, c)
    \/ \E p \in Pages : Page(p)

Spec == Init /\ [][Next]_vars

\* The backend's goroutines run. Nothing is assumed of networks and pages.
FairSpec ==
    /\ Spec
    /\ \A c \in Calls : WF_vars(Proceed(c) /\ UNCHANGED pageVars)
    /\ \A c \in Calls, p \in Pages : WF_vars(FanOut(c, p))

-----------------------------------------------------------------------------
(* Properties. *)

\* What the sign displays: the first alarm of its list.
Alarms(p) == {k \in DOMAIN shown[p] : shown[p][k].alarm}
SystemNormal(p) == Alarms(p) = {}
Broadcast(p) == shown[p][CHOOSE k \in Alarms(p) : \A j \in Alarms(p) : k <= j]

\* What the terminal's log displays: lines, and "+n older".
Visible(p) == {shown[p][k].id : k \in 1..(IF Len(shown[p]) < MaxLogLines THEN Len(shown[p]) ELSE MaxLogLines)}
Older(p) == IF Len(shown[p]) > MaxLogLines THEN Len(shown[p]) - MaxLogLines ELSE 0

TypeOK ==
    /\ ServiceTypeOK
    /\ shown \in [Pages -> Seq(Interventions)]
    /\ link \in [Pages -> {"down", "up", "open"}]
    /\ gets \in [Pages -> Seq([at : {"sent", "answered", "done"}, list : Seq(Interventions), live : BOOLEAN])]
    /\ \A p \in Pages : Len(gets[p]) <= MaxGets
    /\ post \in [Pages -> 0..MaxApplied]
    /\ own \in [Pages -> SUBSET Ids]
    /\ undone \in [Pages -> SUBSET Interventions]
    /\ {sound, lossless} \subseteq [Pages -> BOOLEAN]

\* Nothing is under way from the service to page p; answers may be.
Settled(p) ==
    /\ link[p] = "open" /\ p \in subs
    /\ \A c \in Calls : call[c] = Idle
    /\ chan[p] = <<>>

\* The pages refetch "so the log never misses interventions" (operate/page.tsx:78).
\* They can miss one all the same: an answer that the server made up before an
\* intervention may arrive after its frame, and as the answer replaces the whole
\* list it takes the frame back. That is all that can go wrong. Once things have
\* settled, a page whose list was made up while its stream was subscribed, the
\* stream having dropped no frame, shows every entry of the audit log with its
\* final message, as a line or among the "+n older", except those that it did show
\* and such an answer undid. With the same exception the sign is blank exactly
\* when there is no alarm, and otherwise tells of one as the log does. (The copy of
\* an override that came as the answer to its POST may keep the message it was
\* posted with.)
OnlyUndoneIsMissing ==
    \A p \in Pages : sound[p] /\ lossless[p] /\ Settled(p) =>
        LET Kept == {k \in DOMAIN log : log[k] \notin undone[p]}
        IN  /\ \A k \in Kept : log[k] \in Entries(shown[p])
            /\ {shown[p][j].id : j \in DOMAIN shown[p]} \subseteq {log[k].id : k \in DOMAIN log}
            /\ Cardinality({log[k].id : k \in Kept} \ Visible(p)) <= Older(p)
            /\ SystemNormal(p) => \A k \in Kept : ~log[k].alarm
            /\ ~SystemNormal(p) => \E k \in DOMAIN log :
                  /\ log[k].alarm /\ log[k].id = Broadcast(p).id
                  /\ \/ Broadcast(p).message = log[k].message
                     \/ log[k].id \in own[p] \/ k \notin Kept

\* A page never shows an intervention twice, however lists and frames overlap,
\* except for its own override, which comes back as an answer and as a frame:
\* that one is there twice at most.
ShownOnce ==
    \A p \in Pages, id \in Ids :
        Cardinality({k \in DOMAIN shown[p] : shown[p][k].id = id})
            <= (IF id \in own[p] THEN 2 ELSE 1)

\* What a page shows has happened: an entry is on a screen only if it is in the
\* audit log, and never with a message the log does not have yet. (The demo
\* controls' injections, which do invent entries, are in OperatorConsole.)
NothingInvented ==
    \A p \in Pages : \A k \in DOMAIN shown[p] : \E j \in DOMAIN log :
        /\ log[j].id = shown[p][k].id /\ log[j].alarm = shown[p][k].alarm
        /\ shown[p][k].message = "polished" => log[j].message = "polished"
=============================================================================
