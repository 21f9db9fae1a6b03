--------------------------- MODULE SignageService ---------------------------
(***************************************************************************)
(* The intervention service of the backend (intervention/signage.go): the  *)
(* audit log, its fan-out to live streams, and the goroutine that polishes *)
(* a message. Apply is called by agents and by the operator's POST, many   *)
(* at a time; it takes the lock three times (to append, to copy the set of *)
(* subscribers, and later to rewrite the message), and everything else     *)
(* interleaves with the steps between.                                     *)
(*                                                                         *)
(* An intervention is its id, whether its severity is one that a sign      *)
(* shows, and its message, "plain" or "polished". Ids and AppliedAt are    *)
(* readings of the nanosecond clock, taken to differ: the count of Apply   *)
(* calls so far.                                                           *)
(***************************************************************************)
EXTENDS Integers, Sequences

CONSTANTS
    Calls,       \* interventions that may be in progress at a time
    Streams,     \* stream handlers
    SubCap,      \* capacity of a subscriber channel (64 in signage.go)
    MaxApplied,  \* bound: interventions applied in a behaviour
    Polishable   \* ids of those that the generator has something to say about

ASSUME ServiceAssumption ==
    SubCap \in Nat \ {0} /\ MaxApplied \in Nat /\ Polishable \subseteq 1..MaxApplied

VARIABLES
    applied,  \* clock: interventions stamped so far
    log,      \* the audit log, in the order of the lock
    call,     \* per call of Apply: where it stands, its intervention, whom it still sends to
    subs,     \* the subscribed channels
    chan      \* per stream: its channel

serviceVars == <<applied, log, call, subs, chan>>

Ids == 1..MaxApplied
Interventions == [id : Ids, alarm : BOOLEAN, message : {"plain", "polished"}]
Steps == {"idle", "stamped", "recorded", "sending", "rewritten", "resending"}
NoIntervention == [id |-> 0, alarm |-> FALSE, message |-> "plain"]
Idle == [at |-> "idle", iv |-> NoIntervention, to |-> {}]

ServiceInit ==
    /\ applied = 0
    /\ log = <<>>
    /\ call = [c \in Calls |-> Idle]
    /\ subs = {}
    /\ chan = [s \in Streams |-> <<>>]

-----------------------------------------------------------------------------
(* Apply. *)

\* A free place of Calls; which one makes no difference.
Free(c) == call[c].at = "idle" /\ c = CHOOSE d \in Calls : call[d].at = "idle"

\* Id, time and message are filled in and the sign is driven, without a lock.
Stamp(c, alarm) ==
    /\ Free(c)
    /\ applied < MaxApplied
    /\ applied' = applied + 1
    /\ call' = [call EXCEPT ![c] =
                   [at |-> "stamped", to |-> {},
                    iv |-> [id |-> applied', alarm |-> alarm, message |-> "plain"]]]
    /\ UNCHANGED <<log, subs, chan>>

Record(c) ==
    /\ call[c].at = "stamped"
    /\ log' = Append(log, call[c].iv)
    /\ call' = [call EXCEPT ![c].at = "recorded"]
    /\ UNCHANGED <<applied, subs, chan>>

\* fanout copies the set of subscribers under the lock ...
CopySubs(c) ==
    /\ call[c].at \in {"recorded", "rewritten"}
    /\ call' = [call EXCEPT ![c].to = subs,
                            ![c].at = IF @ = "recorded" THEN "sending" ELSE "resending"]
    /\ UNCHANGED <<applied, log, subs, chan>>

ChanHasRoom(s) == Len(chan[s]) < SubCap

\* ... and sends to one after the other, to none of them with patience.
\* Mutants: it waits for a slow stream; it queues without a bound.
Send_Blocking(c, s) ==
    /\ s \in call[c].to
    /\ ChanHasRoom(s)
    /\ chan' = [chan EXCEPT ![s] = Append(@, call[c].iv)]
    /\ call' = [call EXCEPT ![c].to = @ \ {s}]
    /\ UNCHANGED <<applied, log, subs>>
Send_Unbounded(c, s) ==
    /\ s \in call[c].to
    /\ chan' = [chan EXCEPT ![s] = Append(@, call[c].iv)]
    /\ call' = [call EXCEPT ![c].to = @ \ {s}]
    /\ UNCHANGED <<applied, log, subs>>
Send(c, s) ==
    /\ s \in call[c].to
    /\ chan' = IF ChanHasRoom(s) THEN [chan EXCEPT ![s] = Append(@, call[c].iv)] ELSE chan
    /\ call' = [call EXCEPT ![c].to = @ \ {s}]
    /\ UNCHANGED <<applied, log, subs>>

\* Apply has returned when there is nobody left to send to; the polish goroutine
\* has started.
Sending(c) == call[c].at = "sending" /\ call[c].to # {}
Polishing(c) == call[c].at = "sending" /\ call[c].to = {}

-----------------------------------------------------------------------------
(* polish. *)

\* The generator's message replaces that of the first entry with the id.
\* Mutants: it becomes an entry of its own; only the streams get it.
Rewrite_Append(c) ==
    /\ Polishing(c)
    /\ call[c].iv.id \in Polishable
    /\ call' = [call EXCEPT ![c].at = "rewritten", ![c].iv.message = "polished"]
    /\ log' = Append(log, call'[c].iv)
    /\ UNCHANGED <<applied, subs, chan>>
Rewrite_Unlogged(c) ==
    /\ Polishing(c)
    /\ call[c].iv.id \in Polishable
    /\ call' = [call EXCEPT ![c].at = "rewritten", ![c].iv.message = "polished"]
    /\ UNCHANGED <<applied, log, subs, chan>>
Rewrite(c) ==
    /\ Polishing(c)
    /\ call[c].iv.id \in Polishable
    /\ call' = [call EXCEPT ![c].at = "rewritten", ![c].iv.message = "polished"]
    /\ log' = [k \in DOMAIN log |->
                 IF log[k].id = call[c].iv.id THEN [log[k] EXCEPT !.message = "polished"]
                                              ELSE log[k]]
    /\ UNCHANGED <<applied, subs, chan>>

\* There is no generator (the default), it fails or has nothing to say; or the
\* second fan-out is through.
End(c) ==
    /\ \/ Polishing(c)
       \/ call[c].at = "resending" /\ call[c].to = {}
    /\ call' = [call EXCEPT ![c] = Idle]
    /\ UNCHANGED <<applied, log, subs, chan>>

-----------------------------------------------------------------------------
(* Streams. *)

Subscribe(s) ==
    /\ s \notin subs
    /\ subs' = subs \cup {s}
    /\ chan' = [chan EXCEPT ![s] = <<>>]
    /\ UNCHANGED <<applied, log, call>>

\* A send that is under way may still end up in the channel of a handler that
\* is gone; nobody reads it.
Unsubscribe(s) ==
    /\ subs' = subs \ {s}
    /\ chan' = [chan EXCEPT ![s] = <<>>]
    /\ call' = [c \in Calls |-> [call[c] EXCEPT !.to = @ \ {s}]]
    /\ UNCHANGED <<applied, log>>

Receive(s) ==
    /\ s \in subs
    /\ chan[s] # <<>>
    /\ chan' = [chan EXCEPT ![s] = Tail(@)]
    /\ UNCHANGED <<applied, log, call, subs>>

\* handleListInterventions: the log, newest first. (No two entries are as new.)
Newer(a, b) == a.id > b.id
Logged == {log[k] : k \in DOMAIN log}
List == CHOOSE list \in [DOMAIN log -> Logged] :
            \A i, j \in DOMAIN log : i < j => Newer(list[i], list[j])

Proceed(c) == Record(c) \/ CopySubs(c) \/ Rewrite(c) \/ End(c)

-----------------------------------------------------------------------------
(* Properties. *)

ServiceTypeOK ==
    /\ applied \in 0..MaxApplied
    /\ log \in Seq(Interventions)
    /\ call \in [Calls -> [at : Steps, iv : Interventions \cup {NoIntervention}, to : SUBSET Streams]]
    /\ subs \subseteq Streams
    /\ chan \in [Streams -> Seq(Interventions)]
    /\ \A s \in Streams : Len(chan[s]) <= SubCap

\* The audit log is append-only, but for messages that get polished: no step
\* removes, reorders or repeats an entry, or turns it into another, although
\* calls overlap and polish goroutines write to entries long after.
AuditTrail ==
    [][/\ Len(log') \in {Len(log), Len(log) + 1}
       /\ \A k \in DOMAIN log :
             /\ log'[k].id = log[k].id
             /\ log'[k].alarm = log[k].alarm
             /\ log[k].message = "polished" => log'[k].message = "polished"
       /\ \A k \in DOMAIN log' \ DOMAIN log, j \in DOMAIN log : log'[k].id # log[j].id
      ]_serviceVars

\* Signs do not wait for screens: whoever applies an intervention, an agent or
\* an operator, gets on, however slow the streams are.
ApplyReturns == \A c \in Calls : call[c].at = "stamped" ~> Polishing(c)
=============================================================================
