---------------------------- MODULE KanbanNotify ----------------------------
(***************************************************************************)
(* One chat's subscription to one task, and the gateways that poll it      *)
(* (gateway/run.py, the kanban notifier; hermes_cli/kanban_db.py, the      *)
(* notification cursor).  A gateway claims the events past the cursor in   *)
(* one transaction, reads the task's status in another, sends the events   *)
(* one by one, and then advances the cursor, rewinds it or unsubscribes,   *)
(* each in a transaction of its own; another gateway of the same profile   *)
(* does the same, and either may die with a claim in hand.                 *)
(*                                                                         *)
(* Left out: the other boards and subscriptions, a second subscription of  *)
(* the same chat, attachments, the events nobody is told about, and what   *)
(* happens to a card that is reopened after its completion: once the chat  *)
(* is unsubscribed it is told no more.  "Sent" is handed to the adapter,   *)
(* whose result is not looked at.                                          *)
(***************************************************************************)
EXTENDS Integers

CONSTANTS
    Gateways,
    MaxSendFailures,            \* MAX_SEND_FAILURES
    MaxEvents, MaxGatewayDeaths \* bounds

ASSUME NotifyAssumption ==
    /\ {MaxEvents, MaxGatewayDeaths} \subseteq Nat /\ MaxSendFailures \in Nat \ {0}

VARIABLES
    happened,   \* task_events: the terminal events of the task are 1..happened
    completed,  \* tasks.status is done: the last of them is "completed"
    subscribed, \* the row of kanban_notify_subs
    cursor,     \* its last_event_id
    claim,      \* what each gateway has in hand
    fails,      \* sub_fail_counts
    sent,       \* history: how often each event was sent, counted up to twice
    again,      \* history: events put back though some of them had been sent, by
                \* a batch that failed half-way or a cursor that was moved back
    lost,       \* history: events in hand when the gateway died or when a rewind
                \* was refused, or not yet claimed when a status read later
                \* than the claim said done
    dropped,    \* history: the chat refused MAX_SEND_FAILURES messages in a row
    deaths

notifyVars == <<happened, completed, subscribed, cursor, claim, fails, sent, again,
                lost, dropped, deaths>>
taskVars == <<happened, completed>>
rowVars == <<subscribed, cursor>>
tellVars == <<sent, again, lost, dropped>>

Events == 1..MaxEvents
Stages == {"idle", "claimed", "sending", "rewinding", "leaving", "dropping"}
Batches == [at : Stages, old : 0..MaxEvents, new : 0..MaxEvents,
            next : 1..(MaxEvents + 1), done : BOOLEAN]
Empty == [at |-> "idle", old |-> 0, new |-> 0, next |-> 1, done |-> FALSE]

NotifyInit ==
    /\ happened = 0 /\ completed = FALSE
    /\ subscribed = TRUE /\ cursor = 0
    /\ claim = [g \in Gateways |-> Empty]
    /\ fails = [g \in Gateways |-> 0]
    /\ sent = [e \in Events |-> 0]
    /\ again = {} /\ lost = {} /\ dropped = FALSE /\ deaths = 0

GatewayGoes(g, at) == claim' = [claim EXCEPT ![g].at = at]
Done(g) == claim' = [claim EXCEPT ![g] = Empty]
Unsent(g) == claim[g].next..claim[g].new
InHand(g, e) == claim[g].at # "idle" /\ e \in Unsent(g)

----------------------------------------------------------------------------
(* The task: blocked, gave_up, crashed, timed_out; completed, after which  *)
(* nothing is followed.                                                    *)

Happens(done) ==
    /\ happened < MaxEvents /\ ~completed
    /\ happened' = happened + 1 /\ completed' = done
    /\ UNCHANGED <<rowVars, claim, fails, tellVars, deaths>>

----------------------------------------------------------------------------
(* A gateway: _collect.                                                    *)

Claimed(g, newCursor) ==
    /\ claim[g].at = "idle" /\ subscribed /\ happened > cursor
    /\ claim' = [claim EXCEPT ![g] = [at |-> "claimed", old |-> cursor, new |-> happened,
                                      next |-> cursor + 1, done |-> FALSE]]
    /\ cursor' = newCursor
    /\ UNCHANGED <<taskVars, subscribed, fails, tellVars, deaths>>
\* Mutant of Claims: the events are read, and the cursor left to the delivery.
ClaimsNothing(g) == Claimed(g, cursor)
\* claim_unseen_events_for_sub.
Claims(g) == Claimed(g, happened)

\* get_task.
ReadsStatus(g) ==
    /\ claim[g].at = "claimed"
    /\ claim' = [claim EXCEPT ![g].at = "sending", ![g].done = completed]
    /\ UNCHANGED <<taskVars, rowVars, fails, tellVars, deaths>>

----------------------------------------------------------------------------
(* A gateway: the deliveries.                                              *)

\* The adapter has disconnected meanwhile.
Disconnected(g) ==
    /\ claim[g].at = "sending" /\ claim[g].next = claim[g].old + 1
    /\ GatewayGoes(g, "rewinding")
    /\ UNCHANGED <<taskVars, rowVars, fails, tellVars, deaths>>

Sends(g, e) ==
    /\ claim[g].at = "sending" /\ e = claim[g].next /\ e <= claim[g].new
    /\ sent' = [sent EXCEPT ![e] = IF @ < 2 THEN @ + 1 ELSE @]
    /\ fails' = [fails EXCEPT ![g] = 0]
    /\ claim' = [claim EXCEPT ![g].next = e + 1]
    /\ UNCHANGED <<taskVars, rowVars, again, lost, dropped, deaths>>

TooManyFailures(g) == fails[g] + 1 >= MaxSendFailures
SendRaised(g, counted) ==
    /\ claim[g].at = "sending" /\ claim[g].next <= claim[g].new
    /\ fails' = [fails EXCEPT ![g] = counted]
    /\ GatewayGoes(g, IF TooManyFailures(g) THEN "dropping" ELSE "rewinding")
    /\ UNCHANGED <<taskVars, rowVars, tellVars, deaths>>
\* Mutant of SendRaises: the count outlives the subscription.
SendRaisesCounting(g) == SendRaised(g, fails[g] + 1)
\* adapter.send raised: the rest of the batch waits.
SendRaises(g) == SendRaised(g, IF TooManyFailures(g) THEN 0 ELSE fails[g] + 1)

\* Mutant of Rewinds: the claim is kept.
RewindsNothing(g) ==
    /\ claim[g].at = "rewinding" /\ Done(g)
    /\ UNCHANGED <<taskVars, rowVars, fails, tellVars, deaths>>
\* rewind_notify_cursor: unless somebody has moved the cursor since.
Rewinds(g) ==
    /\ claim[g].at = "rewinding" /\ Done(g)
    /\ IF subscribed /\ cursor = claim[g].new
       THEN /\ cursor' = claim[g].old
            /\ again' = again \union (claim[g].old + 1)..(claim[g].next - 1)
            /\ UNCHANGED lost
       ELSE /\ lost' = lost \union Unsent(g)
            /\ UNCHANGED <<cursor, again>>
    /\ UNCHANGED <<taskVars, subscribed, fails, sent, dropped, deaths>>

Delivered(g, leave) ==
    /\ claim[g].at = "sending" /\ claim[g].next > claim[g].new
    /\ cursor' = IF subscribed THEN claim[g].new ELSE cursor
    /\ again' = again \union (cursor' + 1)..cursor
    /\ IF leave THEN GatewayGoes(g, "leaving") ELSE Done(g)
    /\ UNCHANGED <<taskVars, subscribed, fails, sent, lost, dropped, deaths>>
\* Mutant of AdvancesCursor: unsubscribes after any terminal event.
AdvancesCursorAndLeaves(g) == Delivered(g, TRUE)
\* advance_notify_cursor, wherever the cursor is by now.
AdvancesCursor(g) == Delivered(g, claim[g].done)

\* _kanban_unsub: the task is done, or the chat is dead.
Unsubscribes(g) ==
    /\ claim[g].at \in {"leaving", "dropping"} /\ Done(g)
    /\ subscribed' = FALSE
    /\ dropped' = (dropped \/ claim[g].at = "dropping")
    /\ lost' = IF claim[g].at = "leaving"
               THEN lost \union (claim[g].new + 1)..happened ELSE lost
    /\ UNCHANGED <<taskVars, cursor, fails, sent, again, deaths>>

GatewayDies(g) ==
    /\ deaths < MaxGatewayDeaths /\ deaths' = deaths + 1
    /\ claim[g].at # "idle" /\ Done(g)
    /\ fails' = [fails EXCEPT ![g] = 0]
    /\ lost' = lost \union Unsent(g)
    /\ UNCHANGED <<taskVars, rowVars, sent, again, dropped>>

----------------------------------------------------------------------------
GatewaySteps(g) ==
    \/ Claims(g) \/ ReadsStatus(g) \/ Disconnected(g) \/ SendRaises(g) \/ Rewinds(g)
    \/ AdvancesCursor(g) \/ Unsubscribes(g) \/ \E e \in Events : Sends(g, e)

NotifyNext ==
    \/ \E done \in BOOLEAN : Happens(done)
    \/ \E g \in Gateways : GatewaySteps(g) \/ GatewayDies(g)

NotifySpec == NotifyInit /\ [][NotifyNext]_notifyVars

\* The gateways poll; a message that is tried again and again gets through some
\* time, unless the subscription is dropped before.
NotifyFairness ==
    /\ \A g \in Gateways : WF_notifyVars(GatewaySteps(g))
    /\ \A e \in Events : SF_notifyVars(\E g \in Gateways : Sends(g, e))

----------------------------------------------------------------------------
NotifyTypeOK ==
    /\ happened \in 0..MaxEvents /\ cursor \in 0..MaxEvents
    /\ completed \in BOOLEAN /\ subscribed \in BOOLEAN /\ dropped \in BOOLEAN
    /\ claim \in [Gateways -> Batches]
    /\ fails \in [Gateways -> 0..(MaxSendFailures - 1)]
    /\ sent \in [Events -> 0..2]
    /\ again \subseteq Events /\ lost \subseteq Events
    /\ deaths \in 0..MaxGatewayDeaths

\* The cursor passes over no event: what is behind it was sent, or is in some
\* gateway's hand, or was lost in one of the ways "lost" lists.
NothingSkipped ==
    subscribed =>
      \A e \in 1..cursor :
        sent[e] > 0 \/ e \in lost \/ \E g \in Gateways : InHand(g, e)

\* The claim is what keeps two gateways from telling the chat the same thing:
\* an event is sent twice only after it was put back.
SentOnce == \A e \in Events : sent[e] > 1 => e \in again

\* Whatever happens to the task is told to the chat, however many gateways poll,
\* unless it was lost in one of those ways or the chat was given up.
EveryEventTold ==
    []<>(\A e \in 1..happened : sent[e] > 0 \/ e \in lost \/ dropped)

=============================================================================
