----------------------------- MODULE Approvals ------------------------------
(***************************************************************************)
(* Dangerous commands that wait for the user's consent in one gateway      *)
(* session (tools/approval.py).  Agent threads, those of delegated         *)
(* children among them, put a request in the session's queue and block;    *)
(* the event loop answers with /approve, /deny and /new; the end of a turn *)
(* withdraws the callback and wakes whoever still waits.  The queue is     *)
(* changed under a lock; the answer and the event are set after the lock   *)
(* was released, by whoever took the request out.                          *)
(*                                                                         *)
(* Left out: the detection of dangerous commands, /yolo and mode "off",    *)
(* which skip all of this; smart approvals; the permanent allowlist, a set *)
(* like the session's that nothing clears; the CLI's synchronous prompt.   *)
(***************************************************************************)
EXTENDS Integers, FiniteSets

CONSTANTS
    Requests,       \* commands that need consent, each on a thread of its own
    Pattern,        \* what each is an instance of: [Requests -> pattern]
    ApprovalTurns   \* the session's turns, 1..n

ASSUME ApprovalsAssumption ==
    /\ IsFiniteSet(Requests) /\ DOMAIN Pattern = Requests
    /\ ApprovalTurns \subseteq Nat \ {0}

VARIABLES
    notifier,   \* _gateway_notify_cbs[session]: the turn that registered it, or 0
    waiting,    \* _gateway_queues[session]
    ticket,     \* when each request joined the queue; 0 before
    asker,      \* the thread of each request
    result,     \* entry.result
    event,      \* entry.event is set
    telling,    \* taken out of the queue: the answer about to be written
    remembered, \* _session_approved[session]
    turn,       \* idle, running, over
    granted     \* history: the answer the user gave to each request

approvalVars == <<notifier, waiting, ticket, asker, result, event, telling,
                  remembered, turn, granted>>
entryVars == <<ticket, result, event, telling>>
sessionVars == <<notifier, remembered, turn, granted>>

Answers == {"once", "session", "deny"}

\* A thread reads the callback (armed), joins the queue (asking), has notified
\* the user (waiting), woke up or timed out, was told to go ahead (approving).
Finished == {"approved", "blocked"}
Askers == {"idle", "armed", "asking", "waiting", "woken", "expired", "approving"}
            \union Finished

ApprovalsInit ==
    /\ notifier = 0 /\ waiting = {} /\ remembered = {}
    /\ ticket = [r \in Requests |-> 0]
    /\ asker = [r \in Requests |-> "idle"]
    /\ result = [r \in Requests |-> "none"]
    /\ event = [r \in Requests |-> FALSE]
    /\ telling = [r \in Requests |-> "none"]
    /\ turn = [t \in ApprovalTurns |-> "idle"]
    /\ granted = [r \in Requests |-> "none"]

Becomes(r, stage) == asker' = [asker EXCEPT ![r] = stage]

\* Take R out of the queue; what they will be told follows outside the lock.
TakeOut(R, answer) ==
    /\ waiting' = waiting \ R
    /\ telling' = [r \in Requests |-> IF r \in R THEN answer ELSE telling[r]]

\* The event loop tells everybody it took out before it handles anything else.
LoopFree == \A r \in Requests : telling[r] \notin Answers

Oldest == {r \in waiting : \A q \in waiting : ticket[r] <= ticket[q]}

----------------------------------------------------------------------------
(* A turn of the session.                                                  *)

\* register_gateway_notify.  The turn before may still be unwinding.
TurnBegins(t) ==
    /\ turn[t] = "idle" /\ \A s \in ApprovalTurns : s < t => turn[s] # "idle"
    /\ turn' = [turn EXCEPT ![t] = "running"]
    /\ notifier' = t
    /\ UNCHANGED <<waiting, entryVars, asker, remembered, granted>>

\* Mutant of TurnFinishes: the waiting threads are woken but stay queued.
TurnFinishesKeepingQueue(t) ==
    /\ turn[t] = "running"
    /\ turn' = [turn EXCEPT ![t] = "over"]
    /\ notifier' = 0
    /\ telling' = [r \in Requests |->
                     IF r \in waiting /\ telling[r] = "none" THEN "withdrawn"
                     ELSE telling[r]]
    /\ UNCHANGED <<waiting, ticket, asker, result, event, remembered, granted>>
\* unregister_gateway_notify, whoever registered last: every waiting thread is
\* woken without an answer.
TurnFinishes(t) ==
    /\ turn[t] = "running"
    /\ turn' = [turn EXCEPT ![t] = "over"]
    /\ notifier' = 0
    /\ TakeOut(waiting, "withdrawn")
    /\ UNCHANGED <<ticket, asker, result, event, remembered, granted>>

----------------------------------------------------------------------------
(* A thread that needs consent: check_all_command_guards.                  *)

\* Approved for the session already; nobody to ask; or ask.
Ask(r) ==
    /\ asker[r] = "idle" /\ \E t \in ApprovalTurns : turn[t] # "idle"
    /\ Becomes(r, IF Pattern[r] \in remembered THEN "approved"
                  ELSE IF notifier = 0 THEN "blocked" ELSE "armed")
    /\ UNCHANGED <<sessionVars, waiting, entryVars>>

\* The turn may have ended since the callback was read.
Enqueue(r) ==
    /\ asker[r] = "armed" /\ Becomes(r, "asking")
    /\ waiting' = waiting \union {r}
    /\ ticket' = [ticket EXCEPT ![r] =
                     1 + Cardinality({q \in Requests : ticket[q] > 0})]
    /\ UNCHANGED <<sessionVars, result, event, telling>>

Notified(r) ==
    /\ asker[r] = "asking" /\ Becomes(r, "waiting")
    /\ UNCHANGED <<sessionVars, waiting, entryVars>>

\* Mutant of NotifyFails: the request stays in the queue.
NotifyFailsQueued(r) ==
    /\ asker[r] = "asking" /\ Becomes(r, "blocked")
    /\ UNCHANGED <<sessionVars, waiting, entryVars>>
\* The callback raised.
NotifyFails(r) ==
    /\ asker[r] = "asking" /\ Becomes(r, "blocked")
    /\ waiting' = waiting \ {r}
    /\ UNCHANGED <<sessionVars, entryVars>>

Wakes(r) ==
    /\ asker[r] = "waiting" /\ event[r] /\ Becomes(r, "woken")
    /\ UNCHANGED <<sessionVars, waiting, entryVars>>

\* Mutant of TimesOut: no deadline while the request is queued.
TimesOutUnqueued(r) ==
    /\ asker[r] = "waiting" /\ r \notin waiting /\ Becomes(r, "expired")
    /\ UNCHANGED <<sessionVars, waiting, entryVars>>
\* The deadline is looked at before the event.
TimesOut(r) ==
    /\ asker[r] = "waiting" /\ Becomes(r, "expired")
    /\ UNCHANGED <<sessionVars, waiting, entryVars>>

\* Mutant of Consents: only an explicit refusal blocks.
ConsentsUnlessDenied(r) == asker[r] = "woken" /\ result[r] # "deny"
\* Silence is not consent, nor is an answer that came after the deadline.
Consents(r) == asker[r] = "woken" /\ result[r] \in {"once", "session"}

\* _drop_entry, and the decision.
Decide(r) ==
    /\ asker[r] \in {"woken", "expired"}
    /\ Becomes(r, IF Consents(r) THEN "approving" ELSE "blocked")
    /\ waiting' = waiting \ {r}
    /\ UNCHANGED <<sessionVars, entryVars>>

\* approve_session, for the answer "session".
GoAhead(r) ==
    /\ asker[r] = "approving" /\ Becomes(r, "approved")
    /\ remembered' = IF result[r] = "session" THEN remembered \union {Pattern[r]}
                     ELSE remembered
    /\ UNCHANGED <<notifier, waiting, entryVars, turn, granted>>

----------------------------------------------------------------------------
(* The event loop.                                                         *)

\* /approve, /deny: the oldest request, or all of them.
Resolve(answer, R) ==
    /\ LoopFree /\ waiting # {} /\ R \in {Oldest, waiting}
    /\ TakeOut(R, answer)
    /\ granted' = [r \in Requests |-> IF r \in R THEN answer ELSE granted[r]]
    /\ UNCHANGED <<notifier, ticket, asker, result, event, remembered, turn>>

\* clear_session, on /new.
NewConversation ==
    /\ LoopFree /\ \E t \in ApprovalTurns : turn[t] # "idle"
    /\ remembered' = {}
    /\ TakeOut(waiting, "deny")
    /\ UNCHANGED <<notifier, ticket, asker, result, event, turn, granted>>

\* The answer is written, then the event set; "withdrawn" sets only the event.
Tell(r) ==
    /\ telling[r] # "none"
    /\ result' = IF telling[r] = "withdrawn" THEN result
                 ELSE [result EXCEPT ![r] = telling[r]]
    /\ event' = [event EXCEPT ![r] = TRUE]
    /\ telling' = [telling EXCEPT ![r] = "none"]
    /\ UNCHANGED <<sessionVars, waiting, ticket, asker>>

----------------------------------------------------------------------------
AskerSteps(r) ==
    Enqueue(r) \/ Notified(r) \/ NotifyFails(r) \/ Wakes(r) \/ TimesOut(r)
      \/ Decide(r) \/ GoAhead(r)

ApprovalsNext ==
    \/ \E t \in ApprovalTurns : TurnBegins(t) \/ TurnFinishes(t)
    \/ \E r \in Requests : Ask(r) \/ AskerSteps(r) \/ Tell(r)
    \/ \E answer \in Answers, R \in SUBSET Requests : Resolve(answer, R)
    \/ NewConversation

ApprovalsSpec == ApprovalsInit /\ [][ApprovalsNext]_approvalVars

\* The threads run on and their clocks tick; nobody need answer.
ApprovalsFairness == WF_approvalVars(\E r \in Requests : AskerSteps(r))

----------------------------------------------------------------------------
ApprovalsTypeOK ==
    /\ notifier \in ApprovalTurns \union {0}
    /\ waiting \subseteq Requests
    /\ ticket \in [Requests -> Nat]
    /\ asker \in [Requests -> Askers]
    /\ result \in [Requests -> Answers \union {"none"}]
    /\ event \in [Requests -> BOOLEAN]
    /\ telling \in [Requests -> Answers \union {"none", "withdrawn"}]
    /\ remembered \subseteq {Pattern[r] : r \in Requests}
    /\ turn \in [ApprovalTurns -> {"idle", "running", "over"}]
    /\ granted \in [Requests -> Answers \union {"none"}]

\* Consent: a command runs only if the user said yes to that very request, or
\* yes for the session to another one with the same pattern.  Time-outs, the
\* end of a turn and /new all wake threads without such a yes.
ConsentGiven ==
    \A r \in Requests : asker[r] = "approved" =>
        \/ granted[r] \in {"once", "session"}
        \/ \E q \in Requests : Pattern[q] = Pattern[r] /\ granted[q] = "session"

\* The queue holds nobody who has left: the next /approve would answer the one
\* who left and leave the one who waits blocked.
NoOrphanRequests ==
    \A r \in waiting : asker[r] \in {"asking", "waiting", "woken", "expired"}

\* One answer per request: once the event is set, nothing a second command or
\* the end of another turn does changes what the thread will read.
OneAnswerEach ==
    [][\A r \in Requests : event[r] => result'[r] = result[r]]_approvalVars

\* Every thread that asks is released, whether or not anyone answers and even
\* if its turn ended before it joined the queue.
EveryAskEnds == []<>(\A r \in Requests : asker[r] \in Finished \union {"idle"})

=============================================================================
