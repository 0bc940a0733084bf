-------------------------- MODULE ClarifyQuestions --------------------------
(***************************************************************************)
(* Questions the agent puts to the user of a gateway session               *)
(* (tools/clarify_gateway.py, the clarify callback of gateway/run.py, the  *)
(* buttons of gateway/platforms/telegram.py).  A question is registered,   *)
(* sent, and waited for on the agent's thread; the event loop answers it   *)
(* when a button is pressed or a message is typed.  An answer is written   *)
(* after the lock under which its question was looked up was released.     *)
(***************************************************************************)
EXTENDS Integers, FiniteSets

CONSTANTS
    Questions,
    OpenEnded       \* those without choices: the next message is the answer

ASSUME ClarifyAssumption == IsFiniteSet(Questions) /\ OpenEnded \subseteq Questions

VARIABLES
    open,       \* _entries, and _session_index which holds the same ids
    place,      \* each question's place in the session's index; 0 before
    poser,      \* the thread that asks it
    response,   \* entry.response
    raised,     \* entry.event is set
    typing,     \* entry.awaiting_text
    buttons,    \* _clarify_state: the sent questions whose buttons still work
    landing,    \* looked up and about to be answered by the event loop
    cancelling, \* taken out by clear_session, about to be told
    ended       \* the turn has ended and cleared the session

clarifyVars == <<open, place, poser, response, raised, typing, buttons,
                 landing, cancelling, ended>>
questionVars == <<place, response, raised, typing>>
loopVars == <<buttons, landing, cancelling, ended>>

Responses == {"none", "empty", "choice", "text"}
OnTheWay == {"sending", "displayed", "waiting", "leaving"}
NoLanding == [question |-> {}, answer |-> "none"]

ClarifyInit ==
    /\ open = {} /\ typing = {} /\ buttons = {} /\ cancelling = {}
    /\ place = [q \in Questions |-> 0]
    /\ poser = [q \in Questions |-> "idle"]
    /\ response = [q \in Questions |-> "none"]
    /\ raised = [q \in Questions |-> FALSE]
    /\ landing = NoLanding
    /\ ended = FALSE

Moves(q, stage) == poser' = [poser EXCEPT ![q] = stage]

----------------------------------------------------------------------------
(* The thread that asks: _clarify_callback_sync, wait_for_response.        *)

Register(q) ==
    /\ poser[q] = "idle" /\ Moves(q, "sending")
    /\ open' = open \union {q}
    /\ place' = [place EXCEPT ![q] = 1 + Cardinality({p \in Questions : place[p] > 0})]
    /\ typing' = IF q \in OpenEnded THEN typing \union {q} ELSE typing
    /\ UNCHANGED <<response, raised, loopVars>>

\* The message reached the chat: its buttons work from here on.
Displayed(q) ==
    /\ poser[q] = "sending" /\ Moves(q, "displayed")
    /\ buttons' = IF q \in OpenEnded THEN buttons ELSE buttons \union {q}
    /\ UNCHANGED <<open, questionVars, landing, cancelling, ended>>

\* wait_for_response finds its entry, or finds it cleared and returns at once.
Sent(q) ==
    /\ poser[q] = "displayed"
    /\ Moves(q, IF q \in open THEN "waiting" ELSE "returned")
    /\ UNCHANGED <<open, questionVars, loopVars>>

\* Mutant of SendFails: gives up on its own question without clearing it.
SendFailsUncleared(q) ==
    /\ poser[q] \in {"sending", "displayed"} /\ Moves(q, "returned")
    /\ UNCHANGED <<open, questionVars, loopVars>>
\* The prompt could not be delivered, or not in time: every question of the
\* session is cleared.
SendFails(q) ==
    /\ poser[q] \in {"sending", "displayed"} /\ Moves(q, "returned")
    /\ open' = {} /\ cancelling' = cancelling \union open
    /\ UNCHANGED <<questionVars, buttons, landing, ended>>

\* The deadline, looked at before the event.
GivesUp(q) ==
    /\ poser[q] = "waiting" /\ Moves(q, "leaving")
    /\ UNCHANGED <<open, questionVars, loopVars>>

\* The event is set.
Answered(q) ==
    /\ poser[q] = "waiting" /\ raised[q] /\ Moves(q, "leaving")
    /\ UNCHANGED <<open, questionVars, loopVars>>

\* The entry is removed, and the response it holds by now returned.
Return(q) ==
    /\ poser[q] = "leaving" /\ Moves(q, "returned")
    /\ open' = open \ {q}
    /\ UNCHANGED <<questionVars, loopVars>>

----------------------------------------------------------------------------
(* The event loop, which handles one update at a time.                     *)

LookUp(q, answer) ==
    landing' = IF q \in open THEN [question |-> {q}, answer |-> answer] ELSE NoLanding

\* A choice: the buttons are withdrawn, then the question is looked up.
Press(q) ==
    /\ landing = NoLanding /\ q \in buttons
    /\ buttons' = buttons \ {q}
    /\ LookUp(q, "choice")
    /\ UNCHANGED <<open, questionVars, poser, cancelling, ended>>

\* "Other": the next message is the answer; the buttons are not withdrawn.
PressOther(q) ==
    /\ landing = NoLanding /\ q \in buttons /\ q \in open
    /\ typing' = typing \union {q}
    /\ UNCHANGED <<open, place, poser, response, raised, loopVars>>

\* A message answers the oldest question that expects one, and is not a turn.
Type(q) ==
    /\ landing = NoLanding /\ q \in open \intersect typing
    /\ \A p \in open \intersect typing : place[q] <= place[p]
    /\ LookUp(q, "text")
    /\ UNCHANGED <<open, questionVars, poser, buttons, cancelling, ended>>

Write(q, answer) ==
    /\ response' = [response EXCEPT ![q] = answer]
    /\ raised' = [raised EXCEPT ![q] = TRUE]

\* resolve_gateway_clarify, outside the lock: the last to write wins.
Land(q) ==
    /\ q \in landing.question /\ Write(q, landing.answer)
    /\ landing' = NoLanding
    /\ UNCHANGED <<open, place, poser, typing, buttons, cancelling, ended>>

----------------------------------------------------------------------------
(* clear_session, at the end of the turn.                                  *)

TurnEnded ==
    /\ ~ended /\ ended' = TRUE
    /\ open' = {} /\ cancelling' = cancelling \union open
    /\ UNCHANGED <<questionVars, poser, buttons, landing>>

Cancel(q) ==
    /\ q \in cancelling /\ Write(q, "empty")
    /\ cancelling' = cancelling \ {q}
    /\ UNCHANGED <<open, place, poser, typing, buttons, landing, ended>>

----------------------------------------------------------------------------
PoserSteps(q) ==
    Displayed(q) \/ Sent(q) \/ SendFails(q) \/ GivesUp(q) \/ Answered(q) \/ Return(q)

ClarifyNext ==
    \/ \E q \in Questions :
          Register(q) \/ PoserSteps(q) \/ Press(q) \/ PressOther(q) \/ Type(q)
            \/ Land(q) \/ Cancel(q)
    \/ TurnEnded

ClarifySpec == ClarifyInit /\ [][ClarifyNext]_clarifyVars

----------------------------------------------------------------------------
ClarifyTypeOK ==
    /\ open \subseteq Questions /\ typing \subseteq Questions
    /\ buttons \subseteq Questions /\ cancelling \subseteq Questions
    /\ place \in [Questions -> Nat]
    /\ poser \in [Questions -> {"idle", "returned"} \union OnTheWay]
    /\ response \in [Questions -> Responses]
    /\ raised \in [Questions -> BOOLEAN]
    /\ landing \in [question : SUBSET Questions, answer : Responses]
    /\ ended \in BOOLEAN

\* A question that messages and buttons can still find has a thread on its way to
\* the answer: none stays open behind a thread that has gone.  (A message looked up
\* just before the thread gives up is still neither an answer nor a turn.)
OpenQuestionsAwaited ==
    \A q \in open : poser[q] \in OnTheWay

=============================================================================
