---------------------------- MODULE SessionTurns ----------------------------
(***************************************************************************)
(* One chat session of the gateway: the adapter's guard, owner task,       *)
(* pending slot and text debounce (gateway/platforms/base.py), the         *)
(* runner's agent slot, run generation and /queue overflow                 *)
(* (gateway/run.py), the asyncio tasks that process messages, and the      *)
(* /stop and /new commands that cancel them.  Everything runs on one event *)
(* loop: a step is what happens between two awaits.                        *)
(*                                                                         *)
(* Configuration modelled: the defaults, busy_text_mode "queue" and        *)
(* busy_input_mode "interrupt"; one adapter whose updates arrive one at a  *)
(* time, as Telegram's do, so two commands never overlap.                  *)
(*                                                                         *)
(* Left out: the commands that bypass the queue without cancelling, such as *)
(* /approve, a typed answer, /queue with no run; steering; shutdown;       *)
(* eviction of stale slots. An interrupt without a text (a time-out, a     *)
(* command, a photo without a caption) is left out where it only shortens  *)
(* a run. The thread of a cancelled or timed-out run goes on to its own    *)
(* end: when it forgets an interrupt meant for the next run on its agent,  *)
(* that is the run that does not notice. The await of stop_typing, the     *)
(* first step of a new task, and the awaits between taking a follow-up and *)
(* running it, are part of the step before.                                *)
(***************************************************************************)
EXTENDS Integers, SequencesExt

CONSTANTS
    Senders,        \* the people in the chat
    Scenarios,      \* the messages and the /stop and /new commands to try,
                    \* each a sequence; how they interleave is left open
    CommandsFail,   \* BOOLEAN: a command's handler or its reply may raise
    SlowUnwind,     \* BOOLEAN: a cancelled task may need more than 5 seconds
    MaxDepth,       \* _MAX_INTERRUPT_DEPTH
    MaxTasks,       \* bound: processing tasks ever created
    MaxMessages     \* bound: messages in a traffic

ASSUME SessionAssumption ==
    /\ Scenarios \subseteq
           Seq([from: Senders, kind: {"text", "photo", "queue"}])
             \X Seq({"stop", "new"})
    /\ CommandsFail \in BOOLEAN /\ SlowUnwind \in BOOLEAN
    /\ \A sc \in Scenarios : Len(sc[1]) <= MaxMessages
    /\ MaxDepth \in Nat /\ MaxTasks \in Nat \ {0} /\ MaxMessages \in Nat

VARIABLES
    guard,      \* _active_sessions[key]: whose Event it is; 0 when absent
    owner,      \* _session_tasks[key]: a task, or 0
    pending,    \* _pending_messages[key]: the messages merged into it
    buffer,     \* _text_debounce[key].event
    timer,      \* its flush task is scheduled
    slot,       \* _running_agents[key]: the task whose run it is, or 0
    overflow,   \* _queued_events[key]
    gen,        \* _session_run_generation[key]
    task,       \* the processing tasks
    signal,     \* _interrupt_message of every agent
    cached,     \* _agent_cache[key]: the agent of an earlier run
    traffic,    \* the messages that will arrive, "queue" being a /queue command
    script,     \* the commands that will be typed
    cmd,        \* the command being dispatched
    arrived,    \* how many messages were received so far
    started,    \* messages an agent run was started on, in order
    echoed,     \* messages whose copy a run was started on once more
    dropped     \* messages let go, and by what

vars == <<guard, owner, pending, buffer, timer, slot, overflow, gen, task,
          signal, cached, traffic, script, cmd, arrived, started, echoed, dropped>>

Messages == DOMAIN traffic     \* numbered in order of arrival
TaskIds == 1..MaxTasks
CommandId(n) == MaxTasks + n
Nobody == 0

\* An agent is named for the run it was created for: the task and its depth.
Agents == TaskIds \X (0..MaxDepth)
NoAgent == <<0, 0>>

\* AIAgent.interrupt: the new text takes the place of an old one.  interrupt:
\* messages that are nowhere else.  copy: the text of
\* messages that were in the slot as well.
Silent == [interrupt |-> <<>>, copy |-> <<>>]

\* A task starts (the hooks before the handler), sets a run up (the sentinel
\* holds the slot), has a thread in run_conversation, has its result, delivers
\* the reply, hands the session to a follow-up, unwinds from a cancellation, or
\* cleans up.
Stages == {"none", "starting", "setup", "running", "returned", "delivering",
           "handoff", "unwinding", "cleanup", "done"}

\* gd: interrupt_event.  agent: of its run; none behind the sentinel.
\* interrupt, copy: result["interrupt_message"] of the run that returned.
NoTask == [at |-> "none", input |-> <<>>, gd |-> 0, gen |-> 0, depth |-> 0,
           agent |-> NoAgent, interrupt |-> <<>>, copy |-> <<>>]

\* done: commands dispatched so far; failed: one of them raised.
Idle == [at |-> "idle", id |-> 0, saved |-> 0, target |-> 0, done |-> 0,
         failed |-> FALSE]

Live(t) == task[t].at \notin {"none", "done"}

IsPhoto(e) == \E i \in DOMAIN e : traffic[e[i]].kind = "photo"
SameSender(e, f) == e # <<>> /\ f # <<>> /\ traffic[e[1]].from = traffic[f[1]].from

\* Mutant of Merged: a burst is put together backwards.
MergedBackwards(old, e, mergeText) ==
    IF old # <<>> /\ (mergeText \/ IsPhoto(old) \/ IsPhoto(e)) THEN e \o old ELSE e
\* merge_pending_message_event: what the slot holds afterwards.
Merged(old, e, mergeText) ==
    IF old # <<>> /\ (mergeText \/ IsPhoto(old) \/ IsPhoto(e)) THEN old \o e ELSE e

\* _flush_text_debounce_now: the burst moves to the slot unless the slot
\* holds another sender's; then it stays, without a timer.
CanFlush == buffer # <<>> /\ (pending = <<>> \/ SameSender(pending, buffer))
FlushedPending == IF CanFlush THEN Merged(pending, buffer, TRUE) ELSE pending
FlushedBuffer == IF CanFlush THEN <<>> ELSE buffer

\* create_task(_process_message_background(e)), and its first step: it adopts
\* the guard it finds, or its own.  The loop runs what it was given in order,
\* so that step comes before that of any later update or wake-up.
NextTask == 1 + Cardinality({t \in TaskIds : task[t].at # "none"})
NewTask(e, g) == [NoTask EXCEPT !.at = "starting", !.input = e, !.gd = g]
AdoptedGuard == IF guard # 0 THEN guard ELSE NextTask

\* Where the code lets a message go: a command or the healing of a stale lock
\* discards it, its own turn fails, the debounce refuses a third sender, the
\* depth cap is reached, a later message or another follow-up takes its place
\* in the slot or on the agent, the run it interrupted ends without noticing.
Reasons == {"command", "failed", "third sender", "depth cap", "superseded",
            "unnoticed"}
Drop(why, M) == dropped' = [dropped EXCEPT ![why] = @ \union M]

Init ==
    /\ guard = 0 /\ owner = Nobody /\ slot = Nobody /\ gen = 0
    /\ pending = <<>> /\ buffer = <<>> /\ overflow = <<>> /\ timer = FALSE
    /\ task = [t \in TaskIds |-> NoTask]
    /\ signal = [a \in Agents |-> Silent] /\ cached = NoAgent
    /\ \E sc \in Scenarios : traffic = sc[1] /\ script = sc[2]
    /\ cmd = Idle
    /\ arrived = 0 /\ started = <<>> /\ echoed = {}
    /\ dropped = [why \in Reasons |-> {}]

----------------------------------------------------------------------------
(* Messages: handle_message.                                               *)

\* _heal_stale_session_lock: the recorded owner has exited.
Stale == guard # 0 /\ owner # Nobody /\ ~Live(owner)

\* _start_session_processing: guard and owner are installed together.
StartProcessing(e) ==
    /\ NextTask \in TaskIds
    /\ guard' = NextTask /\ owner' = NextTask
    /\ task' = [task EXCEPT ![NextTask] = NewTask(e, NextTask)]

Receive(m) ==
    /\ m = arrived + 1 /\ arrived' = m
    /\ UNCHANGED <<traffic, script>>

\* No guard, or a stale one that is healed with all it had queued.
ReceiveIdle(m) ==
    /\ Receive(m)
    /\ traffic[m].kind # "queue"
    /\ guard = 0 \/ Stale
    /\ StartProcessing(<<m>>)
    /\ IF Stale
       THEN /\ Drop("command", Range(pending) \union Range(buffer))
            /\ pending' = <<>> /\ buffer' = <<>> /\ timer' = FALSE
       ELSE UNCHANGED <<dropped, pending, buffer, timer>>
    /\ UNCHANGED <<slot, overflow, gen, cmd, started, signal, cached, echoed>>

\* A photo goes to the slot: _handle_active_session_busy_message.  Its caption,
\* if it has one, also interrupts the agent in the slot, unless there is none
\* yet or it drives subagents.
ReceivePhoto(m) ==
    /\ Receive(m)
    /\ traffic[m].kind = "photo"
    /\ guard # 0 /\ ~Stale
    /\ pending' = Merged(pending, <<m>>, FALSE)
    /\ \/ UNCHANGED <<signal, dropped>>
       \/ /\ slot # Nobody /\ task[slot].agent # NoAgent
          /\ \E caption \in {<<>>, <<m>>} :
                signal' = [signal EXCEPT ![task[slot].agent] =
                              [interrupt |-> <<>>, copy |-> caption]]
          /\ Drop("superseded", Range(signal[task[slot].agent].interrupt))
    /\ UNCHANGED <<guard, owner, buffer, timer, slot, overflow, gen, task,
                   cmd, started, cached, echoed>>

\* _queue_text_debounce.  Another sender's text first flushes the buffer; when
\* the slot refuses it too, the text joins the slot or is let go.
ReceiveText(m) ==
    /\ Receive(m)
    /\ traffic[m].kind = "text"
    /\ guard # 0 /\ ~Stale
    /\ \/ /\ buffer = <<>> \/ SameSender(buffer, <<m>>)
          /\ buffer' = Append(buffer, m) /\ timer' = TRUE
          /\ UNCHANGED <<pending, dropped>>
       \/ /\ buffer # <<>> /\ ~SameSender(buffer, <<m>>) /\ CanFlush
          /\ pending' = FlushedPending
          /\ buffer' = <<m>> /\ timer' = TRUE
          /\ UNCHANGED dropped
       \/ /\ buffer # <<>> /\ ~SameSender(buffer, <<m>>) /\ ~CanFlush
          /\ timer' = FALSE
          /\ IF SameSender(pending, <<m>>)
             THEN pending' = Merged(pending, <<m>>, TRUE) /\ UNCHANGED dropped
             ELSE Drop("third sender", {m}) /\ UNCHANGED pending
          /\ UNCHANGED buffer
    /\ UNCHANGED <<guard, owner, slot, overflow, gen, task, cmd, started,
                   signal, cached, echoed>>

\* /queue while a run is active: _enqueue_fifo.
ReceiveQueue(m) ==
    /\ Receive(m)
    /\ traffic[m].kind = "queue"
    /\ guard # 0 /\ ~Stale /\ slot # Nobody
    /\ IF pending = <<>>
       THEN pending' = <<m>> /\ UNCHANGED overflow
       ELSE overflow' = Append(overflow, m) /\ UNCHANGED pending
    /\ UNCHANGED <<guard, owner, buffer, timer, slot, gen, task, cmd, started,
                   dropped, signal, cached, echoed>>

\* _flush_text_debounce: the debounce window closes.
TimerFires ==
    /\ timer /\ timer' = FALSE
    /\ pending' = FlushedPending /\ buffer' = FlushedBuffer
    /\ UNCHANGED <<guard, owner, slot, overflow, gen, task, traffic, script,
                   cmd, arrived, started, dropped, signal, cached, echoed>>

----------------------------------------------------------------------------
(* A processing task: _process_message_background around _handle_message.  *)

\* _handle_message claims the session before any await.
Claim(t) ==
    /\ task[t].at = "starting" /\ slot = Nobody
    /\ slot' = t /\ gen' = gen + 1
    /\ task' = [task EXCEPT ![t].at = "setup", ![t].gen = gen + 1]
    /\ UNCHANGED <<guard, owner, pending, buffer, timer, overflow, traffic,
                   script, cmd, arrived, started, dropped, signal, cached,
                   echoed>>

\* A second handler of the same session finds the slot taken.  Its message
\* joins the slot when it is a photo, the run is younger than 3 seconds
\* (Telegram) or the sentinel holds the slot.  It takes the slot, a text there
\* giving way, when the agent drives subagents.  Otherwise the agent is
\* interrupted with it.
Busy(t) ==
    /\ task[t].at = "starting" /\ slot # Nobody
    /\ task' = [task EXCEPT ![t].at = "delivering", ![t].input = <<>>]
    /\ \/ /\ pending' = Merged(pending, task[t].input, TRUE)
          /\ UNCHANGED <<signal, dropped>>
       \/ /\ task[slot].agent # NoAgent /\ ~IsPhoto(task[t].input)
          /\ pending' = Merged(pending, task[t].input, FALSE)
          /\ Drop("superseded", Range(pending) \ Range(pending'))
          /\ UNCHANGED signal
       \/ /\ task[slot].agent # NoAgent /\ ~IsPhoto(task[t].input)
          /\ signal' = [signal EXCEPT ![task[slot].agent] =
                           [interrupt |-> task[t].input, copy |-> <<>>]]
          /\ Drop("superseded", Range(signal[task[slot].agent].interrupt))
          /\ UNCHANGED pending
    /\ UNCHANGED <<guard, owner, buffer, timer, slot, overflow, gen, traffic,
                   script, cmd, arrived, started, cached, echoed>>

\* The agent of the run of task t at depth d: the cached one, with whatever it
\* was interrupted with since its last run, or a new one (another sender,
\* another model, an evicted cache).
AgentOf(t, d) == {cached, <<t, d>>} \ {NoAgent}

\* The agent exists; track_agent promotes the sentinel unless the run is stale.
RunStarts(t) ==
    /\ task[t].at = "setup"
    /\ \E a \in AgentOf(t, task[t].depth) :
          /\ task' = [task EXCEPT ![t].at = "running", ![t].input = <<>>,
                                  ![t].agent = a]
          /\ cached' = a
    /\ slot' = IF task[t].gen = gen THEN t ELSE slot
    /\ started' = started \o task[t].input
    /\ UNCHANGED <<guard, owner, pending, buffer, timer, overflow, gen,
                   traffic, script, cmd, arrived, dropped, signal, echoed>>

\* run_conversation returns.  The result carries the interrupt if the loop saw
\* it; clear_interrupt forgets it either way.
LoopEnds(t) ==
    /\ task[t].at = "running"
    /\ LET a == task[t].agent IN
       /\ \/ /\ task' = [task EXCEPT ![t].at = "returned",
                                     ![t].interrupt = signal[a].interrupt,
                                     ![t].copy = signal[a].copy]
             /\ UNCHANGED dropped
          \/ /\ task' = [task EXCEPT ![t].at = "returned"]
             /\ Drop("unnoticed", Range(signal[a].interrupt))
       /\ signal' = [signal EXCEPT ![a] = Silent]
    /\ UNCHANGED <<guard, owner, pending, buffer, timer, slot, overflow, gen,
                   traffic, script, cmd, arrived, started, cached, echoed>>

\* monitor_for_interrupt: while a command holds the guard, whose Event it set,
\* the agent is shown what is in the slot.
Peek(t) ==
    /\ task[t].at = "running" /\ pending # <<>>
    /\ cmd.at \in {"replying", "waiting"} /\ guard = cmd.id
    /\ LET a == task[t].agent IN
       /\ signal' = [signal EXCEPT ![a] = [interrupt |-> <<>>, copy |-> pending]]
       /\ Drop("superseded", Range(signal[a].interrupt))
    /\ UNCHANGED <<guard, owner, pending, buffer, timer, slot, overflow, gen, task,
                   traffic, script, cmd, arrived, started, cached, echoed>>

\* The agent is idle for too long: it is interrupted with a control reason, its
\* thread is left to itself and the user is told.  There is no result, so
\* nothing is dequeued.
RunTimesOut(t) ==
    /\ task[t].at = "running"
    /\ LET a == task[t].agent IN
       /\ signal' = [signal EXCEPT ![a] = Silent]
       /\ Drop("failed", Range(signal[a].interrupt))
    /\ slot' = Nobody
    /\ task' = [task EXCEPT ![t].at = "delivering"]
    /\ UNCHANGED <<guard, owner, pending, buffer, timer, overflow, gen,
                   traffic, script, cmd, arrived, started, cached, echoed>>

\* What the finished run takes next (_dequeue_pending_event), and the slot
\* after the overflow's head is promoted (_promote_queued_event).  The text the
\* run was interrupted with is taken only when nothing was queued.
NextInput(t) ==
    IF pending # <<>> THEN pending
    ELSE IF overflow # <<>> THEN <<Head(overflow)>>
    ELSE task[t].interrupt
Superseded(t) ==
    IF NextInput(t) = task[t].interrupt THEN {} ELSE Range(task[t].interrupt)
Promoted == IF pending # <<>> /\ overflow # <<>> THEN <<Head(overflow)>> ELSE <<>>
Remaining == IF overflow = <<>> THEN <<>> ELSE Tail(overflow)

\* A copy taken that way is answered once more.
NextEcho(t) == IF NextInput(t) = <<>> THEN task[t].copy ELSE <<>>

\* Mutant of FollowUp: the slot is read but not consumed.
FollowUpPeeking(t) ==
    /\ task[t].at = "returned"
    /\ NextInput(t) # <<>> /\ task[t].depth < MaxDepth
    /\ \E a \in AgentOf(t, task[t].depth + 1) :
          /\ task' = [task EXCEPT ![t].at = "running", ![t].depth = @ + 1,
                         ![t].agent = a, ![t].interrupt = <<>>, ![t].copy = <<>>]
          /\ cached' = a
    /\ started' = started \o NextInput(t)
    /\ UNCHANGED <<guard, owner, pending, buffer, timer, slot, overflow, gen,
                   traffic, script, cmd, arrived, dropped, signal, echoed>>

\* The run ended with a follow-up waiting: it is answered in the same task,
\* under the same generation, whoever holds the slot by now.
FollowUp(t) ==
    /\ task[t].at = "returned"
    /\ NextInput(t) \o NextEcho(t) # <<>> /\ task[t].depth < MaxDepth
    /\ pending' = Promoted /\ overflow' = Remaining
    /\ \E a \in AgentOf(t, task[t].depth + 1) :
          /\ task' = [task EXCEPT ![t].at = "running", ![t].depth = @ + 1,
                         ![t].agent = a, ![t].interrupt = <<>>, ![t].copy = <<>>]
          /\ cached' = a
    /\ slot' = IF task[t].gen = gen THEN t ELSE slot
    /\ started' = started \o NextInput(t)
    /\ echoed' = echoed \union Range(NextEcho(t))
    /\ Drop("superseded", Superseded(t))
    /\ UNCHANGED <<guard, owner, buffer, timer, gen, traffic, script, cmd,
                   arrived, signal>>

\* At the depth cap the follow-up goes back to the slot, over whatever was
\* promoted into it; a mere interrupt text goes nowhere, since no adapter has
\* a queue_message.
Requeued(t) ==
    IF pending = <<>> /\ overflow = <<>> THEN <<>>
    ELSE Merged(Promoted, NextInput(t), FALSE)

\* The run ended with nothing waiting, or too deep.  The slot is released
\* whatever generation holds it.
RunEnds(t) ==
    /\ task[t].at = "returned"
    /\ NextInput(t) \o NextEcho(t) = <<>> \/ task[t].depth = MaxDepth
    /\ pending' = Requeued(t) /\ overflow' = Remaining
    /\ dropped' = [dropped EXCEPT
          !["depth cap"] = @ \union
              (Range(Promoted \o NextInput(t)) \ Range(Requeued(t))),
          !["superseded"] = @ \union Superseded(t)]
    /\ slot' = Nobody
    /\ task' = [task EXCEPT ![t].at = "delivering", ![t].interrupt = <<>>,
                            ![t].copy = <<>>]
    /\ UNCHANGED <<guard, owner, buffer, timer, gen, traffic, script, cmd,
                   arrived, started, signal, cached, echoed>>

\* The handler raised: the slot is released, nothing is drained in-band.
RunFails(t) ==
    /\ task[t].at \in {"setup", "running", "returned"}
    /\ slot' = Nobody
    /\ task' = [task EXCEPT ![t].at = "cleanup", ![t].input = <<>>,
                            ![t].interrupt = <<>>, ![t].copy = <<>>]
    /\ Drop("failed", Range(task[t].input \o task[t].interrupt))
    /\ UNCHANGED <<guard, owner, pending, buffer, timer, overflow, gen,
                   traffic, script, cmd, arrived, started, signal, cached,
                   echoed>>

\* The reply is out.  The in-band drain takes the pending follow-up.
Deliver(t) ==
    /\ task[t].at = "delivering"
    /\ buffer' = FlushedBuffer /\ timer' = FALSE
    /\ pending' = <<>>
    /\ task' = [task EXCEPT
                  ![t].at = IF FlushedPending = <<>> THEN "cleanup" ELSE "handoff",
                  ![t].input = FlushedPending]
    /\ UNCHANGED <<guard, owner, slot, overflow, gen, traffic, script, cmd,
                   arrived, started, dropped, signal, cached, echoed>>

\* Mutant of HandOff: the old task stays the recorded owner.
HandOffKeepingOwner(t) ==
    /\ task[t].at = "handoff"
    /\ NextTask \in TaskIds
    /\ guard' = AdoptedGuard
    /\ task' = [task EXCEPT ![t].at = "cleanup", ![t].input = <<>>,
                            ![NextTask] = NewTask(task[t].input, AdoptedGuard)]
    /\ UNCHANGED <<owner, pending, buffer, timer, slot, overflow, gen, traffic,
                   script, cmd, arrived, started, dropped, signal, cached,
                   echoed>>

\* After _stop_typing_task: a new task owns the session.
HandOff(t) ==
    /\ task[t].at = "handoff"
    /\ NextTask \in TaskIds
    /\ owner' = NextTask /\ guard' = AdoptedGuard
    /\ task' = [task EXCEPT ![t].at = "cleanup", ![t].input = <<>>,
                            ![NextTask] = NewTask(task[t].input, AdoptedGuard)]
    /\ UNCHANGED <<pending, buffer, timer, slot, overflow, gen, traffic, script,
                   cmd, arrived, started, dropped, signal, cached, echoed>>

\* The cancelled handler has unwound: its finally releases the slot.
Unwind(t) ==
    /\ task[t].at = "unwinding"
    /\ slot' = Nobody
    /\ task' = [task EXCEPT ![t].at = "cleanup"]
    /\ UNCHANGED <<guard, owner, pending, buffer, timer, overflow, gen, traffic,
                   script, cmd, arrived, started, dropped, signal, cached,
                   echoed>>

\* Mutants of Cleanup: a message found late is popped although another task
\* owns the session; the guard is released without asking who owns it; the
\* debounce buffer is not flushed.
CleanupDroppingLate(t) ==
    /\ task[t].at = "cleanup"
    /\ buffer' = FlushedBuffer /\ timer' = FALSE /\ pending' = <<>>
    /\ task' = [task EXCEPT ![t].at = "done"]
    /\ owner' = IF owner = t THEN Nobody ELSE owner
    /\ guard' = IF owner = t /\ guard = task[t].gd THEN 0 ELSE guard
    /\ UNCHANGED <<slot, overflow, gen, traffic, script, cmd, arrived, started,
                   dropped, signal, cached, echoed>>
CleanupReleasing(t) ==
    /\ task[t].at = "cleanup" /\ FlushedPending = <<>>
    /\ task' = [task EXCEPT ![t].at = "done"]
    /\ owner' = IF owner = t THEN Nobody ELSE owner
    /\ guard' = IF guard = task[t].gd THEN 0 ELSE guard
    /\ UNCHANGED <<pending, buffer, timer, slot, overflow, gen, traffic, script,
                   cmd, arrived, started, dropped, signal, cached, echoed>>
CleanupWithoutFlush(t) ==
    /\ task[t].at = "cleanup" /\ pending = <<>>
    /\ timer' = FALSE
    /\ task' = [task EXCEPT ![t].at = "done"]
    /\ owner' = IF owner = t THEN Nobody ELSE owner
    /\ guard' = IF owner = t /\ guard = task[t].gd THEN 0 ELSE guard
    /\ UNCHANGED <<pending, buffer, slot, overflow, gen, traffic, script, cmd,
                   arrived, started, dropped, signal, cached, echoed>>

\* The end of the finally block: late-arrival drain, or release.
Cleanup(t) ==
    /\ task[t].at = "cleanup"
    /\ buffer' = FlushedBuffer /\ timer' = FALSE
    /\ \/ /\ FlushedPending # <<>> /\ owner \notin {Nobody, t}
          /\ pending' = FlushedPending
          /\ task' = [task EXCEPT ![t].at = "done"]
          /\ UNCHANGED <<guard, owner>>
       \/ /\ FlushedPending # <<>> /\ owner \in {Nobody, t}
          /\ NextTask \in TaskIds
          /\ pending' = <<>> /\ owner' = NextTask /\ guard' = AdoptedGuard
          /\ task' = [task EXCEPT ![t].at = "done",
                         ![NextTask] = NewTask(FlushedPending, AdoptedGuard)]
       \/ /\ FlushedPending = <<>>
          /\ pending' = <<>>
          /\ task' = [task EXCEPT ![t].at = "done"]
          /\ owner' = IF owner = t THEN Nobody ELSE owner
          /\ guard' = IF owner = t /\ guard = task[t].gd THEN 0 ELSE guard
    /\ UNCHANGED <<slot, overflow, gen, traffic, script, cmd, arrived, started,
                   dropped, signal, cached, echoed>>

----------------------------------------------------------------------------
(* /stop and /new while the session is active:                             *)
(* _dispatch_active_session_command.                                       *)

\* Mutant of CommandArrives: the burst is discarded, its timer is not.
CommandArrivesUntimed ==
    /\ cmd.at = "idle" /\ cmd.done < Len(script)
    /\ guard # 0 /\ ~Stale
    /\ LET g == CommandId(cmd.done + 1)
       IN /\ guard' = g
          /\ cmd' = [cmd EXCEPT !.at = "handling", !.id = g, !.saved = guard,
                                !.done = @ + 1]
    /\ Drop("command", Range(buffer))
    /\ buffer' = <<>>
    /\ UNCHANGED <<owner, pending, timer, slot, overflow, gen, task, traffic,
                   script, arrived, started, signal, cached, echoed>>

\* The command's guard replaces the turn's; the debounce burst is discarded.
CommandArrives ==
    /\ cmd.at = "idle" /\ cmd.done < Len(script)
    /\ guard # 0 /\ ~Stale
    /\ LET g == CommandId(cmd.done + 1)
       IN /\ guard' = g
          /\ cmd' = [cmd EXCEPT !.at = "handling", !.id = g, !.saved = guard,
                                !.done = @ + 1]
    /\ Drop("command", Range(buffer))
    /\ buffer' = <<>> /\ timer' = FALSE
    /\ UNCHANGED <<owner, pending, slot, overflow, gen, task, traffic, script,
                   arrived, started, signal, cached, echoed>>

\* The runner: _interrupt_and_clear_session when a run holds the slot, whose
\* agent is interrupted with a control reason; /new goes on to
\* _handle_reset_command, /stop finds nothing to stop otherwise.
CommandHandled ==
    /\ cmd.at = "handling"
    /\ LET new == script[cmd.done] = "new"
           active == slot # Nobody
           agents == IF active THEN {task[slot].agent} \ {NoAgent} ELSE {}
       IN /\ gen' = gen + (IF active THEN 1 ELSE 0) + (IF new THEN 1 ELSE 0)
          /\ pending' = IF active THEN <<>> ELSE pending
          /\ slot' = Nobody
          /\ overflow' = IF new THEN <<>> ELSE overflow
          /\ signal' = [a \in Agents |-> IF a \in agents THEN Silent ELSE signal[a]]
          /\ cached' = IF new THEN NoAgent ELSE cached
          /\ Drop("command", (IF active THEN Range(pending) ELSE {})
                               \union (IF new THEN Range(overflow) ELSE {})
                               \union UNION {Range(signal[a].interrupt) : a \in agents})
    /\ cmd' = [cmd EXCEPT !.at = "replying"]
    /\ UNCHANGED <<guard, owner, buffer, timer, task, traffic, script, arrived,
                   started, echoed>>

\* Where the cancellation takes a task.
CancelledTo(at) ==
    CASE at \in {"setup", "running", "returned"} -> {"unwinding"}
      [] at \in {"starting", "delivering"} -> {"cleanup"}
      [] at = "cleanup" -> {"cleanup", "done"}
      [] OTHER -> {at}

\* cancel_session_processing after the reply: the owner is forgotten and its
\* task cancelled.  The hand-off swallows a cancellation; so does the cleanup,
\* or it ends there, with nothing drained or released.
CommandCancels ==
    /\ cmd.at = "replying"
    /\ owner' = Nobody
    /\ cmd' = [cmd EXCEPT !.at = "waiting", !.target = owner]
    /\ IF owner # Nobody /\ Live(owner)
       THEN LET at == task[owner].at
                killed == IF at \in {"handoff", "cleanup"} THEN <<>>
                          ELSE task[owner].input \o task[owner].interrupt
            IN /\ \E next \in CancelledTo(at) :
                     task' = [task EXCEPT
                       ![owner].at = next,
                       ![owner].input = IF at = "handoff" THEN @ ELSE <<>>,
                       ![owner].interrupt = <<>>, ![owner].copy = <<>>]
               /\ Drop("command", Range(killed))
       ELSE UNCHANGED <<task, dropped>>
    /\ UNCHANGED <<guard, pending, buffer, timer, slot, overflow, gen, traffic,
                   script, arrived, started, signal, cached, echoed>>

\* The task is gone, or 5 seconds have passed.
TargetDone == cmd.target # Nobody => ~Live(cmd.target)

\* Mutant of CommandDrains: the guard is released, nothing is drained.
CommandReleases ==
    /\ cmd.at = "waiting"
    /\ TargetDone \/ SlowUnwind
    /\ cmd' = [Idle EXCEPT !.done = cmd.done, !.failed = cmd.failed]
    /\ guard' = IF guard = cmd.id THEN 0 ELSE guard
    /\ UNCHANGED <<owner, pending, buffer, timer, slot, overflow, gen, task,
                   traffic, script, arrived, started, dropped, signal, cached,
                   echoed>>

\* _drain_pending_after_session_command.
CommandDrains ==
    /\ cmd.at = "waiting"
    /\ TargetDone \/ SlowUnwind
    /\ cmd' = [Idle EXCEPT !.done = cmd.done, !.failed = cmd.failed]
    /\ buffer' = FlushedBuffer /\ timer' = FALSE
    /\ pending' = <<>>
    /\ IF FlushedPending # <<>>
       THEN StartProcessing(FlushedPending)
       ELSE /\ guard' = IF guard = cmd.id THEN 0 ELSE guard
            /\ UNCHANGED <<owner, task>>
    /\ UNCHANGED <<slot, overflow, gen, traffic, script, arrived, started,
                   dropped, signal, cached, echoed>>

\* The handler or the reply raised: the turn's guard is put back, or the
\* command's released; nothing is drained.
CommandFails ==
    /\ CommandsFail /\ cmd.at \in {"handling", "replying"}
    /\ cmd' = [Idle EXCEPT !.done = cmd.done, !.failed = TRUE]
    /\ guard' = IF guard # cmd.id THEN guard
                ELSE IF owner # Nobody THEN cmd.saved ELSE 0
    /\ UNCHANGED <<owner, pending, buffer, timer, slot, overflow, gen, task,
                   traffic, script, arrived, started, dropped, signal, cached,
                   echoed>>

----------------------------------------------------------------------------

TaskStep(t) ==
    \/ Claim(t) \/ Busy(t) \/ RunStarts(t) \/ LoopEnds(t) \/ RunTimesOut(t)
    \/ FollowUp(t) \/ RunEnds(t) \/ RunFails(t) \/ Deliver(t) \/ HandOff(t)
    \/ Unwind(t) \/ Cleanup(t)

CommandContinues ==
    CommandHandled \/ CommandCancels \/ CommandDrains \/ CommandFails

Next ==
    \/ \E m \in Messages : ReceiveIdle(m) \/ ReceivePhoto(m) \/ ReceiveText(m)
                             \/ ReceiveQueue(m)
    \/ TimerFires
    \/ \E t \in TaskIds : TaskStep(t) \/ Peek(t)
    \/ CommandArrives \/ CommandContinues

Spec == Init /\ [][Next]_vars

\* The event loop runs every task whose await completed, timers fire, and a
\* run ends (the inactivity timeout sees to it); users owe nothing.
FairSpec ==
    /\ Spec
    /\ \A t \in TaskIds : WF_vars(TaskStep(t))
    /\ WF_vars(TimerFires) /\ WF_vars(CommandContinues)

----------------------------------------------------------------------------
(* What the gateway owes the chat.                                         *)

Waiting ==
    Range(pending) \union Range(buffer) \union Range(overflow)
      \union UNION {Range(task[t].input \o task[t].interrupt) : t \in TaskIds}
\* Texts that an agent was interrupted with and no loop has looked at.  After
\* the end of its run such a text is lost with the agent, unless another
\* message makes it run again.
Standing == UNION {Range(signal[a].interrupt) : a \in Agents}
Gone == UNION {dropped[why] : why \in Reasons}
Working(t) == Live(t) /\ task[t].at # "cleanup"
Quiet == cmd.at = "idle" /\ \A t \in TaskIds : ~Live(t)

\* A guard that nobody will release and the self-heal does not recognise,
\* because no owner is recorded.
Trapped == Quiet /\ guard # 0 /\ owner = Nobody

SessionTypeOK ==
    /\ guard \in 0..(MaxTasks + Len(script))
    /\ owner \in TaskIds \union {Nobody} /\ slot \in TaskIds \union {Nobody}
    /\ \A e \in {pending, buffer, overflow} : e \in Seq(Messages)
    /\ timer \in BOOLEAN /\ (timer => buffer # <<>>)
    /\ gen \in Nat
    /\ task \in [TaskIds -> [at: Stages, input: Seq(Messages), gd: Nat,
                             gen: 0..gen, depth: 0..MaxDepth,
                             agent: Agents \union {NoAgent},
                             interrupt: Seq(Messages), copy: Seq(Messages)]]
    /\ signal \in [Agents -> [interrupt: Seq(Messages), copy: Seq(Messages)]]
    /\ cached \in Agents \union {NoAgent}
    /\ arrived \in 0..Len(traffic)

\* A message received is waiting for its turn, stands on an agent as the text it
\* was interrupted with, was given to an agent, or was let go at one of the
\* places where the code lets messages go: no hand-over between slot, buffer,
\* tasks, agents and overflow loses one.
MessagesAccounted ==
    \A m \in 1..arrived :
        m \in Waiting \union Standing \union Range(started) \union Gone

\* No message is given to an agent twice, nor kept after it was, by the in-band
\* drain, the late drain, the run's own dequeue, the interrupt and the
\* command's drain.  What is given twice is the copy of a message's text with
\* which the agent was interrupted as well; without commands, a photo's caption.
AnsweredOnce ==
    /\ IsInjective(started)
    /\ (Waiting \union Standing) \intersect Range(started) = {}
    /\ script = <<>> => \A m \in echoed : traffic[m].kind = "photo"

\* Left alone, the session has at most one task at work, and it is guarded: a
\* follow-up never runs beside the turn that hands over to it.
OneTurnAtATime ==
    script = <<>> =>
        \A t, u \in TaskIds : Working(t) /\ Working(u) => t = u /\ guard # 0

\* Left alone, a session never loses a message to anything but a failed turn,
\* the refusal of a third sender, or the depth cap: no text interrupts a run,
\* so none is overwritten or goes unnoticed.
NothingLostUnprompted ==
    script = <<>> =>
        dropped["command"] \union dropped["superseded"] \union dropped["unnoticed"] = {}

\* Left alone, one sender's texts are answered in the order they were sent,
\* across buffer, slot and hand-overs.
TextsInOrder ==
    script = <<>> =>
        \A i, j \in DOMAIN started :
            LET m == traffic[started[i]]
                n == traffic[started[j]]
            IN m.kind = "text" /\ n.kind = "text" /\ m.from = n.from /\ i < j
                   => started[i] < started[j]

\* When everything has come to rest, a message is still in the slot or the
\* buffer only behind a command that raised or a guard that trapped the
\* session.
NothingStranded ==
    Quiet /\ (pending # <<>> \/ buffer # <<>>) => cmd.failed \/ Trapped

\* Every ordinary message is answered or let go in the end, unless a command
\* raised or trapped the session, or the message is left standing on the agent
\* whose run it came too late for (or the model's tasks are used up).
EveryMessageServed ==
    \A m \in 1..MaxMessages :
        m <= arrived /\ traffic[m].kind # "queue" ~>
            \/ m \in Range(started) \union Gone
            \/ Quiet /\ m \in Standing
            \/ cmd.failed \/ Trapped \/ NextTask \notin TaskIds

=============================================================================
