--------------------------- MODULE ProcessNotices ---------------------------
(***************************************************************************)
(* A background process the agent started with notify_on_complete, and how *)
(* the agent learns that it is over (tools/process_registry.py).  The      *)
(* thread that reads its output, a poll or wait of the agent, and a kill   *)
(* may each find out first; each marks the process, moves it to the        *)
(* finished ones and queues a notice.  The command line drains the queue   *)
(* between turns; in the gateway a watcher task looks every few seconds    *)
(* and the queue is emptied unread.  Either way the notice waits once more,*)
(* behind the command line's input or a turn of the chat, after it was     *)
(* looked up whether the agent still needs it.                             *)
(*                                                                         *)
(* Left out: the output, watch patterns, processes in sandboxes and those  *)
(* recovered after a restart, a process that closes its output and lives.  *)
(***************************************************************************)
EXTENDS Integers

CONSTANTS Callers   \* threads that poll, wait, read the log, kill

ASSUME CallersAssumption == "reader" \notin Callers

VARIABLES
    gateway,    \* this is the gateway, not the command line
    spawning,   \* the terminal tool: untracked, tracked, requested
    alive,      \* the child runs
    exited,     \* session.exited
    running,    \* it is in _running
    finished,   \* it is in _finished
    flag,       \* session.notify_on_complete
    consumed,   \* it is in _completion_consumed
    queue,      \* completion_queue: the notices of this process
    finder,     \* the threads that found out
    first,      \* was_running, of each
    watcher,    \* the gateway's task: none, pending, watching, over
    underway,   \* notices in _pending_input, or in the slot of the session
    told,       \* history: the notices that reached the agent
    read,       \* history: the agent has seen that the process is over
    overtaken,  \* history: it saw that while a notice was underway
    forgotten,  \* history: the process was pruned
    missed,     \* history: it was over before it was tracked, or before the
                \* notice was asked for
    undelivered \* history: the watcher could not deliver, or a command took the
                \* notice out of the slot

noticeVars == <<gateway, spawning, alive, exited, running, finished, flag, consumed,
                queue, finder, first, watcher, underway, told, read, overtaken,
                forgotten, missed, undelivered>>
readVars == <<read, overtaken, forgotten>>
toldVars == <<underway, told, undelivered>>
heardVars == <<toldVars, readVars, missed>>
tableVars == <<running, finished>>
askVars == <<gateway, spawning, flag>>

Finders == Callers \union {"reader"}
Tracked == running \/ finished

NoticeInit ==
    /\ gateway \in BOOLEAN
    /\ spawning = "untracked" /\ alive = TRUE /\ exited = FALSE
    /\ running = FALSE /\ finished = FALSE /\ flag = FALSE /\ consumed = FALSE
    /\ queue = 0 /\ underway = 0 /\ told = 0
    /\ finder = [f \in Finders |-> "idle"]
    /\ first = [f \in Finders |-> FALSE]
    /\ watcher = "none"
    /\ read = FALSE /\ overtaken = FALSE /\ forgotten = FALSE
    /\ missed = FALSE /\ undelivered = FALSE

Goes(f, stage) == finder' = [finder EXCEPT ![f] = stage]

----------------------------------------------------------------------------
(* The start: spawn_local, and the terminal tool after it.                 *)

\* The thread that reads the output is running already.
Track ==
    /\ spawning = "untracked" /\ spawning' = "tracked"
    /\ running' = TRUE
    /\ UNCHANGED <<gateway, flag, alive, exited, finished, consumed, queue, finder,
                   first, watcher, heardVars>>

RequestNotice ==
    /\ spawning = "tracked" /\ spawning' = "requested"
    /\ flag' = TRUE
    /\ watcher' = IF gateway THEN "pending" ELSE watcher
    /\ UNCHANGED <<gateway, alive, exited, tableVars, consumed, queue, finder, first,
                   heardVars>>

ChildEnds ==
    /\ alive /\ alive' = FALSE
    /\ UNCHANGED <<askVars, exited, tableVars, consumed, queue, finder, first, watcher,
                   heardVars>>

----------------------------------------------------------------------------
(* Finding out.                                                            *)

\* The end of the output; the child is reaped.
ReaderEnds ==
    /\ finder["reader"] = "idle" /\ ~alive
    /\ Goes("reader", "marking")
    /\ UNCHANGED <<askVars, alive, exited, tableVars, consumed, queue, first, watcher,
                   heardVars>>

\* _reconcile_local_exit, in poll and wait: the reader may be stuck.
Reconcile(f) ==
    /\ finder[f] = "idle" /\ spawning = "requested" /\ Tracked
    /\ ~exited /\ ~alive
    /\ Goes(f, "reconciling")
    /\ UNCHANGED <<askVars, alive, exited, tableVars, consumed, queue, first, watcher,
                   heardVars>>

\* kill_process.
Kill(f) ==
    /\ finder[f] = "idle" /\ spawning = "requested" /\ Tracked /\ ~exited
    /\ alive' = FALSE
    /\ Goes(f, "marking")
    /\ UNCHANGED <<askVars, exited, tableVars, consumed, queue, first, watcher, heardVars>>

\* A poll goes on to read what it found.
After(f) == IF finder[f] = "queueing" THEN "reading"
            ELSE IF f \in Callers THEN "idle" ELSE "over"

Mark(f) ==
    /\ finder[f] \in {"marking", "reconciling"}
    /\ exited' = TRUE
    /\ Goes(f, IF finder[f] = "marking" THEN "marked" ELSE "moving")
    /\ UNCHANGED <<askVars, alive, tableVars, consumed, queue, first, watcher, heardVars>>

\* _move_to_finished, the part under the lock.
Move(f) ==
    /\ finder[f] \in {"marked", "moving"}
    /\ running' = FALSE /\ finished' = TRUE
    /\ first' = [first EXCEPT ![f] = running]
    /\ missed' = (missed \/ spawning = "untracked")
    /\ Goes(f, IF finder[f] = "marked" THEN "moved" ELSE "queueing")
    /\ UNCHANGED <<askVars, alive, exited, consumed, queue, watcher, toldVars, readVars>>

Announced(f, notice) ==
    /\ finder[f] \in {"moved", "queueing"}
    /\ queue' = IF notice /\ flag THEN queue + 1 ELSE queue
    /\ missed' = (missed \/ (first[f] /\ ~flag))
    /\ Goes(f, After(f))
    /\ UNCHANGED <<askVars, alive, exited, tableVars, consumed, first, watcher, toldVars,
                   readVars>>
\* Mutant of Announce: whoever moves it announces it.
AnnounceAlways(f) == Announced(f, TRUE)
\* Mutant of Announce: only the thread that reads the output does.
AnnounceReader(f) == Announced(f, first[f] /\ f = "reader")
\* The rest of it: only the first to move the process queues the notice.
Announce(f) == Announced(f, first[f])

\* poll, wait, read_log: the end of the process is in the answer.
Read(f) ==
    /\ f \in Callers
    /\ \/ finder[f] = "reading"
       \/ finder[f] = "idle" /\ spawning = "requested" /\ Tracked /\ exited
    /\ Goes(f, "idle")
    /\ read' = TRUE /\ overtaken' = (overtaken \/ underway > 0)
    /\ consumed' = TRUE
    /\ UNCHANGED <<askVars, alive, exited, tableVars, queue, first, watcher, toldVars,
                   forgotten, missed>>

----------------------------------------------------------------------------
(* Telling the agent.                                                      *)

Drained(passed) ==
    /\ queue > 0 /\ queue' = queue - 1
    /\ underway' = IF passed THEN underway + 1 ELSE underway
    /\ UNCHANGED <<askVars, alive, exited, tableVars, consumed, finder, first, watcher,
                   told, undelivered, readVars, missed>>
\* Mutant of Drain: what the agent has read is told again.
DrainAll == Drained(~gateway)
\* drain_notifications, into the input of the command line; the gateway drops
\* the completions.
Drain == Drained(~gateway /\ ~consumed)

\* The end of a turn that went well, of any session: the watchers are started.
Watch ==
    /\ watcher = "pending" /\ watcher' = "watching"
    /\ UNCHANGED <<askVars, alive, exited, tableVars, consumed, queue, finder, first,
                   heardVars>>

\* _run_process_watcher: it ends without a word if the process is gone, or the
\* agent has read of its end.  The notice is handed to the adapter of the chat,
\* or lost: no routing data, no such adapter, or the adapter raises.
Look ==
    /\ watcher = "watching" /\ (exited \/ ~Tracked)
    /\ watcher' = "over"
    /\ IF Tracked /\ ~consumed
       THEN \/ underway' = underway + 1 /\ UNCHANGED undelivered
            \/ undelivered' = TRUE /\ UNCHANGED underway
       ELSE UNCHANGED <<underway, undelivered>>
    /\ UNCHANGED <<askVars, alive, exited, tableVars, consumed, queue, finder, first,
                   told, readVars, missed>>

\* The turn that the notice is the input of.
Hear ==
    /\ underway > 0 /\ underway' = underway - 1
    /\ told' = told + 1
    /\ UNCHANGED <<askVars, alive, exited, tableVars, consumed, queue, finder, first,
                   watcher, undelivered, readVars, missed>>

\* /stop or /new takes what is in the slot.
Discard ==
    /\ gateway /\ underway > 0 /\ underway' = underway - 1
    /\ undelivered' = TRUE
    /\ UNCHANGED <<askVars, alive, exited, tableVars, consumed, queue, finder, first,
                   watcher, told, readVars, missed>>

\* _prune_if_needed, at the start of another process: too many, or this one was
\* started too long ago.
Prune ==
    /\ finished /\ finished' = FALSE
    /\ consumed' = FALSE
    /\ forgotten' = TRUE
    /\ UNCHANGED <<askVars, alive, exited, running, queue, finder, first, watcher, toldVars,
                   read, overtaken, missed>>

----------------------------------------------------------------------------
FinderSteps(f) == Mark(f) \/ Move(f) \/ Announce(f)

NoticeNext ==
    \/ Track \/ RequestNotice \/ ChildEnds \/ ReaderEnds
    \/ \E f \in Callers : Reconcile(f) \/ Kill(f) \/ Read(f)
    \/ \E f \in Finders : FinderSteps(f)
    \/ Drain \/ Watch \/ Look \/ Hear \/ Discard \/ Prune

NoticeSpec == NoticeInit /\ [][NoticeNext]_noticeVars

\* Threads go on with what they began, the command line drains its queue and its
\* input, the watcher looks again, turns come to an end; nobody need poll, the
\* reader may be stuck, and no turn need go well.
NoticeFairness ==
    WF_noticeVars((\E f \in Finders : FinderSteps(f)) \/ Drain \/ Look \/ Hear)

----------------------------------------------------------------------------
NoticeTypeOK ==
    /\ {gateway, alive, exited, running, finished, flag, consumed, read, overtaken,
        forgotten, missed, undelivered} \subseteq BOOLEAN
    /\ spawning \in {"untracked", "tracked", "requested"}
    /\ watcher \in {"none", "pending", "watching", "over"}
    /\ finder \in [Finders -> {"idle", "marking", "reconciling", "marked", "moving",
                               "moved", "queueing", "reading", "over"}]
    /\ first \in [Finders -> BOOLEAN]
    /\ queue \in Nat /\ underway \in Nat /\ told \in Nat

\* One notice, however many threads find out that the process is over, and
\* whichever of the queue and the watcher carries it.
OneNotice == told <= 1

\* The agent is not told what it has read; unless it was read when the notice
\* had passed the check and was underway, or the process was pruned, which
\* forgets that the agent has read of it.
NotToldAgain == [][told' > told => ~read \/ overtaken \/ forgotten]_noticeVars

\* The agent learns that the process is over, whoever found out; unless, for the
\* command line, it was over too soon, or, for the gateway, it was pruned too
\* soon or the watcher could not deliver.  The gateway's promise begins with the
\* watcher, which waits for a turn that goes well.
NoticeArrives ==
    exited /\ flag /\ watcher # "pending"
      ~> told > 0 \/ read \/ IF gateway THEN forgotten \/ undelivered ELSE missed

=============================================================================
