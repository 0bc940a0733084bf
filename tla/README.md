# A TLA+ model of the Hermes agent: its kanban board and its gateway

The repository (`src/`) is an agent program: a loop that talks to a language
model and runs tools, a gateway that connects it to a chat platform, a scheduler
for cron jobs, and a *kanban board* on which agents and humans share work. These
modules model the parts in which several processes, threads or callbacks write
to the same state: the board with its dispatchers, workers and operators and the
notifier that reports from it; a chat session of the gateway, from a message's
arrival to its answer; and five smaller protocols, of approvals, questions,
scheduled jobs, background processes and the compression of a conversation.

- `PROJECT.json` maps each definition to the lines it stands for, names the
  property that each hazard of the code is covered by, lists the runs, the
  mutations that show each property can fail, the disagreements between code
  and comments that the runs exhibit, and the theorems.
- Every module is checked by TLC through an `MC...` module and `.cfg` files, and
  the `...Proofs` modules are checked by TLAPS.

```
tlc -workers 2 -config BoardLifecycle.cfg MCKanbanBoard     # a run
tlapm KanbanBoardProofs.tla                                 # the proofs
```

## 1. Inventory

### 1.1 Kanban

| Part | State it keeps | Operations | Talks to |
|---|---|---|---|
| Board database, `hermes_cli/kanban_db.py` | SQLite tables `tasks`, `task_runs`, `task_links`, `task_events`, subscriptions | create, link, decompose, claim, heartbeat, release, complete, block, unblock, promote, archive, delete, count a failure | everybody below, through `write_txn` (BEGIN IMMEDIATE) |
| Dispatcher, `dispatch_once`, driven by the gateway's watcher (`gateway/run.py`), `hermes kanban daemon`, the dashboard's POST | what it read from rows; exit codes of children it reaped | one tick: lapsed leases, silent workers, crashes, overdue workers, promotion, claim and spawn of what is ready | the board; signals to workers |
| Workers, `tools/kanban_tools.py`, `agent/conversation_loop.py`, `cli.py` | their run id, their claim lock, from the environment | heartbeat, complete, block, exit with one of several codes, give up on an exhausted budget | the board |
| Operators, `hermes_cli/kanban.py`, `plugins/kanban/dashboard/plugin_api.py` | what the CLI or the browser read last | drag a card, claim, complete, block, unblock, promote, reclaim, archive, delete, assign | the board; signals to workers |
| Notifier, in `gateway/run.py` | a cursor per subscription, in the database | claim the events after the cursor, send, rewind on failure, unsubscribe at the end | board, chat platform |
| Helpers: decompose, specify, swarm, diagnostics | none | ask a model, write through the board's transactions | board |

What is hard. Every operation on the board is one or more transactions, and
between two of them anything may happen: the dispatcher reads a row, signals a
process for up to five seconds and then updates the row; a crash is swept in one
transaction and counted in the next; a worker that was given up for dead comes
back with its result; the dispatcher dies between claiming a card and storing the
pid of its worker. Nothing is in memory only, so a restart must recover from any
of these. What makes it correct:

- an attempt (`task_runs` row) that is open is always the one its task points at,
  and a running task has one, otherwise no watchdog finds it again;
- an outcome is written once, by whoever is entitled to it;
- two workers are never at work on one task;
- no attempt starts before the parents are finished, and the graph of parents
  stays acyclic;
- a finished card stays finished; a failing card is given up after the configured
  number of attempts and not before, and stays given up;
- an attempt without a worker ends; a ready card is tried; a child is promoted.

### 1.2 The gateway

| Part | State | Operations | Hard |
|---|---|---|---|
| Message intake, `gateway/platforms/base.py` | per session: the active guard, pending messages, the task that owns the session | a message arrives while a turn runs, is queued, merged, or interrupts; `/stop`, `/new` take the session over; late drain in `finally` | the guard is released and taken again by three different paths; every message is to be answered once |
| Turns, `gateway/run.py` | running agents per session and a run generation | start a turn, stop it, replace it, clear the slot | a stopped turn unwinds after its successor started |
| Delivery and streaming | the message being edited, segments | edits, flood control, final message | the final edit races the stream |
| Process identity, `gateway/status.py` | pid file, scoped lock files, takeover marker | acquire, judge stale, take over | two gateways judge the same stale file |
| Pairing, slash access, hooks, channel directory, configuration | small files | look up, approve | lock-out counters |

### 1.3 Cron

`cron/jobs.py` keeps the jobs file, `cron/scheduler.py` runs what is due. A tick
takes a file lock, advances the next run of each recurring job *before* it runs
(so that a crash repeats nothing), starts jobs in a pool and marks them. Hard: the
set of jobs in flight and the file lock belong to different processes; a repeat
limit, a one-shot job and a crash between advance and mark. Correct when a job
is not run twice for one due time when it recurs (missing a run is preferred to
repeating it), and is run at all when it is a one-shot.

### 1.4 Tools with state of their own

| Part | State | Hard | Correct when |
|---|---|---|---|
| Approvals, `tools/approval.py` | a queue of entries per session, an event per entry | an answer arrives as the wait times out; `/approve` is first in, first out | an answer that reports success reaches its request; each request is answered at most once |
| Clarify, `tools/clarify_gateway.py` | entries by id and by session | the response is written outside the lock | the same |
| Background processes, `tools/process_registry.py` | running and finished tables, completion queue | reader thread, kill and the check of detached sessions all move a session | one completion notice per process |
| Delegation, `tools/delegate_tool.py` | child agents, their time-outs | the parent's interrupt against the child's end | no child outlives its call unnoticed |
| File state, checkpoints | reads and writes per file and agent | a write by another agent between read and write | a stale write is reported |

### 1.5 Agent

| Part | State | Hard |
|---|---|---|
| Conversation loop, `run_agent.py`, `agent/conversation_loop.py` | messages, iteration budget, interrupt flag | fallback, retry and interrupt in one loop |
| Compression, `agent/conversation_compression.py`, `hermes_state.py` | a lock with an expiry per session; the session is rotated | the lock expires while its holder still works |
| Credentials, `agent/credential_pool.py` | status, cool-down and lease count of each credential | rotation while another thread holds a lease |
| Rate guard, provider adapters, prompts, memory, skills, language servers | files and caches | no shared protocol |

### 1.6 The rest

The session store (`hermes_state.py`) is one SQLite file behind a lock. The CLI,
the configuration, authentication, the web server, the MCP bridge, the plugins for
memory and model providers, the trajectory compressor, the news scraper and the
container scripts are user interface, translation between formats, or scripts
without concurrent state. `PROJECT.json` lists them all, with the reason each is left out.

## 2. The modules

```
RunLedger                 abstract: what table task_runs promises
   ^ ImplementsLedger (refinement)
KanbanBoard               every transaction on the board, in any order
   ^ ImplementsBoard (refinement)
KanbanDispatch            dispatchers, workers and operator, step by step

SessionTurns              one chat session: adapter, runner, /stop and /new

Approvals                 consent for a command            }
ClarifyQuestions          questions to the user            }
CronTicks                 one scheduled job                } share no state:
KanbanNotify              one subscription, its gateways   } checked as a sum
ProcessNotices            the end of a background process  } in MCServices
CompressionLock           the lease of a compression       }

MCKanbanBoard, MCKanbanDispatch,
MCSessionTurns, MCServices                instances for TLC
RunLedgerProofs                           a theorem about RunLedger
KanbanBoardProofs, KanbanLinksProofs,
KanbanLedgerProofs                        theorems about KanbanBoard
KanbanDispatchProofs                      theorems about KanbanDispatch, on top of these
SessionTurnsProofs                        theorems about SessionTurns
KanbanNotifyProofs                        theorems about KanbanNotify
ServicesProofs                            theorems about the rest of MCServices
```

### 2.1 KanbanBoard

One action is one transaction. `write_txn` opens it with BEGIN IMMEDIATE, so
SQLite runs one at a time; the WHERE clause of an UPDATE is the guard, and an
UPDATE that matches no row leaves everything as it was.

| Variable | Code |
|---|---|
| `tasks[t].status` | `tasks.status`; `absent` before create_task, `deleted` after delete_task. The column `review` is left out: no code puts a card there |
| `lock`, `expired`, `pid` | `claim_lock`, `claim_expires < now`, `worker_pid` (here: the run a process was spawned for) |
| `hb`, `started` | `last_heartbeat_at` and `started_at`, as far as the watchdogs compare them with now |
| `fails`, `err` | `consecutive_failures`; `last_failure_error`, as far as `_RESPAWN_BLOCKER_RE` tells texts apart |
| `sticky` | `_has_sticky_block`: the last `blocked`/`unblocked` event is `blocked` |
| `run` | `current_run_id`, 0 for NULL |
| `runs` | `task_runs`, by id; `outcome` `open` while `ended_at` is NULL |
| `links` | `task_links` |

Time is abstract. A deadline is a two-valued field; actions of the clock
(`LeaseLapses`, `HeartbeatAges`, `GraceEnds`, `RunAges`) flip it at any moment, and the writes of the
code reset it exactly where the code does: `claim_task`, for instance, does not reset
`last_heartbeat_at`, and neither does the model.

What a caller read before it opened the transaction (a lock, a run id, a list of
parents) is a parameter of the action. `BoardSpec` leaves it open, so its
properties hold however stale a read is. That is what makes it the right
module to prove about, and `ImplementsBoard` is what carries the results over to the
processes that really run.

### 2.2 KanbanDispatch

A tick of the dispatcher, a tool call of a worker and a verb of the operator are several
transactions, reads and signals. Each process has an *agenda*, the list of jobs its
current call has still to do, and a job carries what the call has already read. One
step does one job. A process that dies loses its agenda.

| Variable | Code |
|---|---|
| `life[d]` | a dispatcher process: not yet started, up, dead. A restart is a new element, since the claim lock holds the pid |
| `worker[r]` | the process spawned for run r: not started, `working`, `done` (has said its last word, not yet gone), or how it exited; its parent; whether the parent has reaped it and so knows the exit code |
| `agenda[p]` | the program counter and the locals of process p |

The order of a tick is the order in `dispatch_once`: reap, leases, (heartbeats),
crashes, overdue, promotion, scan of the ready column. Each watchdog lists the rows
first, then for each row kills and updates, as the code does. `RecordFailure` is the
board's `_record_task_failure`, with the limit each caller really passes: the dispatcher's
configured one for a failing spawn, the default for a crash or a time-out, 1 for a clean exit
without a verdict or for three crashes of one kind in a sweep.

`Mishaps` and `Verbs` say what happens in an instance, so that one run can look at one
group of hazards without paying for all.

### 2.3 RunLedger

What `task_runs` is for, without claims, leases, pids and statuses: an attempt is started
for a task that has none open, is closed once, may be recorded after the fact, and is
erased with its task only.

### 2.4 SessionTurns

One session of the gateway. Adapter (`gateway/platforms/base.py`) and runner
(`gateway/run.py`) run on one event loop, so a step is what the code does between two
awaits, and the interleavings are those of tasks, updates, timers and commands at these
awaits. Reads that are used after an await (the owner a command cancels, the guard it saved)
are kept in the task or the command.

| Variable | Code |
|---|---|
| `guard`, `owner` | `_active_sessions`, by the task or command whose Event it is, and `_session_tasks` |
| `pending`, `buffer`, `timer` | the pending slot, the text debounce and its flush task |
| `slot`, `gen`, `overflow` | `_running_agents`, `_session_run_generation`, `_queued_events` of the runner |
| `task[t]` | `_process_message_background`: where it is, its event, the guard it adopted, its generation, how deep in follow-ups, the agent of its run, the interrupt in the result |
| `signal[a]`, `cached` | `_interrupt_message` of an agent, which outlives its runs, and the agent in `_agent_cache` |
| `cmd`, `script` | the `/stop` or `/new` being dispatched, those still to come |
| `traffic`, `arrived` | the messages of the scenario, how many have come in |
| `started`, `echoed`, `dropped` | history: what agents were run on, in order; what was run once more from a copy; what was let go, and where |

`Merged`, `CanFlush` and `NextInput` are the three places where a message changes hands:
`merge_pending_message_event`, `_flush_text_debounce_now` and the runner's dequeue with the promotion
of the overflow. `Cleanup` is the last part of the `finally`, `CommandArrives` to `CommandDrains` are
`_dispatch_active_session_command`. The configuration is the default one: busy text is queued, other busy
input interrupts.

An interrupt is a text put on an agent (`AIAgent.interrupt`), which replaces the one before. `Busy` puts a message there and nowhere else
(`interrupt`); `ReceivePhoto`, with the caption, and `Peek`, the monitor of the run, put it there beside the slot (`copy`). `LoopEnds` is the end of `run_conversation`:
the text goes into the result if the loop has seen it, and is forgotten otherwise. `NextInput` takes it from the result only when nothing was queued. What is
set after `LoopEnds` stays on the agent, where `RunStarts` or `FollowUp` finds it again if they use the cached agent (`AgentOf`).

### 2.5 Approvals and ClarifyQuestions

Agent threads wait; the event loop answers. A queue or a table is changed under a lock, the answer is written and the
event set *after* it, so taking an entry out and telling its thread are two steps (`Resolve` and `Tell`, `Press` or `Type` and `Land`).
The wait looks at its deadline before the event (`TimesOut`, `GivesUp`), which is where an answer can be lost.

| Variable | Code |
|---|---|
| `waiting`, `ticket` | `_gateway_queues[session]` and its order |
| `notifier`, `turn` | the callback registered for the session, and by whom |
| `asker[r]`, `result`, `event`, `telling` | the thread, the entry, the entry as a local variable of `resolve_gateway_approval` |
| `remembered` | `_session_approved` |
| `open`, `place`, `typing`, `response`, `raised` | the clarify entries, the session's index, `awaiting_text`, the answer, the event |
| `buttons`, `landing`, `cancelling` | the adapter's buttons; what `resolve_gateway_clarify` and `clear_session` looked up and have still to write |

### 2.6 CronTicks

One job; `ticker[p]` is the program counter of `tick` in a process, `run[p]` that of the job's worker thread, `io[p]` the jobs an
operation has loaded under `_jobs_file_lock`. That lock is a lock of threads, so `io` is per process and two processes may
hold one each; an edit (`edit`) takes none. `tickLock` is the `flock`, `inFlight[p]` is `_running_job_ids`. A crash empties everything that is in memory.
`torn` records that a write replaced what somebody else had written since the load.

### 2.7 KanbanNotify

One row of `kanban_notify_subs`, and several gateways that poll it. `claim[g]` is a delivery in the hands of a gateway: its old and new cursor and the
next event to send. Claim, status read, each send, and advance, rewind or unsubscribe are one step each. `again` and `lost` record
where the code gives up "once" and "at all": a rewind after some events of the batch were sent, or a cursor moved back by a slower
gateway; a gateway that dies with a claim, a rewind refused by its compare-and-set, an unsubscription on a status newer than the claim.

### 2.8 ProcessNotices

A process started with `notify_on_complete`. `finder[f]` is the thread that found out: `reader` is `_reader_loop`, the others poll, wait, read the log or kill. Marking
`exited`, moving the session between the tables and queueing the notice are three steps; `first[f]` is the local `was_running`. `watcher` is
`_run_process_watcher` of the gateway, `consumed` is `_completion_consumed`, `Prune` is `_prune_if_needed`.

`Drain` and `Look` ask whether the agent has read the result, and send the notice on its way (`underway`): into `_pending_input` of the command line, or to the adapter
of the chat, where it may wait in the slot behind a turn. `Hear` is the turn that tells of it, later. `Look` may also fail to deliver, and a command may take the
notice out of the slot (`Discard`): `undelivered` records both, `overtaken` that the agent read the result while the notice was underway.

### 2.9 CompressionLock

Rows of `compression_locks` (`holder`, `expired`) and the processes that share a session id: the agent of the turn, and others that resumed the session by an id
(`Resumes`), which may be one that a compression has ended (`resolve_resume_session_id` follows the chain only from a session without messages). `lockSid` is the
local `_lock_sid`, so that the release goes to the old id. `outlived` records whose lease has run out while it worked. The fork that reviews in the background
is not one of them: it is built without a database (background_review.py:402), and so takes no lock and rotates nothing.

### 2.10 MCServices

The six modules of 2.5 to 2.9 do not share a variable, and in the code they meet only through data that no property tells apart. `MCServices` is
their disjoint sum: `part` is chosen at the start and only its variables move, so one run explores each protocol completely without the product of
their states. A property of one part is trivially true in the behaviours of the others, which is harmless, and the fairness of a part speaks only of actions that are
disabled elsewhere (for the ticks, which could always go on, it says `part = "cron"`).

## 3. What the runs check

| Run | Instance | Properties |
|---|---|---|
| `BoardLifecycle` | 1 task, 2 claimers, 2 runs, all verbs but links, from an empty board | `TypeOK`, `RunPointers`, `ImplementsLedger` |
| `BoardLinks` | 3 tasks, all verbs that touch links, statuses and claims | `Acyclic`, `NoEarlyStart` |
| `DispatchSingle` | 1 task, 1 dispatcher that stays up, 3 attempts, workers hang, fail, are throttled, leave silently; all watchdogs | `DispatchTypeOK`, `OneWorkerPerTask`, `BoundedFailures`, `ClaimOnlyWhileRunning` |
| `DispatchRace` | 1 task, 2 dispatchers at once that may die anywhere, a closing human, failing, overdue and exhausted workers | `OwnOutcome`, `DoneIsFinal` |
| `DispatchOperator` | 1 task, dispatcher and operator with every verb | `ImplementsBoard` |
| `DispatchLive` | parent and child, a dispatcher that dies and its replacement, workers that exit with errors, comments that name a pull request | `DeadAttemptsEnd`, `ReadyIsTried`, `ChildrenFollow` |
| `SessionTurns` | ten scenarios of up to 4 messages (3 senders; texts, photos, `/queue`) and up to two of `/stop`, `/new`; 4 tasks; follow-ups one deep; commands and runs that raise | `SessionTypeOK`, `MessagesAccounted`, `AnsweredOnce`, `OneTurnAtATime`, `NothingLostUnprompted`, `TextsInOrder`, `NothingStranded`, `EveryMessageServed` |
| `Services`, approvals | 2 requests of one pattern, 2 turns | `ConsentGiven`, `NoOrphanRequests`, `OneAnswerEach`, `EveryAskEnds` |
| `Services`, questions | 2 questions, one without choices | `OpenQuestionsAwaited` |
| `Services`, cron | a one-shot or recurring job, a gateway and a manual tick, 1 edit, 1 crash, 3 units of time | `AtMostOnce`, `OneShotRuns`, `InFlightEnds` |
| `Services`, notifier | 2 gateways, 2 events, 3 failures, 1 death | `NothingSkipped`, `SentOnce`, `EveryEventTold` |
| `Services`, processes | gateway or command line, reader and 2 callers | `OneNotice`, `NotToldAgain`, `NoticeArrives` |
| `Services`, compression | 3 agents, 2 session ids | `OneCompressorAtATime`, `CompressionNotBlocked` |
| `QuotaForever` | 1 task, throttled workers | finds `ReadyIsTried` violated |
| `BreakerBounce` | 1 task, workers that exit cleanly without a verdict | finds `BreakerAgrees` violated |
| `LockLeftBehind` | 1 task, dispatcher, a human who claims | finds `ClaimOnlyWhileRunning` violated |
| `ForeignTurn` | 1 task, dispatcher that dies and its replacement, workers that exhaust their budget | finds `OwnTurn` violated |

`ServicesTypeOK` is the type invariant of all six parts. What each property says is in the comment above it. The four disagreements that a run exhibits:

- **QuotaForever.** `check_respawn_guard` recognises the quota text it stamped only while
  the latest ended run is `rate_limited`. When a later attempt ends as `reclaimed`, which
  happens when its lease lapses before the crash sweep of the same tick, the text is taken for
  an error that needs a human and the card is deferred on every tick, for ever; no failure
  is counted, so it never blocks either.
- **BreakerBounce.** A clean exit without a verdict gives the card up at once, with
  one failure counted. `recompute_ready`, later in the same tick, compares one failure with its limit of two
  and puts the card back into ready.
- **LockLeftBehind.** A crash is counted in a transaction after the sweep that released the card. If a human claims the card
  in between, the count blocks a running card and leaves its lock on it. (Claimed by a second dispatcher, which no run
  exhibits, the card would keep the pid of a worker as well, which goes on.)
- **ForeignTurn.** `conversation_loop.py` reports an exhausted budget by task id alone. A worker that was given up
  for dead so ends the attempt of its successor. Completing and blocking pass the run id and are safe (`OwnOutcome`).

Other places where the code parts from a comment, a help text or an evident intention, without a run of their own. Most were
met as counterexamples of an earlier or stronger property and can be had again by a small change of a configuration or of a property; what
the model abstracts from (the button of an approval, the result of `adapter.send`) was met in reading.

The board:

- a card created with `initial_status="blocked"` for a human gets no `blocked` event and is promoted by the next
  `recompute_ready` (kanban_db.py:2204 against the help in kanban.py:361);
- a card whose spawn failed with an authentication error is deferred before every claim, so its failures are never
  counted again, although the comment at kanban_db.py:6189 says it will block in the end;
- `kanban.failure_limit` does not reach the count of a crash or a time-out, which use the default of 2 (kanban_db.py:5553, 5227; config.py:2010 says otherwise): with a limit
  of 1 a card is attempted again after a crash (BreakerBounce with `FailureLimit = 1`, `Mishaps = {"error"}` and the invariant `BoundedFailures` shows it), with
  a larger one it is blocked at two and promoted again. Met as the hypothesis that the proof of `FailuresBounded` could not do without;
- a worker renews the lease of its successor, since the claim lock is the dispatcher's `host:pid` (kanban_db.py:3173);
- `promote --force` past an unfinished parent is undone by the next claim;
- `detect_stale_running` and `enforce_max_runtime` kill the worker they read and update by status alone (kanban_db.py:5312, 5198): if another dispatcher has
  claimed the card meanwhile, its new attempt is ended.

A chat session:

- A message that lands while `/stop` or `/new` is handled is found by the late drain of the old task (base.py:4533), whose new
  task adopts the command's guard; the command then releases that guard (base.py:3735, 4396). The turn goes on unguarded, so two may run
  at once; or the guard stays with no owner, which the self-heal does not recognise (base.py:3582), until the next command.
- At the depth cap the follow-up is written over the `/queue` item just promoted (run.py:18870 against 2844), and an
  interrupt text is lost: the fallback asks for an adapter's `queue_message`, which none has.
- `/queue` is not first in, first out: the adapter's own drains do not promote the overflow, so a later item overtakes
  it and the overflow can be left behind; `/stop` does not clear it.
- A command that raises releases the guard and leaves what was pending until the next message.
- A stopped run may take a follow-up and be cancelled with it; its unconditional release (run.py:8417) clears the slot of its successor, against the docstring at 16195.
- A text of a third sender can be refused by `_queue_text_debounce`.
- The text of an interrupt that comes as the run ends is lost: the loop clears it without having looked at it (conversation_loop.py:4830). The comment at run.py:18487
  takes care that this does not happen to what is in the slot; a message that `Busy` puts on the agent is in no slot. It is lost as well when something was queued (run.py:18806), and when a later interrupt replaces it.
- An interrupt that comes after that is kept by the cached agent: its next run, on another message, is cut short, and the text is answered after it or not at all
  (conversation_loop.py:753 preserves it on purpose, for an interrupt that comes before the run). A message sent just after `/stop` can be cut off by the control reason in the same way.
- The caption of a photo interrupts the agent and stays in the slot as well (run.py:3471, 3487). When the slot is served first, the caption breaks off the run on its own photo, or is
  run on once more without it; when `/stop` empties the slot the caption alone may still be answered.

Approvals and questions:

- a press on the button of one request answers the oldest one (telegram.py:3290);
- the end of an old turn takes the callback of its successor with it, and wakes its requests unanswered;
- a "session" answer given before `/new` may be stored after it (run.py:9976);
- an answer popped as the wait times out is reported as given, and the command is blocked;
- an answer to a question that was looked up just before the wait times out is acknowledged, and neither used nor run on as a message; a second answer overwrites the first; a question that cannot be sent clears those that could; a press after the expiry is acknowledged.

Cron:

- `update_job` and `remove_job` take no lock (jobs.py:770, 888), so a pause or a removal can be undone, and an advance too, which repeats an occurrence against the docstring at 983;
- the gateway's tick frees the file lock before its jobs end (scheduler.py:2211), so a manual tick can run the same one-shot next to it;
- a one-shot resumed too late stays enabled without ever running.

The notifier:

- `advance_notify_cursor` is unconditional: of two gateways the slower one moves the cursor back, and events are repeated; a rewind refused by its
  compare-and-set loses them;
- the status is read after the claim: a task that is completed in between is unsubscribed from before its completion is told (run.py:5364, 5551);
- a batch whose later event keeps failing is sent again from its start for ever, since each success resets the count of failures;
- a gateway that dies with a claim in hand loses what it had not sent;
- a card that is reopened after its completion was told has no subscription any more, and its next failure is told to nobody (run.py:5551);
- `adapter.send` may answer `success=False`, which is not looked at.

Background processes:

- the reader thread is started before the process is tracked (process_registry.py:622): a quick one stays in `_running` for ever, unannounced;
- the notice is asked for after the spawn (terminal_tool.py:2221): in the command line a quick one is not announced;
- pruning goes by the start of a process, so one that ran for more than half an hour is pruned at the next spawn and the gateway's watcher ends without a word; pruning forgets that the agent has read the result;
- whether the agent still needs a notice is asked before it waits in the command line's input (cli.py:15213) or behind a turn of the chat (run.py:15925): a turn that reads the result meanwhile is told of it afterwards;
- the watcher tries once: without routing data or an adapter, when the adapter raises (run.py:15899 to 15931), or when `/stop` takes the notice out of the slot, nobody is told; and it is not
  started before some turn ends well (run.py:9490).

Compression:

- a process that resumed the old session id, which it may do as long as that session has messages (hermes_state.py:2373), takes the lock of that id once it is free and rotates the
  ended session again;
- a lease is not renewed; an exception after the summary leaves the lock until it expires; a failing `create_session` leaves the agent under an id that no row has.

### What does not hold, and why the instances are as they are

`OneWorkerPerTask` and `BoundedFailures` are properties of one dispatcher that stays up. If it
dies between spawn and `_set_worker_pid` its worker is unknown to the successor, which takes the claim for one without a
pid and starts a second worker; no failure is counted for it. With two dispatchers a lease check of one can kill what the other
started. `ClaimOnlyWhileRunning` also fails for two dispatchers, for the reason of LockLeftBehind. `DispatchRace`
therefore checks what must, and does, survive these: no outcome for another's attempt, and no verdict on a finished card.

`DoneIsFinal` is about the engine: `Verbs` of that run has no drag, by which a human may reopen a card.

In `SessionTurns`, `OneTurnAtATime`, `NothingLostUnprompted` and `TextsInOrder` are about sessions without a command, for the reasons
above; `MessagesAccounted` and `AnsweredOnce` hold with commands too. `EveryMessageServed` and `NothingStranded` except a command that raised
and a trapped guard, and the former is not claimed for `/queue` items, nor for a text that stands on an agent without a run (`Standing`), which the code keeps until that agent runs again, or for ever. In `Services`, what the histories `torn`, `again`, `lost`, `missed`,
`overtaken`, `undelivered`, `forgotten` and `outlived` record is excepted; each is set by one named step of the code, listed above or in the module.

### Bounds

| Bound | Where | Why it is enough |
|---|---|---|
| `Tasks` | 1 for the life of a card, 2 for a chain, 3 for the graph | transactions on one card read no other card except through links; a cycle that a direct check would miss has three nodes |
| `MaxRuns` | 2, 3 where attempts are counted | a successor to confuse with its predecessor, and one more than the limit allows |
| `MaxFails` | limit or limit + 1 | the breaker trips within it |
| `Dispatchers`, `Concurrent` | two, alive together or one after the other | one to act on what the other read |
| `FailureLimit` | 2 (the default); 3 in BoardLifecycle, so that both limits differ | below the default `BoundedFailures` is false, see above |
| `Scenarios`, `MaxTasks`, `MaxDepth` | SessionTurns: four messages, four tasks, one follow-up in a run | a message being served, one in the slot, one in the buffer, one to collide with them; the third sender, the photo that overtakes a text and a depth cap that is reached are there by construction of the scenarios |
| `Requests`, `ApprovalTurns`, `Questions` | 2 | first in, first out has an older and a younger; an old turn ends while the new one asks |
| `MaxTime`, `Period`, `Grace` | 3, 2, 1 | a first occurrence in time, late within the grace, and too late |
| `MaxEdits`, `MaxCrashes`, `MaxGatewayDeaths` | 1 | one to meet every state; the history excepts what several would add |
| `Gateways`, `MaxEvents` | 2 and 2 | one behind the other by a batch. `NothingSkipped` and `SentOnce` were also explored with 3 gateways and 3 events without deaths (771 thousand states, exhaustive) and with 5 and 6 by simulation |
| `Callers`, `Agents`, `Sessions` | 2; 3 and 2 | two finders besides the reader; processes that resumed the old id and the new one, a rotated session |

In `SessionTurns` and `Services` the deadlock check is off: the traffic, the edits and the events are finite, and a
session or a protocol at rest is no error. `NothingStranded` says what a session at rest may look like.

In `BoardLifecycle` and `BoardLinks` claims stop at `MaxRuns`, everything else goes on. No run
of the board disables the deadlock check: the clock, the ticks and the operator always have something to do.

### Fairness

`FairSpec` assumes that a dispatcher that is up does its next step (the watcher loops,
`gateway/run.py` `_kanban_dispatcher_watcher`, and a failing tick is logged and repeated), that a new dispatcher comes up after one died (a
supervisor restarts the gateway), and that clocks advance: leases lapse, the crash grace ends,
runs age. Comments that name a pull request may come and age at any time, but nobody writes one on the same card day after day: a card that is considered
again and again is some time considered without one (strong fairness of `ConsiderUnlinked`). It assumes nothing of the operator and nothing of workers: one may work for ever, or stop at any point of a call.
The last incarnation of the dispatcher does not die (`Die` asks for a successor), which is the assumption that crashes are finitely many.

`SessionTurns`: the event loop runs every task whose await has completed, a run ends (the inactivity time-out of the gateway sees to it), timers fire,
and a command that was begun is carried through. Users owe nothing. `Services`:

- a thread that waits for consent wakes up every second and ends at its deadline; nobody need answer;
- the gateway's ticker ticks for ever, and as it sleeps between ticks, the steps of a run find the lock of the jobs file free again and again (strong fairness); manual ticks need not begin, but go on;
- gateways poll; a message that is tried again and again gets through some time or its chat is dropped (strong fairness of `Sends`);
- threads go on with what they began, the command line drains its queue, a watcher that was started looks again, turns come to an end; the reader may be stuck on a pipe for ever, and no turn need end well, so a watcher need not be started;
- time passes, so leases expire; the agent of the turn asks for its lock on every turn while the context is full, so it finds it free if it is free again and again. No holder need ever release it.

## 4. What is proved

Every safety property of the passing runs is a theorem, of the specification without fairness and
for every value of the constants that satisfies the assumption of its module.

### The board

But for `LedgerOneOpen`, these theorems are about `BoardSpec`, for any number of tasks, claimers, runs and failures and any set of verbs, from the
assumptions `BoardAssumption` (locks differ from NULL, limits are numbers, initial links are between initial tasks) and
`LinksAssumption` (the initial links are acyclic).

| Theorem | Says |
|---|---|
| `BoardSound` | `Sound` is an invariant |
| `BoardTypes` | `TypeOK` is an invariant |
| `BoardRunPointers` | `RunPointers` is an invariant: no open attempt is ever lost from its task |
| `BoardAcyclic` | `Acyclic` is an invariant |
| `BoardImplementsLedger` | `ImplementsLedger`: every transaction is a step of `RunLedger` or leaves the ledger alone |
| `BoardOneOpenAttempt` | at most one attempt of a task is open |
| `LedgerOneOpen` | the same of any system that follows `RunLedger`, from the ledger's actions alone |
| `EarlyStartImpossible` | `NoEarlyStart`: no transaction starts an attempt under an unfinished parent |

`Sound == TypeOK /\ RunPointers /\ AbsentIsIdle` is inductive. `RunPointers` alone is
not: creating a task writes a fresh row, which would lose an attempt if a task that does not exist yet could have one;
`AbsentIsIdle` excludes that. The three parts of `RunPointers` need each other: `RunBelongsToTask` is what
makes `_end_run` close the attempt of this task and no other, and
`OpenRunIsCurrent` is why closing the current one closes them all. The proof has one lemma per transaction; two lemmas carry most of
them, about ending the current run and about rows that change nothing but harmless columns.

`WellLinked == Sound /\ Acyclic /\ LinksOfCreated` is inductive. `Acyclic` is stated over sets (every non-empty set of tasks has a
member without a parent in it), because tlapm has no induction over paths; adding `p -> c` when some set closed under
children contains c and not p keeps it. `LinksOfCreated` says that links are between tasks that were created, so a new task is a
sink and a decomposed task gets parents that have none.

`BoardImplementsLedger` needs `Sound` at every step. `RunLedger` speaks of all open attempts of a task, the code of
the one `current_run_id` points at, and `RunPointers` makes them the same: when a claim appends a run, no other run of the task is left
open; when a completion is recorded for a task without a current run, none is open. Most transactions are shown to leave the runs alone or
to close some of them with a verdict (`Closing`), which is one step of the ledger.

`KanbanLinksProofs` also says, once for all transactions (`StepStatus`), how a status may change: only a claim makes a card run, a running
card keeps its claim, only `archive`, `move` and `delete` take a card out of `done`. The next module rests on it.

### The dispatcher, its workers and the operator

About `Spec` of `KanbanDispatch`, for any number of dispatchers (one after the other or at once), tasks, runs and failures, from `DispatchAssumption`:
claimers are the dispatchers and the operator, none of whom is a run; the tasks are finitely many; an instance has all the transactions of dispatcher and worker, at most the
heartbeat left out; who may drag a card to `ready` may unblock it (a drag does both).

| Theorem | Says | If |
|---|---|---|
| `DispatchTypes` | `DispatchTypeOK`: each process is where its code can be | |
| `DispatchIsBoard` | `ImplementsBoard`: every step is a transaction of the board or leaves it alone | |
| `OutcomeIsOwn` | `OwnOutcome`: no worker ends its successor's attempt | |
| `DoneStays` | `DoneIsFinal` | no archiving, dragging or deleting, the three verbs for taking a card out of `done` |
| `LocksFollowClaims` | `ClaimOnlyWhileRunning` | one dispatcher at a time, no human who claims cards |
| `WorkersAlone` | `OneWorkerPerTask` | one dispatcher at a time that does not die in a call, no human who takes a card from its worker |
| `FailuresBounded` | `BoundedFailures` | one dispatcher at a time that does not die in a call, no operator, no task limit of 0, no `failure_limit` below the default where it decides |

The conditions are those under which the property is true: section 3 says what happens without them, and LockLeftBehind shows it for one. They are hypotheses of the theorem, not
assumptions of the module, so the runs and the other theorems are not bound by them.

`Dispatched` is the inductive invariant behind all seven. It joins `Sound` (and that a running card is claimed and a row that is gone has no run) to the types of
the agendas: neither is inductive without the other. A job is built from what a row held, so it is well typed because the board is sound; and
it is the argument of a later transaction, so the step is one of the board's because the job is well typed. For example
`ReclaimTask` compares a lock, which must be a claimer's and not NULL: it is, because the operator read it from a running card, and those are
claimed. With `DispatchIsBoard` all theorems about the board hold of the processes.

`OutcomeIsOwn` needs `DoneIsClosed`, that a worker which has said its last word has no open attempt. A worker passes its run id
with `complete` and `block`, and the board ends that attempt or none.

The other three speak of what a dispatcher has read and uses several steps later. `Phased` says how its agenda looks: the sweeps come first, then the claims; the second half of a
check or of a claim is always the next job. `Serial` adds that a failure waiting to be counted belongs to a card whose claim was undone, which is why
`_record_task_failure` cannot leave a lock on a card that does not run. `Solo` follows each worker: it works on the card that names its run, and the row has its pid or the
dispatcher is about to write it. It gives each job what it relies on (`SoloJob`): a row listed by a watchdog has, if it still runs, the pid that was read; nobody works on a card
whose claim is about to be taken back, whose failure is about to be counted, or for which a worker is about to be spawned.

`Breaker` adds a balance to `Solo`: the failed attempts of a card are at most the failures counted on it, plus one if a failure still waits in the dispatcher's list (`Owed`), and what
is counted is below the limit as long as the card may be tried. It works because a card whose failure waits is `ready` with no attempt open, and the dispatcher counts before it claims, so a second one cannot
join the first; a card waits only once (`Once`); a failed spawn is counted at once, while its attempt is open and has no worker (`Starts`); and the
counter is cleared only of a card that its worker has completed (`Ends`). The bound on attempts does not follow from the bound on the counter alone: a
verdict that was recorded and not counted, or a counter cleared by a stale worker, would leave the counter right and the number of attempts wrong.

### The chat session

About `Spec` of `SessionTurns`, from `SessionAssumption`, for any set of scenarios (traffic and commands), any number of tasks and any depth of follow-ups. The last three say `script = <<>> =>` themselves.

| Theorem | Says |
|---|---|
| `SessionTypes` | `SessionTypeOK` |
| `AccountedTheorem` | `MessagesAccounted`: no hand-over loses a message; the text of an interrupt may be let go, or stand on an agent that does not run |
| `AnsweredTheorem` | `AnsweredOnce`: none is answered twice or kept after it was answered, but for the copy of its text that an agent was interrupted with; without commands only photos have one |
| `StrandedTheorem` | `NothingStranded`: at rest, slot and buffer are empty, but for a command that raised and a trapped guard |
| `OneTurnTheorem` | `OneTurnAtATime`: without commands at most one task works, and it is guarded |
| `NothingLostTheorem` | `NothingLostUnprompted`: without commands no message is lost to a command or to a newer turn |
| `InOrderTheorem` | `TextsInOrder`: without commands one sender's texts are answered in order |

The invariant has five layers, each resting on some of those before it.

`Basics`: types, and facts about the tasks that every handler needs. Tasks are numbered in the order of their creation; a task has input only until the agent has it, or when it hands
a follow-up over, and holds an interrupt only between the end of its run and what comes next; the owner is a live task.

`Placed`: a message is in exactly one place, and every one that arrived is in one. `Contents` turns the slot, the burst buffer, the overflow, what agents were run on, what each agent was interrupted with, and each task's input and
interruption into one function from places to sequences, and every handler into few kinds of change: pour a place into another, add a message, take the
first, drop. One lemma per kind keeps `Distinct` and the account; a lemma per handler says which kinds it is made of. So the
proof is about the places where the code moves a message, and a handler that
wrote a message to two of them, or to none, would not fit. `MessagesAccounted` and `AnsweredOnce` follow.

`ByItself`, if there are no commands: only the owner works, the guard is there exactly while there is an owner and is its own, the runner's slot is taken only in a run, no text interrupts a run, and nothing waits
behind an idle guard. `OneTurnAtATime` alone is not inductive: `Cleanup` starts a task for a late message, and only `GuardIsOwners` says that the one that ends is the last to hold the guard.

`LinedUp`, if there are no commands: along the agents, the owner's input, the slot and the burst buffer, the texts of a sender come in the order of their arrival, within each place and from one to the next. It also says that the
overflow has only `/queue` items (which are promoted past the slot and so could overtake) and the buffer only one sender, which is why its flush may be merged at once.

`Copied`, if there are no commands: what an agent or a result holds as a copy, and what was run on from one, are photos.

`NothingStranded` needs `Basics` only: it looks at the step that brings a session to rest, which is the end of a task or of a command.

### The other protocols

Each from the assumption in its module, for any number of requests, questions, turns, agents, sessions, gateways, events, threads and callers.

| Theorem | Says | Inductive invariant |
|---|---|---|
| `ConsentTheorem`, `NoOrphansTheorem`, `OneAnswerTheorem` | a command goes ahead only on the user's yes; the queue holds nobody who has left; an answer is not taken back | `ApprovalsInv` |
| `OpenQuestionsAwaitedTheorem` | a question that can still be found has a thread on its way to the answer | `ClarifyInv` |
| `AtMostOnceTheorem` | a due time of a recurring job is served once | `CronInv` |
| `SentOnceTheorem` | an event is sent twice only after it was put back | `AtOnePlace` |
| `NothingSkippedTheorem` | the cursor passes over no event, but in the ways `lost` lists | `SkipInv` |
| `OneNoticeTheorem`, `NotToldAgainTheorem` | one notice per process; what was read is not told, but for a notice already underway | `NoticeOnce`, `ToldOnce`, `ReadConsumed`, `PassedUnread` |
| `OneCompressorTheorem` | two agents at work on a session: one has outlived its lease | `HoldsWhileWorking`: who works and has not outlived its lease holds the lock, unexpired |
| `ServicesTypes` | `ServicesTypeOK`: all of them, side by side, are well typed | `ServicesInv` |

`ConsentGiven` alone is not inductive: a thread wakes on its event and reads its result later. `ApprovalsInv` follows a yes from the user to the
thread: a request that is queued or about to be has been told nothing (`Unanswered`), so nobody can be told twice; a yes on its way is the one the user gave (`YesGranted`); once
the event is set nobody writes any more (`Settled`); what is remembered for the session was granted to a request of that pattern (`RememberedGranted`).

`CronInv` counts a due time as a token (`OneToken`): it is the next time of the job, or is with the tick that took it and has not moved the job on, or with the one that
is about to serve it, or was served; never two of these. While the job still says `next = d` a tick that has selected d shares the token with it, for
advancing moves both; that it is not selected by another meanwhile is what the tick lock is for (`TickHoldsLock`). `FutureUnserved` is why a later
due time has its token unspent. An edit that writes an old record over a newer one would duplicate the token: this is what `torn` excepts.

`AtOnePlace` says that an event not put back is beyond the cursor and unsent, or at most in one gateway's hands, or sent. It is what the claim before the send is for: a claim takes only
what is beyond the cursor, and moves the cursor in the same transaction. Where the cursor is moved back (a rewind or a slow advance), the events behind it are in `again`.

`NothingSkipped` is harder, as gateways put the cursor back, and a slow advance of one may move it anywhere between. `PassedInHand` says that an unsent event which the cursor, or the start of
somebody's batch, has passed is in a gateway's hands, and that this gateway cannot put it back behind the cursor unseen (`Kept`): the batches that begin beyond it follow on one another, and either the cursor stands
at their end, from where they give it back one by one, or nobody can bring it between them. The rewind is a compare-and-set on the end of the own batch; one that is refused is in `lost`.

`NoticeOnce` counts the notice as a single token: in the hands of the one thread that took the process out of `_running` (`first`), or in the queue, or underway, or told. `ReadConsumed`
says that what the agent has read is in `_completion_consumed` until the process is pruned, which is all that the drain and the watcher look at, and `PassedUnread` that a notice
which is underway after the agent has read the result was overtaken, or the process pruned.

### Model-checked only

- The liveness properties: fairness and ENABLED are beyond the prover.

The other safety properties are proved, under the conditions their theorems name; what the runs find outside those conditions is in section 3.

## 5. Not modelled

In the parts that are:

- Attachments, workspaces, idempotency keys, boards, statistics: no other transaction reads them. Comments, but for the respawn guard, which looks for a pull request
  in those of the last day (`Consider` chooses).
- Events, except what `_has_sticky_block` reads from them.
- The capacity caps (`max_spawn`, `max_in_progress`, per profile): they only forbid claims, and every claim is allowed here.
- A failing `_set_worker_pid` after a successful spawn; the second call of the spawn function after a TypeError.
- Reuse of pids: a pid names one process for ever.
- Failure of SQLite itself. Each transaction commits or the caller never started it.
- Within the decompose helper, the order of the model's answers; any acyclic set of sibling links may come.
- In a session: commands that only answer, steering, the other busy modes, album bursts, the goal loop that posts a continuation after a turn (run.py:8392), restart and
  shutdown, session expiry. They add messages or end the process; none adds a hand-over of its own.
- In cron: other jobs, pools, delivery, repeat limits of recurring jobs.
- In the notifier: making a subscription, a card that is reopened after its completion, uploads of artifacts, several boards.
- In the process registry: output, watch patterns, sandboxes, recovery from the checkpoint file.

Parts that are not modelled at all are listed in `PROJECT.json` with their reason. Those with a protocol of their own:

- `gateway/status.py`, scoped locks: what can go wrong hangs on the reuse of pids and on the order of file system calls of one platform.
- `agent/credential_pool.py`: its operations hold one lock; the races are in callers that read the current credential outside it (`delegate_tool.py:1396`,
  `agent_runtime_helpers.py:600`), amid the retries of the conversation loop.
- `tools/slash_confirm.py`: one confirmation per session, replaced by the next; the same shape as a clarify question with one answer.
- The rest (wire formats, prompts, files, user interface, scripts) has no protocol that a model checker would reach: a state machine for it would be the code again.
  This is most of the repository by lines, so the share of it that `PROJECT.json` maps is small.

## 6. Plan

| Order | What | Why |
|---|---|---|
| 1 | `OneWorkerPerTask` of several dispatchers that do not die within a call | would say which of the hypotheses of `WorkersAlone` protects from what |
| 2 | `ScopedLock`, `CredentialPool` | the two protocols of section 5 that remain |
