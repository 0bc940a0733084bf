--------------------------- MODULE KanbanDispatch ---------------------------
(***************************************************************************)
(* Who writes to the board, and in which order: dispatchers running        *)
(* dispatch_once (the gateway's watcher, `hermes kanban dispatch` and      *)
(* daemon, the dashboard's POST /dispatch), the worker processes they      *)
(* spawn, and an operator at the CLI or the dashboard.                     *)
(*                                                                         *)
(* A call of the code that reads rows, signals a process and then opens    *)
(* several transactions is not atomic.  Each process therefore has an      *)
(* agenda: the jobs its current call has still to do, each carrying what   *)
(* the call has already read.  One step does the first job: at most one    *)
(* transaction of KanbanBoard, or one read, or one signal.                 *)
(***************************************************************************)
EXTENDS KanbanBoard, SequencesExt

CONSTANTS
    Dispatchers,    \* dispatcher processes, one element per incarnation
    Concurrent,     \* bound: dispatchers alive at the same time
    Operator,       \* the human's process
    Mishaps,        \* what may go wrong in this instance
    Timed,          \* tasks with max_runtime_seconds
    StaleCheck      \* dispatch_stale_timeout_seconds > 0

\* plain and blocker: a failing spawn, by its error text; death: a dispatcher
\* dies; clean, error, limited: how a worker may exit with its task running;
\* budget: it exhausts its iterations; hang: it stops making progress.
AllMishaps == {"plain", "blocker", "death", "clean", "error", "limited",
               "budget", "hang"}

\* The dispatcher and its workers do all that their code does, heartbeats apart,
\* which an instance may leave out; who may drag a card to "ready" may unblock it.
ASSUME DispatchAssumption ==
    /\ Dispatchers \union {Operator} \subseteq Claimers
    /\ Operator \notin Dispatchers
    /\ (Dispatchers \union {Operator}) \intersect Nat = {}
    /\ IsFiniteSet(Tasks)
    /\ EngineVerbs \ {"heartbeat"} \subseteq Verbs
    /\ "move" \in Verbs => "unblock" \in Verbs
    /\ Concurrent \in Nat \ {0}
    /\ Mishaps \subseteq AllMishaps
    /\ Timed \subseteq Tasks
    /\ StaleCheck \in BOOLEAN

VARIABLES
    life,       \* dispatcher -> "new", "up" or "down"
    worker,     \* worker process, named by the run it was spawned for
    agenda      \* process -> jobs its current call has still to do

vars == <<tasks, runs, links, life, worker, agenda>>

Workers == 1..MaxRuns
Procs == Dispatchers \union {Operator} \union Workers

\* The exit status is known only to the parent that reaped it.
NoWorker == [st |-> "none", parent |-> NoLock, reaped |-> FALSE]

Alive(r) == r # 0 /\ worker[r].st \in {"working", "done"}

ExitKinds == {"clean", "error", "limited", "killed"}

\* _classify_worker_exit in the dispatcher process d.
ExitSeenBy(d, r) ==
    IF worker[r].parent = d /\ worker[r].reaped THEN worker[r].st ELSE "unknown"

Job(op, t) == [op |-> op, task |-> t]
Jobs(op, S) == [i \in 1..Cardinality(S) |-> Job(op, SetToSeq(S)[i])]

\* The row as the SELECT returned it travels with the job.
RowJobs(op, S) ==
    [i \in 1..Cardinality(S) |->
        LET t == SetToSeq(S)[i]
        IN [op |-> op, task |-> t, lock |-> tasks[t].lock, pid |-> tasks[t].pid,
            old |-> tasks[t].hb = "old"]]

Recompute(n) == [op |-> "recompute", limit |-> n]

At(p, op) == agenda[p] # <<>> /\ Head(agenda[p]).op = op
Now(p) == Head(agenda[p])
Then(p, more) == agenda' = [agenda EXCEPT ![p] = more \o Tail(@)]

\* A transaction whose WHERE clause may match nothing.
Attempt(possible, A) == IF possible THEN A ELSE UNCHANGED boardVars

\* _terminate_reclaimed_worker and the kill of enforce_max_runtime: SIGTERM,
\* up to five seconds, SIGKILL.
Killed(r) == IF Alive(r) THEN [worker EXCEPT ![r].st = "killed"] ELSE worker
KilledAgenda(p, r, more) ==
    [q \in Procs |-> IF Alive(r) /\ q = r THEN <<>>
                     ELSE IF q = p THEN more \o Tail(agenda[q]) ELSE agenda[q]]
Kill(p, r, more) ==
    worker' = Killed(r) /\ agenda' = KilledAgenda(p, r, more)

----------------------------------------------------------------------------
(* dispatch_once *)

\* [mutant] Promotion is left to whoever completes a parent.
PlanWithoutPromotion == <<[op |-> "leases"], [op |-> "crashes"],
                          [op |-> "runtimes"], [op |-> "scan"]>>

Plan == <<[op |-> "leases"]>>
        \o (IF StaleCheck THEN <<[op |-> "beats"]>> ELSE <<>>)
        \o <<[op |-> "crashes"], [op |-> "runtimes"],
             Recompute(FailureLimit), [op |-> "scan"]>>

StartTick(d) ==
    /\ life[d] = "up" /\ agenda[d] = <<>>
    /\ agenda' = [agenda EXCEPT ![d] = Plan]
    /\ worker' = [r \in Workers |->
                     IF worker[r].parent = d /\ worker[r].st \in ExitKinds
                     THEN [worker[r] EXCEPT !.reaped = TRUE] ELSE worker[r]]
    /\ UNCHANGED <<tasks, runs, links, life>>

ListLeases(d) ==
    /\ At(d, "leases")
    /\ Then(d, RowJobs("lease", {t \in Tasks : tasks[t].status = "running"
                                              /\ tasks[t].expired}))
    /\ UNCHANGED <<tasks, runs, links, life, worker>>

\* [mutant] The lease alone decides.
CheckLeaseBlind(d) ==
    /\ At(d, "lease")
    /\ Then(d, <<[Now(d) EXCEPT !.op = "release"]>>)
    /\ UNCHANGED <<tasks, runs, links, life, worker>>

\* [mutant] Nothing is done about a claim without a pid.
CheckLeaseOfPid(d) ==
    /\ At(d, "lease")
    /\ LET j == Now(d)
       IN IF j.pid = 0 THEN Then(d, <<>>) /\ UNCHANGED worker
          ELSE Kill(d, j.pid, <<[j EXCEPT !.op = "release"]>>)
    /\ UNCHANGED <<tasks, runs, links, life>>

\* A live worker with a recent heartbeat, or none at all, keeps its claim.
CheckLease(d) ==
    /\ At(d, "lease")
    /\ LET j == Now(d)
       IN IF Alive(j.pid) /\ ~j.old
          THEN /\ Attempt(LeaseExpired(j.task, j.lock), ExtendClaim(j.task, j.lock))
               /\ Then(d, <<>>)
               /\ UNCHANGED worker
          ELSE /\ Kill(d, j.pid, <<[j EXCEPT !.op = "release"]>>)
               /\ UNCHANGED boardVars
    /\ UNCHANGED life

ReleaseLease(d) ==
    /\ At(d, "release")
    /\ LET j == Now(d)
       IN Attempt(LeaseExpired(j.task, j.lock), ReleaseStaleClaim(j.task, j.lock))
    /\ Then(d, <<>>)
    /\ UNCHANGED <<life, worker>>

ListBeats(d) ==
    /\ At(d, "beats")
    /\ Then(d, RowJobs("beat", {t \in Tasks : /\ tasks[t].status = "running"
                                             /\ tasks[t].hb # "fresh"
                                             /\ runs[tasks[t].run].age = "old"}))
    /\ UNCHANGED <<tasks, runs, links, life, worker>>

KillSilent(d) ==
    /\ At(d, "beat")
    /\ Kill(d, Now(d).pid, <<Job("stale", Now(d).task)>>)
    /\ UNCHANGED <<tasks, runs, links, life>>

YankStale(d) ==
    /\ At(d, "stale")
    /\ LET t == Now(d).task
       IN Attempt(tasks[t].status = "running", YankRunning(t, "stale"))
    /\ Then(d, <<>>)
    /\ UNCHANGED <<life, worker>>

\* One transaction, then one per crash to count it.  A clean exit trips the
\* breaker at once, and so do three crashes with the same fingerprint.
SweepCrashes(d) ==
    /\ At(d, "crashes")
    /\ LET dead == {t \in CrashCandidates : ~Alive(tasks[t].pid)}
           exit == [t \in dead |-> ExitSeenBy(d, tasks[t].pid)]
           throttled == {t \in dead : exit[t] = "limited"}
           crashed == dead \ throttled
           systemic(t) == Cardinality({u \in crashed : exit[u] = exit[t]}) >= 3
           limit(t) == IF exit[t] = "clean" \/ systemic(t)
                       THEN 1 ELSE DefaultFailureLimit
       IN /\ Attempt(dead # {}, DetectCrashed(dead, throttled))
          /\ Then(d, [i \in 1..Cardinality(crashed) |->
                         LET t == SetToSeq(crashed)[i]
                         IN [op |-> "fail", task |-> t, limit |-> limit(t)]])
    /\ UNCHANGED <<life, worker>>

CountFailure(d) ==
    /\ At(d, "fail")
    /\ LET j == Now(d)
       IN Attempt(Present(j.task) /\ tasks[j.task].fails < MaxFails,
                  RecordFailure(j.task, j.limit, FALSE, "plain", "crashed"))
    /\ Then(d, <<>>)
    /\ UNCHANGED <<life, worker>>

ListOverdue(d) ==
    /\ At(d, "runtimes")
    /\ Then(d, RowJobs("overdue", {t \in Timed : /\ tasks[t].status = "running"
                                                /\ tasks[t].pid # 0
                                                /\ tasks[t].lock # NoLock
                                                /\ runs[tasks[t].run].age = "old"}))
    /\ UNCHANGED <<tasks, runs, links, life, worker>>

KillOverdue(d) ==
    /\ At(d, "overdue")
    /\ Kill(d, Now(d).pid, <<Job("timeout", Now(d).task)>>)
    /\ UNCHANGED <<tasks, runs, links, life>>

YankOverdue(d) ==
    /\ At(d, "timeout")
    /\ LET t == Now(d).task
           still == tasks[t].status = "running"
       IN /\ Attempt(still, YankRunning(t, "timed_out"))
          /\ Then(d, IF still THEN <<[op |-> "fail", task |-> t,
                                     limit |-> DefaultFailureLimit]>> ELSE <<>>)
    /\ UNCHANGED <<life, worker>>

Promote(p) ==
    /\ At(p, "recompute")
    /\ RecomputeReady(Now(p).limit)
    /\ Then(p, <<>>)
    /\ UNCHANGED <<life, worker>>

ListReady(d) ==
    /\ At(d, "scan")
    /\ Then(d, Jobs("consider", {t \in Tasks : tasks[t].status = "ready"
                                              /\ tasks[t].lock = NoLock}))
    /\ UNCHANGED <<tasks, runs, links, life, worker>>

\* [mutant] Every error counts as a quota or authentication error.
DeferredOnError(t, linked) == tasks[t].err # "none"

\* check_respawn_guard; the runs of a task end in the order of their ids.
\* linked: a comment of the last 24 hours names a pull request.
Deferred(t, linked) ==
    LET ended == {r \in 1..Len(runs) : runs[r].task = t /\ ~Open(r)}
        latest == CHOOSE r \in ended : \A q \in ended : q <= r
    IN IF ended # {} /\ runs[latest].outcome = "rate_limited"
       THEN runs[latest].age = "young"
       ELSE \/ tasks[t].err = "blocker"
            \/ \E r \in ended : runs[r].outcome = "completed" /\ runs[r].age = "young"
            \/ linked

ConsiderLinked(d, linked) ==
    /\ At(d, "consider")
    /\ LET t == Now(d).task
       IN Then(d, IF Deferred(t, linked) THEN <<>> ELSE <<Job("claim", t)>>)
    /\ UNCHANGED <<tasks, runs, links, life, worker>>

\* Comments come and age at any time.
Consider(d) == \E linked \in BOOLEAN : ConsiderLinked(d, linked)

Claim(d) ==
    /\ At(d, "claim")
    /\ LET t == Now(d).task
           wins == Claimable(t) /\ RoomForRun
       IN /\ Attempt(wins \/ (tasks[t].status = "ready" /\ ~Claimable(t)), ClaimTask(t, d))
          /\ Then(d, IF wins THEN <<[op |-> "spawn", task |-> t, run |-> Len(runs) + 1]>>
                     ELSE <<>>)
    /\ UNCHANGED <<life, worker>>

Spawn(d) ==
    /\ At(d, "spawn")
    /\ \/ /\ worker' = [worker EXCEPT ![Now(d).run] =
                           [st |-> "working", parent |-> d, reaped |-> FALSE]]
          /\ Then(d, <<[Now(d) EXCEPT !.op = "setpid"]>>)
       \/ \E why \in Mishaps \intersect {"plain", "blocker"} :
             /\ Then(d, <<[op |-> "spawnfail", task |-> Now(d).task, why |-> why]>>)
             /\ UNCHANGED worker
    /\ UNCHANGED <<tasks, runs, links, life>>

SetPid(d) ==
    /\ At(d, "setpid")
    /\ Attempt(Present(Now(d).task), SetWorkerPid(Now(d).task, Now(d).run))
    /\ Then(d, <<>>)
    /\ UNCHANGED <<life, worker>>

SpawnFailed(d) ==
    /\ At(d, "spawnfail")
    /\ LET j == Now(d)
       IN Attempt(Present(j.task) /\ tasks[j.task].fails < MaxFails,
                  RecordFailure(j.task, FailureLimit, TRUE, j.why, "spawn_failed"))
    /\ Then(d, <<>>)
    /\ UNCHANGED <<life, worker>>

DispatcherStep(d) ==
    \/ StartTick(d) \/ ListLeases(d) \/ CheckLease(d) \/ ReleaseLease(d)
    \/ ListBeats(d) \/ KillSilent(d) \/ YankStale(d)
    \/ SweepCrashes(d) \/ CountFailure(d)
    \/ ListOverdue(d) \/ KillOverdue(d) \/ YankOverdue(d)
    \/ Promote(d) \/ ListReady(d) \/ Consider(d)
    \/ Claim(d) \/ Spawn(d) \/ SetPid(d) \/ SpawnFailed(d)

\* The gateway or the daemon comes up: a new pid, so a new claim lock.
Boot(d) ==
    /\ life[d] = "new"
    /\ Cardinality({e \in Dispatchers : life[e] = "up"}) < Concurrent
    /\ life' = [life EXCEPT ![d] = "up"]
    /\ UNCHANGED <<tasks, runs, links, worker, agenda>>

\* It dies between two steps; its workers live on, nobody reaps them.
Die(d) ==
    /\ "death" \in Mishaps /\ life[d] = "up"
    /\ \E e \in Dispatchers : life[e] = "new"
    /\ life' = [life EXCEPT ![d] = "down"]
    /\ agenda' = [agenda EXCEPT ![d] = <<>>]
    /\ UNCHANGED <<tasks, runs, links, worker>>

----------------------------------------------------------------------------
(* Workers *)

Mine(r) == runs[r].task
Active(r) == Alive(r) /\ agenda[r] = <<>>
Announce(r, st) == worker' = [worker EXCEPT ![r].st = st]

\* kanban_heartbeat, and the bridge from _touch_activity: the lease by its
\* lock, then the heartbeat by its run.
BeatLease(r) ==
    /\ Active(r) /\ Does("heartbeat")
    /\ Attempt(tasks[Mine(r)].status = "running"
                   /\ tasks[Mine(r)].lock = worker[r].parent,
               HeartbeatClaim(Mine(r), worker[r].parent))
    /\ agenda' = [agenda EXCEPT ![r] = <<[op |-> "touch"]>>]
    /\ UNCHANGED <<life, worker>>

BeatRow(r) ==
    /\ At(r, "touch")
    /\ Attempt(tasks[Mine(r)].status = "running" /\ tasks[Mine(r)].run = r,
               HeartbeatWorker(Mine(r), r))
    /\ Then(r, <<>>)
    /\ UNCHANGED <<life, worker>>

\* A refused completion is a tool error and changes nothing.
Complete(r) ==
    /\ Active(r) /\ CompleteTask(Mine(r), r, TRUE)
    /\ Announce(r, "done")
    /\ agenda' = [agenda EXCEPT ![r] =
                     <<Job("clear", Mine(r)), Recompute(DefaultFailureLimit)>>]
    /\ UNCHANGED life

Block(r) ==
    /\ Active(r) /\ BlockTask(Mine(r), r, TRUE)
    /\ Announce(r, "done")
    /\ UNCHANGED <<life, agenda>>

Clear(p) ==
    /\ At(p, "clear")
    /\ Attempt(Present(Now(p).task), ClearFailureCounter(Now(p).task))
    /\ Then(p, <<>>)
    /\ UNCHANGED <<life, worker>>

\* The turn loop ran out of iterations: no run id is passed here.
ExhaustBudget(r) ==
    /\ "budget" \in Mishaps /\ Active(r) /\ worker[r].st = "working"
    /\ Attempt(Present(Mine(r)),
               RecordFailure(Mine(r), DefaultFailureLimit, TRUE, "plain", "timed_out"))
    /\ Announce(r, "done")
    /\ UNCHANGED <<life, agenda>>

\* [mutant] A worker leaves in the middle of a call.
ExitMidCall(r) ==
    /\ Alive(r)
    /\ Announce(r, "clean")
    /\ UNCHANGED <<tasks, runs, links, life, agenda>>

\* A worker that ended its turn, or whose attempt was closed by another, has no
\* more to say and exits cleanly; any worker may fail.
Exit(r) ==
    /\ Active(r)
    /\ \/ (worker[r].st = "done" \/ ~Open(r)) /\ Announce(r, "clean")
       \/ /\ worker[r].st = "working"
          /\ \E kind \in Mishaps \intersect {"clean", "error", "limited"} : Announce(r, kind)
    /\ UNCHANGED <<tasks, runs, links, life, agenda>>

WorkerStep(r) ==
    BeatLease(r) \/ BeatRow(r) \/ Complete(r) \/ Block(r) \/ ExhaustBudget(r)
        \/ Exit(r) \/ Clear(r) \/ Promote(r)

----------------------------------------------------------------------------
(* The operator *)

Free == agenda[Operator] = <<>>
Plans(more) == agenda' = [agenda EXCEPT ![Operator] = more]

Unblock(t) == Does("unblock") /\ UnblockTask(t) /\ Plans(<<>>)
Hold(t) == Does("hold") /\ BlockTask(t, 0, TRUE) /\ Plans(<<>>)
Pull(t) == Does("pull") /\ ClaimTask(t, Operator) /\ Plans(<<>>)
Archive(t) ==
    Does("archive") /\ ArchiveTask(t) /\ Plans(<<Recompute(DefaultFailureLimit)>>)
Close(t) ==
    /\ Does("close") /\ CompleteTask(t, 0, TRUE)
    /\ Plans(<<Job("clear", t), Recompute(DefaultFailureLimit)>>)

\* update_task of the dashboard: the PATCH to "ready" of a card that waits is
\* an unblock, decided on an earlier read.
Drag(t) ==
    /\ Does("move") /\ Present(t)
    /\ \E s \in {"triage", "todo", "ready"} :
           Plans(<<[op |-> IF s = "ready" /\ tasks[t].status \in {"blocked", "scheduled"}
                           THEN "unblock" ELSE "drop", task |-> t, to |-> s]>>)
    /\ UNCHANGED boardVars

Drop ==
    /\ At(Operator, "drop")
    /\ LET j == Now(Operator)
           accepted == Present(j.task) /\ (j.to = "ready" => ParentsDone(j.task))
       IN /\ Attempt(accepted, MoveCard(j.task, j.to))
          /\ Then(Operator, IF accepted /\ j.to = "ready"
                            THEN <<Recompute(DefaultFailureLimit)>> ELSE <<>>)

DropUnblock ==
    /\ At(Operator, "unblock")
    /\ LET t == Now(Operator).task
       IN Attempt(tasks[t].status \in {"blocked", "scheduled"}, UnblockTask(t))
    /\ Then(Operator, <<>>)

\* reclaim_task: read the row, terminate the worker, then the transaction.
BeginReclaim(t) ==
    /\ Does("reclaim") /\ Present(t)
    /\ tasks[t].status = "running" \/ tasks[t].lock # NoLock
    /\ Plans(RowJobs("terminate", {t}))
    /\ UNCHANGED boardVars

Reclaim ==
    /\ At(Operator, "reclaim")
    /\ LET j == Now(Operator)
           matches == /\ tasks[j.task].status \in {"running", "ready", "blocked"}
                      /\ tasks[j.task].lock = j.lock
       IN /\ Attempt(matches, ReclaimTask(j.task, j.lock))
          /\ Then(Operator, IF matches THEN <<Job("clear", j.task)>> ELSE <<>>)

Terminate ==
    /\ At(Operator, "terminate")
    /\ Kill(Operator, Now(Operator).pid, <<[Now(Operator) EXCEPT !.op = "reclaim"]>>)
    /\ UNCHANGED <<tasks, runs, links, life>>

\* promote_task: status and parents are read before the transaction.
BeginPromote(t) ==
    /\ Does("promote") /\ tasks[t].status \in {"todo", "blocked"}
    /\ ParentsTerminal(t)
    /\ Plans(<<Job("promote", t)>>)
    /\ UNCHANGED boardVars

\* [mutant] The status is not looked at again.
FinishPromoteBlind ==
    /\ At(Operator, "promote")
    /\ Put(Now(Operator).task, [tasks[Now(Operator).task] EXCEPT !.status = "ready"])
    /\ Then(Operator, <<>>)
    /\ UNCHANGED <<runs, links>>

FinishPromote ==
    /\ At(Operator, "promote")
    /\ LET t == Now(Operator).task
       IN Attempt(tasks[t].status \in {"todo", "blocked"}, PromoteTask(t))
    /\ Then(Operator, <<>>)

OperatorMove ==
    \/ /\ \/ /\ Free
             /\ \E t \in Tasks : Unblock(t) \/ Hold(t) \/ Pull(t) \/ Archive(t) \/ Close(t)
                                   \/ Drag(t) \/ BeginReclaim(t) \/ BeginPromote(t)
          \/ Drop \/ DropUnblock \/ Reclaim \/ FinishPromote
       /\ UNCHANGED <<life, worker>>
    \/ Terminate \/ Clear(Operator) \/ Promote(Operator)

----------------------------------------------------------------------------
(* The system *)

Init ==
    /\ BoardInit
    /\ life = [d \in Dispatchers |-> "new"]
    /\ worker = [r \in Workers |-> NoWorker]
    /\ agenda = [p \in Procs |-> <<>>]

\* Heartbeats stop only where a worker may hang.
Tick ==
    /\ \/ \E t \in Tasks : LeaseLapses(t) \/ GraceEnds(t)
       \/ "hang" \in Mishaps /\ \E t \in Tasks : HeartbeatAges(t)
       \/ \E r \in 1..Len(runs) : RunAges(r)
    /\ UNCHANGED <<life, worker, agenda>>

Next ==
    \/ \E d \in Dispatchers : DispatcherStep(d) \/ Boot(d) \/ Die(d)
    \/ \E r \in Workers : WorkerStep(r)
    \/ OperatorMove
    \/ Tick

Spec == Init /\ [][Next]_vars

Passes(A) == A /\ UNCHANGED <<life, worker, agenda>>

ConsiderUnlinked(d, t) == At(d, "consider") /\ Now(d).task = t /\ ConsiderLinked(d, FALSE)

\* The watcher's loop runs dispatch_once again and again and is restarted when
\* it died, and clocks advance; nobody names a pull request on the same card day
\* after day.  Nothing else is assumed of the operator, nor of the workers: one
\* may run for ever, or stop at any point of a call.
FairSpec ==
    /\ Spec
    /\ \A d \in Dispatchers : WF_vars(DispatcherStep(d)) /\ WF_vars(Boot(d))
    /\ \A t \in Tasks : SF_vars(\E d \in Dispatchers : ConsiderUnlinked(d, t))
    /\ \A t \in Tasks : WF_vars(Passes(LeaseLapses(t))) /\ WF_vars(Passes(GraceEnds(t)))
    /\ \A r \in Workers : WF_vars(Passes(r <= Len(runs) /\ RunAges(r)))

----------------------------------------------------------------------------
(* Properties *)

\* The jobs a call may leave to do, with what it read or was told; n: the number
\* of runs so far.
TaskJob(ops) == [op: ops, task: Tasks]
RowJob(ops) ==
    [op: ops, task: Tasks, lock: Claimers \union {NoLock}, pid: Nat, old: BOOLEAN]
PromoteJob == [op: {"recompute"}, limit: {DefaultFailureLimit, FailureLimit}]

DispatcherJob(n) ==
    [op: {"leases", "beats", "crashes", "runtimes", "scan"}]
      \union RowJob({"lease", "release", "beat", "overdue"})
      \union TaskJob({"stale", "timeout", "consider", "claim"})
      \union [op: {"fail"}, task: Tasks, limit: {1, DefaultFailureLimit}]
      \union PromoteJob
      \union [op: {"spawn", "setpid"}, task: Tasks, run: {r \in Workers : r <= n}]
      \union [op: {"spawnfail"}, task: Tasks, why: {"plain", "blocker"}]
WorkerJob == [op: {"touch"}] \union TaskJob({"clear"}) \union PromoteJob
OperatorJob ==
    RowJob({"terminate", "reclaim"}) \union TaskJob({"clear", "promote"})
      \union [op: {"unblock", "drop"}, task: Tasks, to: {"triage", "todo", "ready"}]
      \union PromoteJob

\* Every process is where its code can be.
DispatchTypeOK ==
    /\ TypeOK
    /\ life \in [Dispatchers -> {"new", "up", "down"}]
    /\ worker \in [Workers -> [st: {"none", "working", "done"} \union ExitKinds,
                               parent: Dispatchers \union {NoLock}, reaped: BOOLEAN]]
    /\ DOMAIN agenda = Procs
    /\ \A d \in Dispatchers : agenda[d] \in Seq(DispatcherJob(Len(runs)))
    /\ \A r \in Workers : agenda[r] \in Seq(WorkerJob)
    /\ agenda[Operator] \in Seq(OperatorJob)
    /\ \A p \in Dispatchers : life[p] # "up" => agenda[p] = <<>>
    /\ \A r \in Workers : agenda[r] # <<>> => Alive(r)

\* Every step of every process is a transaction of the board, or leaves it alone.
ImplementsBoard == BoardSpec

\* Two processes never work on one task at the same time: whoever gives a task
\* to a new worker has seen the previous one end, or has ended it.
OneWorkerPerTask ==
    \A q, r \in Workers :
        worker[q].st = "working" /\ worker[r].st = "working" /\ Mine(q) = Mine(r)
            => q = r

\* An attempt is recorded as completed or blocked only by the worker that made
\* it, at the moment it says so, or by the human who closes or blocks the card
\* while every process rests: a worker that was given up for dead and comes back
\* late cannot end the attempt of its successor.
OwnOutcome ==
    [][\A r \in 1..Len(runs) :
           Open(r) /\ runs'[r].outcome \in {"completed", "blocked"}
               => \/ worker[r].st = "working" /\ worker'[r].st = "done"
                  \/ /\ worker' = worker
                     /\ \A p \in Procs \ {Operator} : agenda'[p] = agenda[p]]_vars

\* The same for the verdict of a worker that ran out of iterations: while a
\* worker ends its turn, no other worker's attempt is closed.
OwnTurn ==
    [][\A q \in Workers : worker[q].st = "working" /\ worker'[q].st = "done"
           => \A r \in 1..Len(runs) : Open(r) /\ runs'[r].outcome # "open" => r = q]_vars

\* A claim lock is held only while its task runs; a card in another column with
\* a lock left on it can be neither dispatched nor reclaimed.
ClaimOnlyWhileRunning ==
    \A t \in Tasks : tasks[t].lock # NoLock => tasks[t].status = "running"

FailedAttempts(t) ==
    {r \in 1..Len(runs) : /\ runs[r].task = t
                          /\ runs[r].outcome \in {"crashed", "timed_out",
                                                  "spawn_failed", "gave_up"}}

\* The circuit breaker: no task is attempted again after failing as often as
\* the limit allows, counting every way to fail, with no success in between.
BoundedFailures ==
    \A t \in Tasks : Cardinality(FailedAttempts(t)) <= Limit(t, FailureLimit)

\* What is done stays done: no late verdict of a watchdog, of a dispatcher or
\* of a stale worker takes a finished card back.
DoneIsFinal ==
    [][\A t \in Tasks : tasks[t].status = "done" => tasks'[t].status = "done"]_vars

\* When _record_task_failure gives a card up, recompute_ready agrees that it is
\* given up, and does not put it back in the queue.
BreakerAgrees ==
    [][\A t \in Tasks :
           tasks'[t].status = "blocked" /\ tasks'[t].fails > tasks[t].fails
               => t \notin Promotable(FailureLimit)']_vars

\* An attempt whose worker is dead, or was never started because its dispatcher
\* died first, does not hold the card for ever.
Orphaned(r) == r <= Len(runs) /\ Open(r) /\ worker[r].st # "working"
DeadAttemptsEnd == \A r \in Workers : Orphaned(r) ~> ~Orphaned(r)

\* A card that is ready does not starve: though workers exit with an error and
\* dispatchers die, a dispatcher claims it or something else takes it out of the
\* column (as long as the instance has room for another run).  A worker that
\* exits on a quota starves it all the same.
ReadyIsTried ==
    \A t \in Tasks :
        (tasks[t].status = "ready" /\ RoomForRun)
            ~> (tasks[t].status # "ready" \/ ~RoomForRun)

\* A child whose parents are finished leaves todo, also when the worker that
\* finished the last parent died before it could promote anything.
ChildrenFollow ==
    \A t \in Tasks :
        (tasks[t].status = "todo" /\ ParentsTerminal(t))
            ~> ~(tasks[t].status = "todo" /\ ParentsTerminal(t))

=============================================================================
