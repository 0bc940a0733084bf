---------------------------- MODULE KanbanBoard ----------------------------
(***************************************************************************)
(* The kanban board's database: hermes_cli/kanban_db.py.  Every writer of  *)
(* the board (dispatchers, workers, the CLI, the dashboard) goes through   *)
(* write_txn, a BEGIN IMMEDIATE transaction, so one action below is one    *)
(* transaction: the WHERE clause of its UPDATE is the guard, and a CAS     *)
(* that matches no row changes nothing (it is a stuttering step here).     *)
(* What a caller read before it opened the transaction is a parameter of   *)
(* the action, so nothing is assumed about how stale it is; module         *)
(* KanbanDispatch gives the callers their reads and their order.           *)
(*                                                                         *)
(* Time is abstract.  A deadline (claim_expires, the crash grace, the      *)
(* heartbeat window, the age of a run) is a two-valued field that an       *)
(* action of the clock flips and that the code's writes reset.             *)
(*                                                                         *)
(* A definition marked [mutant] is no part of the model: it is what its    *)
(* successor would be with a plausible bug, and PROJECT.json names the     *)
(* property that finds it.                                                 *)
(***************************************************************************)
EXTENDS Integers, Sequences, FiniteSets

CONSTANTS
    Tasks,          \* task ids
    Claimers,       \* claim locks: the "host:pid" of a claiming process
    NoLock,         \* claim_lock IS NULL
    MaxRetries,     \* tasks.max_retries per task, negative when NULL
    FailureLimit,   \* kanban.failure_limit, what the dispatcher passes
    Verbs,          \* the operations that happen in this instance
    Initial,        \* the tasks that exist at the start ...
    InitialLinks,   \* ... and the dependencies they were created with
    MaxRuns,        \* bound: rows ever inserted in task_runs
    MaxFails        \* bound: value of tasks.consecutive_failures

DefaultFailureLimit == 2

EngineVerbs == {"claim", "spawn", "heartbeat", "release", "stale", "crash",
                "timeout", "fail", "finish", "giveup"}
OperatorVerbs == {"create", "triage", "park", "link", "unlink", "assign",
                  "promote", "unblock", "specify", "decompose", "archive",
                  "purge", "delete", "schedule", "move", "reclaim", "close",
                  "hold", "pull"}

ASSUME BoardAssumption ==
    /\ NoLock \notin Claimers
    /\ MaxRetries \in [Tasks -> Int]
    /\ FailureLimit \in Nat \ {0}
    /\ Verbs \subseteq EngineVerbs \union OperatorVerbs
    /\ Initial \subseteq Tasks
    /\ InitialLinks \subseteq Initial \X Initial
    /\ MaxRuns \in Nat
    /\ MaxFails \in Nat

VARIABLES
    tasks,          \* table tasks
    runs,           \* table task_runs; a deleted row keeps its id
    links           \* table task_links, <<parent, child>>

boardVars == <<tasks, runs, links>>

----------------------------------------------------------------------------
(* Rows *)

Statuses == {"absent", "triage", "todo", "ready", "running", "blocked",
             "scheduled", "done", "archived", "deleted"}

\* last_failure_error, up to what check_respawn_guard tells apart: text that
\* matches _RESPAWN_BLOCKER_RE (quota or authentication) and text that does not.
Errors == {"none", "plain", "blocker"}

Outcomes == {"open", "completed", "blocked", "scheduled", "reclaimed", "stale",
             "crashed", "rate_limited", "timed_out", "spawn_failed",
             "gave_up", "deleted"}

TaskRow == [status: Statuses, lock: Claimers \union {NoLock}, expired: BOOLEAN,
            pid: Nat, hb: {"none", "fresh", "old"},
            started: {"never", "grace", "past"}, fails: Nat, err: Errors,
            sticky: BOOLEAN, run: Nat]

\* age of an open run: has the longest of its time limits passed; of a closed
\* one: is it still within the respawn guard's window.
RunRow == [task: Tasks, outcome: Outcomes, age: {"young", "old"}]

NewRow(s) == [status |-> s, lock |-> NoLock, expired |-> FALSE, pid |-> 0,
              hb |-> "none", started |-> "never", fails |-> 0, err |-> "none",
              sticky |-> FALSE, run |-> 0]

\* [mutant] The lock is forgotten.
ReleasedPidOnly(row) == [row EXCEPT !.expired = FALSE, !.pid = 0]

Released(row) == [row EXCEPT !.lock = NoLock, !.expired = FALSE, !.pid = 0]

Put(t, row) == tasks' = [tasks EXCEPT ![t] = row]

Present(t) == tasks[t].status \notin {"absent", "deleted"}

Open(r) == runs[r].outcome = "open"

\* Only these two outcomes are looked up again by age.
RunAge(o) == IF o \in {"completed", "rate_limited"} THEN "young" ELSE "old"

Ended(r, o) == [task |-> runs[r].task, outcome |-> o, age |-> RunAge(o)]

\* [mutant] ended_at is not looked at.
RunEndedAgain(r, o) == IF r # 0 THEN [runs EXCEPT ![r] = Ended(r, o)] ELSE runs

\* _end_run: close the row current_run_id points at unless ended_at is set.
RunEnded(r, o) ==
    IF r # 0 /\ Open(r) THEN [runs EXCEPT ![r] = Ended(r, o)] ELSE runs

\* _end_run, or _synthesize_ended_run when there was no run to end.
RunEndedOrSynthesized(t, o, handoff) ==
    IF tasks[t].run = 0 /\ handoff
    THEN Append(runs, [task |-> t, outcome |-> o, age |-> RunAge(o)])
    ELSE RunEnded(tasks[t].run, o)

RoomForRun == Len(runs) < MaxRuns

----------------------------------------------------------------------------
(* Dependencies *)

Parents(t) == {p \in Tasks : <<p, t>> \in links}
ParentsTerminal(t) == \A p \in Parents(t) : tasks[p].status \in {"done", "archived"}
ParentsDone(t) == \A p \in Parents(t) : tasks[p].status = "done"

\* [mutant] Only the direct edge back is looked for.
WouldCycleDirect(p, c) == <<c, p>> \in links

\* The walk of _would_cycle reaches p from c: p is in every set that holds c
\* and is closed under taking children.
WouldCycle(p, c) ==
    \A S \in SUBSET Tasks :
        (c \in S /\ \A x \in S, y \in Tasks : <<x, y>> \in links => y \in S)
            => p \in S

\* Kahn's algorithm accepts L: every non-empty set has a member without a
\* parent in the set.
AcyclicRelation(L) ==
    \A S \in SUBSET Tasks :
        S # {} => \E x \in S : \A p \in S : <<p, x>> \notin L

ASSUME LinksAssumption == AcyclicRelation(InitialLinks)

Limit(t, n) == IF MaxRetries[t] >= 0 THEN MaxRetries[t] ELSE n

Promotable(n) ==
    {t \in Tasks :
        /\ ParentsTerminal(t)
        /\ \/ tasks[t].status = "todo"
           \/ /\ tasks[t].status = "blocked"
              /\ ~tasks[t].sticky
              /\ tasks[t].fails < Limit(t, n)}

RecomputeReady(n) ==
    /\ tasks' = [t \in Tasks |-> IF t \in Promotable(n)
                                 THEN [tasks[t] EXCEPT !.status = "ready"]
                                 ELSE tasks[t]]
    /\ UNCHANGED <<runs, links>>

----------------------------------------------------------------------------
(* Creating, linking and deleting tasks *)

\* how: "" for a normal task, "triage" or "park" (initial_status="blocked").
CreateTask(t, how, P) ==
    /\ tasks[t].status = "absent"
    /\ \A p \in P : Present(p)
    /\ LET s == CASE how = "park"   -> "blocked"
                  [] how = "triage" -> "triage"
                  [] \E p \in P : tasks[p].status # "done" -> "todo"
                  [] OTHER -> "ready"
       IN Put(t, NewRow(s))
    /\ links' = links \union {<<p, t>> : p \in P}
    /\ UNCHANGED runs

LinkTasks(p, c) ==
    /\ p # c /\ Present(p) /\ Present(c)
    /\ ~WouldCycle(p, c)
    /\ links' = links \union {<<p, c>>}
    /\ Put(c, IF tasks[p].status # "done" /\ tasks[c].status = "ready"
              THEN [tasks[c] EXCEPT !.status = "todo"] ELSE tasks[c])
    /\ UNCHANGED runs

UnlinkTasks(p, c) ==
    /\ <<p, c>> \in links
    /\ links' = links \ {<<p, c>>}
    /\ UNCHANGED <<tasks, runs>>

\* C: the new children; L: the sibling links their "parents" indices give.
DecomposeTriage(t, C, L) ==
    /\ tasks[t].status = "triage"
    /\ C # {} /\ \A c \in C : tasks[c].status = "absent"
    /\ L \subseteq C \X C /\ AcyclicRelation(L)
    /\ tasks' = [x \in Tasks |->
                    IF x \in C THEN NewRow("todo")
                    ELSE IF x = t THEN [tasks[t] EXCEPT !.status = "todo"]
                    ELSE tasks[x]]
    /\ links' = links \union L \union {<<c, t>> : c \in C}
    /\ UNCHANGED runs

SpecifyTriage(t) ==
    /\ tasks[t].status = "triage"
    /\ Put(t, [tasks[t] EXCEPT !.status = "todo"])
    /\ UNCHANGED <<runs, links>>

DeleteTask(t) ==
    /\ Present(t)
    /\ Put(t, NewRow("deleted"))
    /\ runs' = [r \in 1..Len(runs) |->
                    IF runs[r].task = t THEN Ended(r, "deleted") ELSE runs[r]]
    /\ links' = {l \in links : l[1] # t /\ l[2] # t}

DeleteArchivedTask(t) == tasks[t].status = "archived" /\ DeleteTask(t)

\* A change of assignee resets the failure streak.
AssignTask(t) ==
    /\ Present(t)
    /\ ~(tasks[t].status = "running" /\ tasks[t].lock # NoLock)
    /\ Put(t, [tasks[t] EXCEPT !.fails = 0, !.err = "none"])
    /\ UNCHANGED <<runs, links>>

----------------------------------------------------------------------------
(* Claiming *)

ClaimRejected(t) ==
    /\ tasks[t].status = "ready" /\ ~ParentsTerminal(t)
    /\ Put(t, [tasks[t] EXCEPT !.status = "todo"])
    /\ UNCHANGED <<runs, links>>

\* [mutant] The parents are not looked at again.
ClaimableUngated(t) == tasks[t].status = "ready" /\ tasks[t].lock = NoLock

Claimable(t) ==
    tasks[t].status = "ready" /\ ParentsTerminal(t) /\ tasks[t].lock = NoLock

\* A run leaked by an earlier writer is closed before the pointer moves on.
Claimed(t, l) ==
    /\ Claimable(t) /\ RoomForRun
    /\ runs' = Append(RunEnded(tasks[t].run, "reclaimed"),
                      [task |-> t, outcome |-> "open", age |-> "young"])
    /\ Put(t, [tasks[t] EXCEPT
                  !.status = "running", !.lock = l, !.expired = FALSE,
                  !.started = IF @ = "never" THEN "grace" ELSE @,
                  !.run = Len(runs) + 1])
    /\ UNCHANGED links

\* The CAS loses to a lock left on a ready row, and the close is committed.
ClaimLost(t) ==
    /\ tasks[t].status = "ready" /\ ParentsTerminal(t)
    /\ tasks[t].lock # NoLock
    /\ runs' = RunEnded(tasks[t].run, "reclaimed")
    /\ UNCHANGED <<tasks, links>>

ClaimTask(t, l) == ClaimRejected(t) \/ Claimed(t, l) \/ ClaimLost(t)

SetWorkerPid(t, r) ==
    /\ Present(t)
    /\ Put(t, [tasks[t] EXCEPT !.pid = r])
    /\ UNCHANGED <<runs, links>>

HeartbeatClaim(t, l) ==
    /\ tasks[t].status = "running" /\ tasks[t].lock = l
    /\ Put(t, [tasks[t] EXCEPT !.expired = FALSE])
    /\ UNCHANGED <<runs, links>>

\* r is HERMES_KANBAN_RUN_ID, the run the worker was spawned for.
HeartbeatWorker(t, r) ==
    /\ tasks[t].status = "running" /\ tasks[t].run = r
    /\ Put(t, [tasks[t] EXCEPT !.hb = "fresh"])
    /\ UNCHANGED <<runs, links>>

----------------------------------------------------------------------------
(* Taking a claim back *)

LeaseExpired(t, l) ==
    tasks[t].status = "running" /\ tasks[t].lock = l /\ tasks[t].expired

ExtendClaim(t, l) ==
    /\ LeaseExpired(t, l)
    /\ Put(t, [tasks[t] EXCEPT !.expired = FALSE])
    /\ UNCHANGED <<runs, links>>

BackToReady(row) == [Released(row) EXCEPT !.status = "ready", !.run = 0]

ReleaseStaleClaim(t, l) ==
    /\ LeaseExpired(t, l)
    /\ Put(t, BackToReady(tasks[t]))
    /\ runs' = RunEnded(tasks[t].run, "reclaimed")
    /\ UNCHANGED links

\* enforce_max_runtime and detect_stale_running test the status alone.
YankRunning(t, o) ==
    /\ tasks[t].status = "running"
    /\ Put(t, [BackToReady(tasks[t]) EXCEPT !.hb = "none"])
    /\ runs' = RunEnded(tasks[t].run, o)
    /\ UNCHANGED links

CrashCandidates ==
    {t \in Tasks : /\ tasks[t].status = "running" /\ tasks[t].pid # 0
                   /\ tasks[t].lock # NoLock /\ tasks[t].started # "grace"}

\* One transaction for every worker found dead; throttled: those that left
\* with the rate-limit exit code.
DetectCrashed(dead, throttled) ==
    /\ dead \subseteq CrashCandidates /\ throttled \subseteq dead
    /\ tasks' = [t \in Tasks |->
                    IF t \in throttled
                    THEN [BackToReady(tasks[t]) EXCEPT !.err = "blocker"]
                    ELSE IF t \in dead THEN BackToReady(tasks[t])
                    ELSE tasks[t]]
    /\ runs' = [r \in 1..Len(runs) |->
                    IF Open(r) /\ \E t \in dead : tasks[t].run = r
                    THEN Ended(r, IF runs[r].task \in throttled
                                  THEN "rate_limited" ELSE "crashed")
                    ELSE runs[r]]
    /\ UNCHANGED links

\* [mutant] One attempt too many.
TripsLate(t, n) == tasks[t].fails + 1 > Limit(t, n)

\* effective_limit of _record_task_failure.
Trips(t, n) == tasks[t].fails + 1 >= Limit(t, n)

\* [mutant] The UPDATE has no condition on the status.
MatchesAny(t, n, held) == TRUE

\* The WHERE clauses of its four UPDATEs.
Matches(t, n, held) ==
    \/ tasks[t].status = "running"
    \/ tasks[t].status = "ready" /\ Trips(t, n)
    \/ ~held /\ ~Trips(t, n)

\* _record_task_failure.  n: the caller's failure_limit; held: release_claim
\* and end_run, which every caller sets alike; o: what the attempt ended as.
RecordFailure(t, n, held, why, o) ==
    LET row == tasks[t]
        trips == Trips(t, n)
        status == IF trips THEN "blocked" ELSE IF held THEN "ready" ELSE row.status
        kept == IF held THEN Released(row) ELSE row
        counted == IF Matches(t, n, held)
                   THEN [kept EXCEPT !.status = status, !.fails = @ + 1, !.err = why]
                   ELSE row
    IN /\ Present(t) /\ row.fails < MaxFails
       /\ Put(t, [counted EXCEPT !.run = IF held THEN 0 ELSE @])
       /\ runs' = IF held THEN RunEnded(row.run, IF trips THEN "gave_up" ELSE o)
                  ELSE runs
       /\ UNCHANGED links

ClearFailureCounter(t) ==
    /\ Present(t)
    /\ Put(t, [tasks[t] EXCEPT !.fails = 0, !.err = "none"])
    /\ UNCHANGED <<runs, links>>

\* The transaction of reclaim_task; l: the claim_lock it read.
ReclaimTask(t, l) ==
    /\ tasks[t].status \in {"running", "ready", "blocked"} /\ tasks[t].lock = l
    /\ Put(t, BackToReady(tasks[t]))
    /\ runs' = RunEnded(tasks[t].run, "reclaimed")
    /\ UNCHANGED links

----------------------------------------------------------------------------
(* Ending an attempt, and the operator's verbs.  r is expected_run_id, 0 when
   the caller passes None; handoff: is there a summary or reason to keep. *)

\* [mutant] expected_run_id is not compared.
ExpectedIgnored(t, r) == TRUE

Expected(t, r) == r = 0 \/ tasks[t].run = r

\* [mutant] The outcome of the run is written to the status of the task.
FinishWithOutcome(t, r, from, s, o, handoff) ==
    /\ tasks[t].status \in from /\ Expected(t, r)
    /\ handoff /\ tasks[t].run = 0 => RoomForRun
    /\ Put(t, [Released(tasks[t]) EXCEPT !.status = o, !.run = 0])
    /\ runs' = RunEndedOrSynthesized(t, o, handoff)
    /\ UNCHANGED links

Finish(t, r, from, s, o, handoff) ==
    /\ tasks[t].status \in from /\ Expected(t, r)
    /\ handoff /\ tasks[t].run = 0 => RoomForRun
    /\ Put(t, [Released(tasks[t]) EXCEPT
                  !.status = s, !.run = 0, !.sticky = @ \/ s = "blocked"])
    /\ runs' = RunEndedOrSynthesized(t, o, handoff)
    /\ UNCHANGED links

CompleteTask(t, r, handoff) ==
    Finish(t, r, {"running", "ready", "blocked"}, "done", "completed", handoff)

BlockTask(t, r, handoff) ==
    Finish(t, r, {"running", "ready"}, "blocked", "blocked", handoff)

ScheduleTask(t, handoff) ==
    Finish(t, 0, {"todo", "ready", "running", "blocked"}, "scheduled",
           "scheduled", handoff)

ArchiveTask(t) ==
    /\ Present(t) /\ tasks[t].status # "archived"
    /\ Put(t, [Released(tasks[t]) EXCEPT !.status = "archived", !.run = 0])
    /\ runs' = RunEnded(tasks[t].run, "reclaimed")
    /\ UNCHANGED links

\* [mutant] The run that a late blocker left open is not closed.
UnblockTaskLeaky(t) ==
    /\ tasks[t].status \in {"blocked", "scheduled"}
    /\ Put(t, [tasks[t] EXCEPT
                  !.status = IF ParentsDone(t) THEN "ready" ELSE "todo",
                  !.run = 0, !.fails = 0, !.err = "none", !.sticky = FALSE])
    /\ UNCHANGED <<runs, links>>

UnblockTask(t) ==
    /\ tasks[t].status \in {"blocked", "scheduled"}
    /\ Put(t, [tasks[t] EXCEPT
                  !.status = IF ParentsDone(t) THEN "ready" ELSE "todo",
                  !.run = 0, !.fails = 0, !.err = "none", !.sticky = FALSE])
    /\ runs' = RunEnded(tasks[t].run, "reclaimed")
    /\ UNCHANGED links

\* The transaction of promote_task: its parent check was made before it.
PromoteTask(t) ==
    /\ tasks[t].status \in {"todo", "blocked"}
    /\ Put(t, [tasks[t] EXCEPT !.status = "ready"])
    /\ UNCHANGED <<runs, links>>

\* _set_status_direct of the dashboard: a card is dragged to another column.
MoveCard(t, s) ==
    /\ Present(t)
    /\ s = "ready" => ParentsDone(t)
    /\ LET leaves == tasks[t].status = "running"
           reopened == tasks[t].status \in {"done", "archived"}
           moved == [Released(tasks[t]) EXCEPT !.status = s,
                        !.run = IF leaves THEN 0 ELSE @]
       IN /\ tasks' = [x \in Tasks |->
                          IF x = t THEN moved
                          ELSE IF reopened /\ <<t, x>> \in links
                                  /\ tasks[x].status = "ready"
                          THEN [tasks[x] EXCEPT !.status = "todo"]
                          ELSE tasks[x]]
          /\ runs' = IF leaves THEN RunEnded(tasks[t].run, "reclaimed") ELSE runs
    /\ UNCHANGED links

----------------------------------------------------------------------------
(* The clock *)

LeaseLapses(t) ==
    /\ tasks[t].status = "running" /\ ~tasks[t].expired
    /\ Put(t, [tasks[t] EXCEPT !.expired = TRUE])
    /\ UNCHANGED <<runs, links>>

HeartbeatAges(t) ==
    /\ tasks[t].hb = "fresh"
    /\ Put(t, [tasks[t] EXCEPT !.hb = "old"])
    /\ UNCHANGED <<runs, links>>

GraceEnds(t) ==
    /\ tasks[t].started = "grace"
    /\ Put(t, [tasks[t] EXCEPT !.started = "past"])
    /\ UNCHANGED <<runs, links>>

RunAges(r) ==
    /\ runs[r].age = "young"
    /\ runs' = [runs EXCEPT ![r].age = "old"]
    /\ UNCHANGED <<tasks, links>>

Clock == \/ \E t \in Tasks : LeaseLapses(t) \/ HeartbeatAges(t) \/ GraceEnds(t)
         \/ \E r \in 1..Len(runs) : RunAges(r)

----------------------------------------------------------------------------
(* The specification: any interleaving of the transactions, from a board as
   create_task left it. *)

BoardInit ==
    /\ links = InitialLinks
    /\ tasks = [t \in Tasks |->
                   IF t \notin Initial THEN NewRow("absent")
                   ELSE IF \E p \in Tasks : <<p, t>> \in InitialLinks
                   THEN NewRow("todo") ELSE NewRow("ready")]
    /\ runs = <<>>

Does(v) == v \in Verbs

EngineStep(t) ==
    \/ (Does("claim") \/ Does("pull")) /\ \E l \in Claimers : ClaimTask(t, l)
    \/ Does("spawn") /\ \E r \in 1..MaxRuns : SetWorkerPid(t, r)
    \/ Does("spawn") /\ \E why \in {"plain", "blocker"} :
           RecordFailure(t, FailureLimit, TRUE, why, "spawn_failed")
    \/ Does("heartbeat") /\ \E l \in Claimers : HeartbeatClaim(t, l)
    \/ Does("heartbeat") /\ \E r \in 1..MaxRuns : HeartbeatWorker(t, r)
    \/ Does("release") /\ \E l \in Claimers : ExtendClaim(t, l) \/ ReleaseStaleClaim(t, l)
    \/ Does("stale") /\ YankRunning(t, "stale")
    \/ Does("timeout") /\ YankRunning(t, "timed_out")
    \/ Does("fail") /\ \E n \in {1, DefaultFailureLimit} :
           RecordFailure(t, n, FALSE, "plain", "crashed")
    \/ Does("giveup") /\ RecordFailure(t, DefaultFailureLimit, TRUE, "plain", "timed_out")
    \/ Does("finish") /\ \E r \in 1..MaxRuns, handoff \in BOOLEAN :
           CompleteTask(t, r, handoff) \/ BlockTask(t, r, handoff)

BoardStep ==
    \/ Does("crash") /\ \E dead \in SUBSET CrashCandidates :
           \E throttled \in SUBSET dead : DetectCrashed(dead, throttled)
    \/ \E n \in {DefaultFailureLimit, FailureLimit} : RecomputeReady(n)

OperatorStep(t) ==
    \/ Does("create") /\ \E P \in SUBSET Tasks : CreateTask(t, "", P)
    \/ Does("triage") /\ \E P \in SUBSET Tasks : CreateTask(t, "triage", P)
    \/ Does("park") /\ \E P \in SUBSET Tasks : CreateTask(t, "park", P)
    \/ Does("link") /\ \E c \in Tasks : LinkTasks(t, c)
    \/ Does("unlink") /\ \E c \in Tasks : UnlinkTasks(t, c)
    \/ Does("assign") /\ AssignTask(t)
    \/ Does("promote") /\ PromoteTask(t)
    \/ Does("unblock") /\ UnblockTask(t)
    \/ Does("specify") /\ SpecifyTriage(t)
    \/ Does("decompose") /\ \E C \in SUBSET Tasks : \E L \in SUBSET (C \X C) :
           DecomposeTriage(t, C, L)
    \/ Does("archive") /\ ArchiveTask(t)
    \/ Does("purge") /\ DeleteArchivedTask(t)
    \/ Does("delete") /\ DeleteTask(t)
    \/ Does("schedule") /\ \E handoff \in BOOLEAN : ScheduleTask(t, handoff)
    \/ Does("move") /\ \E s \in {"triage", "todo", "ready"} : MoveCard(t, s)
    \/ Does("reclaim") /\ \E l \in Claimers : ReclaimTask(t, l)
    \/ Does("close") /\ \E handoff \in BOOLEAN : CompleteTask(t, 0, handoff)
    \/ Does("hold") /\ \E handoff \in BOOLEAN : BlockTask(t, 0, handoff)
    \/ ClearFailureCounter(t)

BoardNext ==
    \/ \E t \in Tasks : EngineStep(t) \/ OperatorStep(t)
    \/ BoardStep
    \/ Clock

BoardSpec == BoardInit /\ [][BoardNext]_boardVars

----------------------------------------------------------------------------
(* Properties *)

\* Every row has the columns the schema gives it; runs and links name tasks.
TypeOK ==
    /\ tasks \in [Tasks -> TaskRow]
    /\ runs \in Seq(RunRow)
    /\ links \subseteq Tasks \X Tasks

\* No attempt is lost: a run that is still open is the one its task's
\* current_run_id names, whatever order the writers came in.  Otherwise no
\* watchdog could ever find it again, as all of them start from the task row.
OpenRunIsCurrent ==
    \A r \in 1..Len(runs) : Open(r) => tasks[runs[r].task].run = r

\* A running task has an attempt to its name, so that ending the task's turn
\* always ends an attempt and a worker's expected_run_id has something to match.
RunningHasOpenRun ==
    \A t \in Tasks : tasks[t].status = "running" =>
        tasks[t].run \in 1..Len(runs) /\ Open(tasks[t].run)

\* current_run_id never names a run of another task.
RunBelongsToTask ==
    \A t \in Tasks : tasks[t].run # 0 =>
        tasks[t].run \in 1..Len(runs) /\ runs[tasks[t].run].task = t

RunPointers == OpenRunIsCurrent /\ RunningHasOpenRun /\ RunBelongsToTask

\* The dependency graph stays acyclic under concurrent link, create, decompose
\* and delete calls; a cycle would leave its tasks in todo for ever.
Acyclic == AcyclicRelation(links)

\* However a card came to be in ready (a race of promotion and reopening, a
\* reclaim of a task whose parent was reopened meanwhile), no attempt starts
\* while a parent is unfinished: claim_task looks again in its own transaction.
NoEarlyStart ==
    [][\A t \in Tasks :
           tasks[t].status # "running" /\ tasks'[t].status = "running"
               => ParentsTerminal(t)]_boardVars

----------------------------------------------------------------------------
(* The board keeps the promise of RunLedger. *)

Attempts == [r \in 1..Len(runs) |->
                [task |-> runs[r].task, outcome |-> runs[r].outcome]]

Ledger == INSTANCE RunLedger WITH ledger <- Attempts

\* Refinement: leaving out everything but the attempts' owners and outcomes,
\* each transaction starts, closes, records or erases attempts as RunLedger
\* allows, or leaves them alone.
ImplementsLedger == Ledger!Spec

=============================================================================
