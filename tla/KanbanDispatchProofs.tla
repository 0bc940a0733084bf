------------------------ MODULE KanbanDispatchProofs ------------------------
(***************************************************************************)
(* Theorems about the processes that write to the board.                   *)
(*                                                                         *)
(* Every process is where its code can be: DispatchTypeOK needs the runs   *)
(* of the board to be right (Sound, RunningIsClaimed, GoneIsIdle), for the *)
(* jobs are built from what the rows held, and the board's proofs need the *)
(* jobs to be right, for they are the arguments of its transactions.       *)
(* Dispatched is the conjunction that carries both.  Then, whatever the    *)
(* processes do, every step is a transaction of the board (ImplementsBoard *)
(* and with it every theorem about the board), a done card stays done, and *)
(* an attempt's verdict is its own worker's.                               *)
(*                                                                         *)
(* With one dispatcher at a time more is true.  Phased says how its list   *)
(* looks: sweeps first, then claims, and the second half of a check or of  *)
(* a claim is always the next job.  What the dispatcher has read is then   *)
(* still so when it acts on it: Serial and Solo say what, job by job, and  *)
(* LocksFollowClaims and WorkersAlone follow.  Breaker adds the balance of *)
(* failures that happened, are counted and wait to be counted, from which  *)
(* FailuresBounded follows.                                                *)
(***************************************************************************)
EXTENDS KanbanDispatch, KanbanLinksProofs, KanbanLedgerProofs, FiniteSetTheorems

\* What the operator may have left to do: the second half of a verb that this
\* instance has; a lock that reclaim_task compares is a lock.
OperatorMay ==
    {j \in OperatorJob :
        /\ j.op \in {"terminate", "reclaim"} => Does("reclaim") /\ j.lock \in Claimers
        /\ j.op = "drop" => Does("move")
        /\ j.op = "unblock" => Does("unblock")
        /\ j.op = "promote" => Does("promote")}

WorkerMay == {j \in WorkerJob : j.op = "touch" => Does("heartbeat")}

\* The jobs of process p, when n runs were inserted.
JobsOf(p, n) == IF p = Operator THEN OperatorMay
                ELSE IF p \in Dispatchers THEN DispatcherJob(n) ELSE WorkerMay

Agendas == DOMAIN agenda = Procs /\ \A p \in Procs : agenda[p] \in Seq(JobsOf(p, Len(runs)))

WorkerRow == [st: {"none", "working", "done"} \union ExitKinds,
              parent: Dispatchers \union {NoLock}, reaped: BOOLEAN]

Processes ==
    /\ life \in [Dispatchers -> {"new", "up", "down"}]
    /\ worker \in [Workers -> WorkerRow]
    /\ \A d \in Dispatchers : agenda[d] # <<>> => life[d] = "up"
    /\ \A r \in Workers : agenda[r] # <<>> => Alive(r)
    /\ \A r \in Workers : worker[r].st # "none" => r <= Len(runs)

Dispatched == Sound /\ RunningIsClaimed /\ GoneIsIdle /\ Agendas /\ Processes

----------------------------------------------------------------------------
(* Sequences of jobs *)

LEMMA ListOfSet ==
    ASSUME NEW S, IsFiniteSet(S)
    PROVE  /\ Cardinality(S) \in Nat
           /\ SetToSeq(S) \in [1..Cardinality(S) -> S]
<1>1. PICK f : ExistsBijection(1..Cardinality(S), S) /\ Cardinality(S) \in Nat
  BY FS_CardinalityType
<1>2. PICK g : g \in Bijection(1..Cardinality(S), S)
  BY <1>1 DEF ExistsBijection
<1>3. g \in [1..Cardinality(S) -> S] /\ IsInjective(g)
  BY <1>2 DEF Bijection, Injection, IsInjective
<1> QED BY <1>1, <1>3 DEF SetToSeq

LEMMA JobsTyped ==
    ASSUME NEW S \in SUBSET Tasks, NEW op
    PROVE  Jobs(op, S) \in Seq(TaskJob({op}))
<1> DEFINE n == Cardinality(S)
           at(i) == Job(op, SetToSeq(S)[i])
<1>1. n \in Nat /\ SetToSeq(S) \in [1..n -> S]
  BY ListOfSet, FS_Subset, DispatchAssumption
<1>2. \A i \in 1..n : at(i) \in TaskJob({op})
  BY <1>1 DEF Job, TaskJob
<1>3. Jobs(op, S) = [i \in 1..n |-> at(i)]
  BY DEF Jobs
<1> HIDE DEF n, at
<1> QED BY <1>1, <1>2, <1>3, FunctionIsSeq

LEMMA RowJobsTyped ==
    ASSUME TypeOK, NEW S \in SUBSET Tasks, NEW op
    PROVE  RowJobs(op, S) \in
               Seq({j \in RowJob({op}) : j.task \in S /\ j.lock = tasks[j.task].lock
                                         /\ j.pid = tasks[j.task].pid})
<1> DEFINE n == Cardinality(S)
           row(t) == [op |-> op, task |-> t, lock |-> tasks[t].lock,
                      pid |-> tasks[t].pid, old |-> tasks[t].hb = "old"]
           at(i) == row(SetToSeq(S)[i])
           R == {j \in RowJob({op}) : j.task \in S /\ j.lock = tasks[j.task].lock
                                      /\ j.pid = tasks[j.task].pid}
<1>1. n \in Nat /\ SetToSeq(S) \in [1..n -> S]
  BY ListOfSet, FS_Subset, DispatchAssumption
<1>2. \A t \in S : row(t) \in R
  BY RowsAreRows DEF RowJob, TaskRow
<1>3. \A i \in 1..n : at(i) \in R
  BY <1>1, <1>2
<1>4. RowJobs(op, S) = [i \in 1..n |-> at(i)]
  BY DEF RowJobs
<1> HIDE DEF n, at, R
<1>5. RowJobs(op, S) \in Seq(R)
  BY <1>1, <1>3, <1>4, FunctionIsSeq
<1> QED BY <1>5 DEF R

\* The list after the first job was replaced by more.
LEMMA AfterHead ==
    ASSUME NEW S, NEW list \in Seq(S), list # <<>>, NEW more \in Seq(S)
    PROVE  /\ more \o Tail(list) \in Seq(S)
           /\ Head(list) \in S
           /\ \A i \in 1..Len(more \o Tail(list)) :
                 \/ i \in 1..Len(more) /\ (more \o Tail(list))[i] = more[i]
                 \/ /\ i > Len(more) /\ i - Len(more) + 1 \in 2..Len(list)
                    /\ (more \o Tail(list))[i] = list[i - Len(more) + 1]
<1>1. /\ Tail(list) \in Seq(S) /\ Len(Tail(list)) = Len(list) - 1
      /\ \A i \in 1..Len(Tail(list)) : Tail(list)[i] = list[i + 1]
      /\ Head(list) \in S
  BY HeadTailProperties
<1>2. /\ more \o Tail(list) \in Seq(S)
      /\ Len(more \o Tail(list)) = Len(more) + Len(Tail(list))
      /\ \A i \in 1..Len(more) + Len(Tail(list)) :
            (more \o Tail(list))[i] = IF i <= Len(more) THEN more[i]
                                      ELSE Tail(list)[i - Len(more)]
  BY <1>1, ConcatProperties
<1>3. Len(more) \in Nat /\ Len(list) \in Nat /\ Len(list) > 0
  BY LenProperties, EmptySeq
<1> QED BY <1>1, <1>2, <1>3

LEMMA JobsGrow ==
    ASSUME NEW p, NEW m \in Nat, NEW n \in Nat, m <= n
    PROVE  JobsOf(p, m) \subseteq JobsOf(p, n)
  BY DEF JobsOf, DispatcherJob, Workers

LEMMA AgendasGrow ==
    ASSUME Agendas, NEW p \in Procs, Len(runs) \in Nat, Len(runs') \in Nat,
           Len(runs) <= Len(runs')
    PROVE  agenda[p] \in Seq(JobsOf(p, Len(runs')))
<1>1. JobsOf(p, Len(runs)) \subseteq JobsOf(p, Len(runs'))
  BY JobsGrow
<1>2. agenda[p] \in Seq(JobsOf(p, Len(runs)))
  BY DEF Agendas
<1> QED BY <1>1, <1>2, SeqMonotonic

----------------------------------------------------------------------------
(* What a transaction of the board leaves of the runs *)

\* An attempt keeps its number and its task, and once it ended it stays ended.
LEMMA RunsGrow ==
    ASSUME Sound, Sound', [BoardNext]_boardVars
    PROVE  /\ Len(runs) \in Nat /\ Len(runs') \in Nat /\ Len(runs) <= Len(runs')
           /\ \A r \in 1..Len(runs) : /\ runs'[r].task = runs[r].task
                                      /\ ~Open(r) => runs'[r].outcome # "open"
<1> DEFINE n == Len(Attempts)
           Stays(L) == /\ n <= Len(L)
                       /\ \A a \in 1..n : /\ L[a].task = Attempts[a].task
                                          /\ L[a].outcome = "open" => Attempts[a].outcome = "open"
<1>1. /\ Attempts \in Seq(Ledger!Attempt) /\ n = Len(runs) /\ n \in Nat
      /\ \A r \in 1..n : Attempts[r].task = runs[r].task
                         /\ Attempts[r].outcome = runs[r].outcome
  BY AttemptRows, AttemptsAre, AttemptFields DEF Sound, TypeOK
<1>2. /\ Attempts' \in Seq(Ledger!Attempt) /\ Len(Attempts') = Len(runs') /\ Len(runs') \in Nat
      /\ \A r \in 1..Len(runs') : Attempts'[r].task = runs'[r].task
                                  /\ Attempts'[r].outcome = runs'[r].outcome
  <2>1. runs' \in Seq(RunRow)
    BY DEF Sound, TypeOK
  <2> QED BY <2>1, AttemptRows, AttemptsBecome, AttemptFields
<1>3. ASSUME NEW A, NEW L, Ledger!Closed(A, L)
      PROVE  Stays(L) /\ Len(L) = n /\ L \in Seq(Ledger!Attempt)
  BY <1>1, <1>3 DEF Ledger!Closed, Ledger!IsOpen
<1>4. Stays(Attempts')
  <2>1. Ledger!Next
    BY StepLedger DEF Sound
  <2>2. CASE Ledger!Close
    BY <2>2, <1>3 DEF Ledger!Close
  <2>3. ASSUME NEW t \in Tasks, Ledger!Start(t)
        PROVE  Stays(Attempts')
    <3>1. PICK A : LET L == SubSeq(Attempts', 1, n)
                   IN /\ Attempts' = Append(L, [task |-> t, outcome |-> "open"])
                      /\ Ledger!Closed(A, L)
      BY <2>3 DEF Ledger!Start
    <3> DEFINE L == SubSeq(Attempts', 1, n)
               new == [task |-> t, outcome |-> "open"]
    <3>2. Attempts' = Append(L, new) /\ Stays(L) /\ Len(L) = n /\ L \in Seq(Ledger!Attempt)
      BY <3>1, <1>3
    <3> HIDE DEF L
    <3>3. Len(Attempts') = n + 1 /\ \A a \in 1..n : Attempts'[a] = L[a]
      BY <1>1, <3>2 DEF new
    <3> QED BY <1>1, <3>2, <3>3
  <2>4. ASSUME NEW t \in Tasks, NEW o, Ledger!Record(t, o)
        PROVE  Stays(Attempts')
    <3>1. Attempts' = Append(Attempts, [task |-> t, outcome |-> o])
      BY <2>4 DEF Ledger!Record
    <3>2. Len(Attempts') = n + 1 /\ \A a \in 1..n : Attempts'[a] = Attempts[a]
      BY <1>1, <3>1
    <3> QED BY <1>1, <3>2
  <2>5. ASSUME NEW t \in Tasks, Ledger!Erase(t)
        PROVE  Stays(Attempts')
    <3> DEFINE row(a) == IF Attempts[a].task = t THEN [task |-> t, outcome |-> "deleted"]
                         ELSE Attempts[a]
    <3>1. Attempts' = [a \in 1..n |-> row(a)]
      BY <2>5 DEF Ledger!Erase
    <3>2. \A a \in 1..n : /\ row(a).task = Attempts[a].task
                          /\ row(a).outcome = "open" => Attempts[a].outcome = "open"
      OBVIOUS
    <3> HIDE DEF row
    <3>3. Len(Attempts') = n /\ \A a \in 1..n : Attempts'[a] = row(a)
      BY <1>1, <1>2, <3>1
    <3> QED BY <1>1, <3>2, <3>3
  <2> QED BY <2>1, <2>2, <2>3, <2>4, <2>5 DEF Ledger!Next
<1> QED BY <1>1, <1>2, <1>4 DEF Open

----------------------------------------------------------------------------
(* Every step is a transaction of the board, or none. *)

LEMMA JobShape ==
    ASSUME NEW n, NEW j \in DispatcherJob(n)
    PROVE  /\ j.op \in {"lease", "release", "beat", "overdue"} =>
                  j.task \in Tasks /\ j.lock \in Claimers \union {NoLock} /\ j.pid \in Nat
                  /\ j \in RowJob({j.op})
           /\ j.op \in {"stale", "timeout", "consider", "claim"} => j.task \in Tasks
           /\ j.op = "fail" => j.task \in Tasks /\ j.limit \in {1, DefaultFailureLimit}
           /\ j.op = "recompute" => j.limit \in {DefaultFailureLimit, FailureLimit}
           /\ j.op \in {"spawn", "setpid"} => /\ j.task \in Tasks /\ j.run \in Workers
                                              /\ j.run <= n
           /\ j.op = "spawnfail" => j.task \in Tasks /\ j.why \in {"plain", "blocker"}
  BY DEF DispatcherJob, RowJob, TaskJob, PromoteJob

LEMMA WorkerShape ==
    ASSUME NEW j \in WorkerMay
    PROVE  /\ j.op = "touch" => Does("heartbeat")
           /\ j.op = "clear" => j.task \in Tasks
           /\ j.op = "recompute" => j.limit \in {DefaultFailureLimit, FailureLimit}
  BY DEF WorkerMay, WorkerJob, TaskJob, PromoteJob

LEMMA OperatorShape ==
    ASSUME NEW j \in OperatorMay
    PROVE  /\ j.op \in {"terminate", "reclaim"} =>
                  j.task \in Tasks /\ j.lock \in Claimers /\ j.pid \in Nat /\ Does("reclaim")
                  /\ j \in RowJob({j.op})
           /\ j.op \in {"clear", "promote"} => j.task \in Tasks
           /\ j.op \in {"unblock", "drop"} => j.task \in Tasks /\ j.to \in {"triage", "todo", "ready"}
           /\ j.op = "drop" => Does("move")
           /\ j.op = "unblock" => Does("unblock")
           /\ j.op = "promote" => Does("promote")
           /\ j.op = "recompute" => j.limit \in {DefaultFailureLimit, FailureLimit}
  BY DEF OperatorMay, OperatorJob, RowJob, TaskJob, PromoteJob

\* The three kinds of processes are different ones.
LEMMA Kinds ==
    /\ \A d \in Dispatchers : d \in Procs /\ d # Operator /\ \A n : JobsOf(d, n) = DispatcherJob(n)
    /\ \A r \in Workers : r \in Procs /\ r # Operator /\ \A n : JobsOf(r, n) = WorkerMay
    /\ Operator \in Procs /\ \A n : JobsOf(Operator, n) = OperatorMay
    /\ \A d \in Dispatchers, r \in Workers : d # r
  BY DispatchAssumption DEF JobsOf, Procs, Workers

LEMMA NowTyped ==
    ASSUME Agendas, NEW p \in Procs, agenda[p] # <<>>
    PROVE  Now(p) \in JobsOf(p, Len(runs))
  BY AfterHead, EmptySeq DEF Agendas, Now

LEMMA DispatcherBoard ==
    ASSUME Dispatched, NEW d \in Dispatchers, DispatcherStep(d)
    PROVE  [BoardNext]_boardVars
<1> USE DEF boardVars
<1> DEFINE j == Now(d)
<1>1. agenda[d] # <<>> => j \in DispatcherJob(Len(runs))
  BY NowTyped, Kinds DEF Dispatched
<1>2. \A v \in EngineVerbs \ {"heartbeat"} : Does(v)
  BY DispatchAssumption DEF Does
<1>3. d \in Claimers
  BY DispatchAssumption
<1> USE DEF EngineVerbs, At, Attempt, Now
<1>4. CASE StartTick(d) \/ ListLeases(d) \/ ListBeats(d) \/ KillSilent(d) \/ ListOverdue(d)
           \/ KillOverdue(d) \/ ListReady(d) \/ Consider(d) \/ Spawn(d)
  BY <1>4 DEF StartTick, ListLeases, ListBeats, KillSilent, ListOverdue, KillOverdue,
              ListReady, Consider, ConsiderLinked, Spawn
<1>5. CASE CheckLease(d) \/ ReleaseLease(d)
  <2>1. j.task \in Tasks
    BY <1>1, <1>5, JobShape DEF CheckLease, ReleaseLease
  <2>2. LeaseExpired(j.task, j.lock) => j.lock \in Claimers
    BY <2>1 DEF LeaseExpired, Dispatched, RunningIsClaimed
  <2>3. \/ UNCHANGED boardVars
        \/ ExtendClaim(j.task, j.lock) /\ LeaseExpired(j.task, j.lock)
        \/ ReleaseStaleClaim(j.task, j.lock) /\ LeaseExpired(j.task, j.lock)
    BY <1>5 DEF CheckLease, ReleaseLease
  <2>4. UNCHANGED boardVars \/ EngineStep(j.task)
    BY <1>2, <2>2, <2>3 DEF EngineStep
  <2> QED BY <2>1, <2>4 DEF BoardNext
<1>6. CASE YankStale(d) \/ YankOverdue(d)
  <2>1. j.task \in Tasks
    BY <1>1, <1>6, JobShape DEF YankStale, YankOverdue
  <2>2. UNCHANGED boardVars \/ YankRunning(j.task, "stale") \/ YankRunning(j.task, "timed_out")
    BY <1>6 DEF YankStale, YankOverdue
  <2> QED BY <1>2, <2>1, <2>2 DEF EngineStep, BoardNext
<1>7. CASE SweepCrashes(d)
  <2> DEFINE dead == {t \in CrashCandidates : ~Alive(tasks[t].pid)}
             exit == [t \in dead |-> ExitSeenBy(d, tasks[t].pid)]
             throttled == {t \in dead : exit[t] = "limited"}
  <2>1. UNCHANGED boardVars \/ DetectCrashed(dead, throttled)
    BY <1>7 DEF SweepCrashes
  <2>2. dead \in SUBSET CrashCandidates /\ throttled \in SUBSET dead
    OBVIOUS
  <2> HIDE DEF dead, throttled
  <2> QED BY <1>2, <2>1, <2>2 DEF BoardStep, BoardNext
<1>8. CASE CountFailure(d)
  <2>1. j.task \in Tasks /\ j.limit \in {1, DefaultFailureLimit}
    BY <1>1, <1>8, JobShape DEF CountFailure
  <2>2. UNCHANGED boardVars \/ RecordFailure(j.task, j.limit, FALSE, "plain", "crashed")
    BY <1>8 DEF CountFailure
  <2> QED BY <1>2, <2>1, <2>2 DEF EngineStep, BoardNext
<1>9. CASE Promote(d)
  <2>1. j.limit \in {DefaultFailureLimit, FailureLimit}
    BY <1>1, <1>9, JobShape DEF Promote
  <2> QED BY <1>9, <2>1 DEF Promote, BoardStep, BoardNext
<1>10. CASE Claim(d)
  <2>1. j.task \in Tasks
    BY <1>1, <1>10, JobShape DEF Claim
  <2>2. UNCHANGED boardVars \/ ClaimTask(j.task, d)
    BY <1>10 DEF Claim
  <2> QED BY <1>2, <1>3, <2>1, <2>2 DEF EngineStep, BoardNext
<1>11. CASE SetPid(d)
  <2>1. j.task \in Tasks /\ j.run \in 1..MaxRuns
    BY <1>1, <1>11, JobShape DEF SetPid, Workers
  <2>2. UNCHANGED boardVars \/ SetWorkerPid(j.task, j.run)
    BY <1>11 DEF SetPid
  <2> QED BY <1>2, <2>1, <2>2 DEF EngineStep, BoardNext
<1>12. CASE SpawnFailed(d)
  <2>1. j.task \in Tasks /\ j.why \in {"plain", "blocker"}
    BY <1>1, <1>12, JobShape DEF SpawnFailed
  <2>2. UNCHANGED boardVars \/ RecordFailure(j.task, FailureLimit, TRUE, j.why, "spawn_failed")
    BY <1>12 DEF SpawnFailed
  <2> QED BY <1>2, <2>1, <2>2 DEF EngineStep, BoardNext
<1> QED BY <1>4, <1>5, <1>6, <1>7, <1>8, <1>9, <1>10, <1>11, <1>12 DEF DispatcherStep

\* A worker has a run, and so a task.
LEMMA WorkersTask ==
    ASSUME Dispatched, NEW r \in Workers, worker[r].st # "none"
    PROVE  r \in 1..Len(runs) /\ Mine(r) \in Tasks
  BY RunRows, LenProperties DEF Dispatched, Processes, Sound, TypeOK, Workers, Mine

LEMMA SharedBoard ==
    ASSUME Dispatched, NEW p \in Procs, Clear(p) \/ Promote(p)
    PROVE  [BoardNext]_boardVars
<1> USE DEF boardVars, At, Attempt, Now
<1>1. Now(p) \in DispatcherJob(Len(runs)) \/ Now(p) \in WorkerMay \/ Now(p) \in OperatorMay
  BY NowTyped DEF Dispatched, Clear, Promote, JobsOf
<1>2. CASE Clear(p)
  <2>1. Now(p).op = "clear" => Now(p).task \in Tasks
    BY <1>1, WorkerShape, OperatorShape DEF DispatcherJob, RowJob, TaskJob, PromoteJob
  <2>2. UNCHANGED boardVars \/ ClearFailureCounter(Now(p).task)
    BY <1>2 DEF Clear
  <2> QED BY <1>2, <2>1, <2>2 DEF OperatorStep, BoardNext, Clear
<1>3. CASE Promote(p)
  <2>1. Now(p).limit \in {DefaultFailureLimit, FailureLimit}
    BY <1>1, <1>3, JobShape, WorkerShape, OperatorShape DEF Promote
  <2> QED BY <1>3, <2>1 DEF Promote, BoardStep, BoardNext
<1> QED BY <1>2, <1>3

LEMMA WorkerBoard ==
    ASSUME Dispatched, NEW r \in Workers, WorkerStep(r)
    PROVE  [BoardNext]_boardVars
<1> USE DEF boardVars, At, Attempt, Now
<1> DEFINE t == Mine(r)
<1>1. \A v \in EngineVerbs \ {"heartbeat"} : Does(v)
  BY DispatchAssumption DEF Does
<1> USE DEF EngineVerbs
<1>2. CASE Clear(r) \/ Promote(r)
  BY <1>2, SharedBoard, Kinds
<1>3. Alive(r) => t \in Tasks
  BY WorkersTask DEF Alive
<1>4. r \in 1..MaxRuns
  BY DEF Workers
<1>5. CASE BeatLease(r)
  <2>1. tasks[t].status = "running" /\ tasks[t].lock = worker[r].parent
            => worker[r].parent \in Claimers
    BY <1>3, <1>5 DEF BeatLease, Active, Dispatched, RunningIsClaimed
  <2>2. \/ UNCHANGED boardVars
        \/ /\ tasks[t].status = "running" /\ tasks[t].lock = worker[r].parent
           /\ HeartbeatClaim(t, worker[r].parent)
    BY <1>5 DEF BeatLease
  <2>3. Does("heartbeat") /\ t \in Tasks
    BY <1>3, <1>5 DEF BeatLease, Active
  <2> QED BY <2>1, <2>2, <2>3 DEF EngineStep, BoardNext
<1>6. CASE BeatRow(r)
  <2>1. Does("heartbeat")
    BY <1>6, NowTyped, Kinds, WorkerShape DEF BeatRow, Dispatched
  <2>2. t \in Tasks
    BY <1>3, <1>6 DEF BeatRow, Dispatched, Processes
  <2>3. UNCHANGED boardVars \/ HeartbeatWorker(t, r)
    BY <1>6 DEF BeatRow
  <2> QED BY <1>4, <2>1, <2>2, <2>3 DEF EngineStep, BoardNext
<1>7. CASE Complete(r) \/ Block(r)
  <2>1. t \in Tasks /\ (CompleteTask(t, r, TRUE) \/ BlockTask(t, r, TRUE))
    BY <1>3, <1>7 DEF Complete, Block, Active
  <2> QED BY <1>1, <1>4, <2>1 DEF EngineStep, BoardNext
<1>8. CASE ExhaustBudget(r)
  <2>1. /\ t \in Tasks
        /\ \/ UNCHANGED boardVars
           \/ RecordFailure(t, DefaultFailureLimit, TRUE, "plain", "timed_out")
    BY <1>3, <1>8 DEF ExhaustBudget, Active
  <2> QED BY <1>1, <2>1 DEF EngineStep, BoardNext
<1>9. CASE Exit(r)
  BY <1>9 DEF Exit
<1> QED BY <1>2, <1>5, <1>6, <1>7, <1>8, <1>9 DEF WorkerStep

LEMMA OperatorBoard ==
    ASSUME Dispatched, OperatorMove
    PROVE  [BoardNext]_boardVars
<1> USE DEF boardVars, At, Attempt, Now
<1> DEFINE j == Now(Operator)
<1>1. agenda[Operator] # <<>> => j \in OperatorMay
  BY NowTyped, Kinds DEF Dispatched
<1>2. Operator \in Claimers
  BY DispatchAssumption
<1>3. ASSUME NEW t \in Tasks, Unblock(t) \/ Hold(t) \/ Pull(t) \/ Archive(t) \/ Close(t)
      PROVE  [BoardNext]_boardVars
  <2>1. \/ Does("unblock") /\ UnblockTask(t)
        \/ Does("hold") /\ BlockTask(t, 0, TRUE)
        \/ Does("pull") /\ ClaimTask(t, Operator)
        \/ Does("archive") /\ ArchiveTask(t)
        \/ Does("close") /\ CompleteTask(t, 0, TRUE)
    BY <1>3 DEF Unblock, Hold, Pull, Archive, Close
  <2>2. EngineStep(t) \/ OperatorStep(t)
    BY <1>2, <2>1 DEF EngineStep, OperatorStep
  <2> QED BY <2>2 DEF BoardNext
<1>4. ASSUME NEW t \in Tasks, Drag(t) \/ BeginReclaim(t) \/ BeginPromote(t)
      PROVE  [BoardNext]_boardVars
  BY <1>4 DEF Drag, BeginReclaim, BeginPromote
<1>5. CASE Drop
  <2>1. j.task \in Tasks /\ j.to \in {"triage", "todo", "ready"} /\ Does("move")
    BY <1>1, <1>5, OperatorShape DEF Drop
  <2>2. UNCHANGED boardVars \/ MoveCard(j.task, j.to)
    BY <1>5 DEF Drop
  <2> QED BY <2>1, <2>2 DEF OperatorStep, BoardNext
<1>6. CASE DropUnblock
  <2>1. j.task \in Tasks /\ Does("unblock")
    BY <1>1, <1>6, OperatorShape DEF DropUnblock
  <2>2. UNCHANGED boardVars \/ UnblockTask(j.task)
    BY <1>6 DEF DropUnblock
  <2> QED BY <2>1, <2>2 DEF OperatorStep, BoardNext
<1>7. CASE Reclaim
  <2>1. j.task \in Tasks /\ j.lock \in Claimers /\ Does("reclaim")
    BY <1>1, <1>7, OperatorShape DEF Reclaim
  <2>2. UNCHANGED boardVars \/ ReclaimTask(j.task, j.lock)
    BY <1>7 DEF Reclaim
  <2> QED BY <2>1, <2>2 DEF OperatorStep, BoardNext
<1>8. CASE FinishPromote
  <2>1. j.task \in Tasks /\ Does("promote")
    BY <1>1, <1>8, OperatorShape DEF FinishPromote
  <2>2. UNCHANGED boardVars \/ PromoteTask(j.task)
    BY <1>8 DEF FinishPromote
  <2> QED BY <2>1, <2>2 DEF OperatorStep, BoardNext
<1>9. CASE Terminate
  BY <1>9 DEF Terminate
<1>10. CASE Clear(Operator) \/ Promote(Operator)
  BY <1>10, SharedBoard, Kinds
<1> QED BY <1>3, <1>4, <1>5, <1>6, <1>7, <1>8, <1>9, <1>10 DEF OperatorMove

LEMMA NextBoard ==
    ASSUME Dispatched, [Next]_vars
    PROVE  [BoardNext]_boardVars
<1>1. ASSUME NEW d \in Dispatchers, Boot(d) \/ Die(d)
      PROVE  [BoardNext]_boardVars
  BY <1>1 DEF Boot, Die, boardVars
<1>2. CASE Tick
  BY <1>2 DEF Tick, BoardNext, Clock
<1>3. CASE UNCHANGED vars
  BY <1>3 DEF vars, boardVars
<1> QED BY <1>1, <1>2, <1>3, DispatcherBoard, WorkerBoard, OperatorBoard DEF Next

----------------------------------------------------------------------------
(* Every process stays where its code can be. *)

Grown == Len(runs) \in Nat /\ Len(runs') \in Nat /\ Len(runs) <= Len(runs')

\* Process p replaces its list of jobs; other lists stay or are dropped.
LEMMA AgendasReplaced ==
    ASSUME Agendas, Grown, NEW p \in Procs, NEW list \in Seq(JobsOf(p, Len(runs'))),
           DOMAIN agenda' = Procs, agenda'[p] \in {list, <<>>},
           \A q \in Procs \ {p} : agenda'[q] \in {agenda[q], <<>>}
    PROVE  Agendas'
<1>1. \A q \in Procs : agenda[q] \in Seq(JobsOf(q, Len(runs')))
  BY AgendasGrow DEF Grown
<1>2. \A S : <<>> \in Seq(S)
  BY EmptySeq
<1>3. \A q \in Procs : agenda'[q] \in Seq(JobsOf(q, Len(runs')))
  BY <1>1, <1>2
<1>4. \A q : JobsOf(q, Len(runs))' = JobsOf(q, Len(runs'))
  BY DEF JobsOf, DispatcherJob, OperatorMay, WorkerMay, OperatorJob, WorkerJob, RowJob,
         TaskJob, PromoteJob, Does
<1> QED BY <1>3, <1>4 DEF Agendas

LEMMA AfterNow ==
    ASSUME Agendas, Grown, NEW p \in Procs, agenda[p] # <<>>,
           NEW more \in Seq(JobsOf(p, Len(runs')))
    PROVE  more \o Tail(agenda[p]) \in Seq(JobsOf(p, Len(runs')))
  BY AgendasGrow, AfterHead DEF Grown

LEMMA ThenStep ==
    ASSUME Agendas, Processes, Grown, NEW p \in Procs, agenda[p] # <<>>,
           NEW more \in Seq(JobsOf(p, Len(runs'))), Then(p, more), UNCHANGED <<life, worker>>
    PROVE  Agendas' /\ Processes'
<1> DEFINE list == more \o Tail(agenda[p])
<1>1. list \in Seq(JobsOf(p, Len(runs')))
  BY AfterNow
<1>2. agenda' = [agenda EXCEPT ![p] = list] /\ DOMAIN agenda = Procs
  BY DEF Then, Agendas
<1> HIDE DEF list
<1>3. Agendas'
  BY <1>1, <1>2, AgendasReplaced
<1>4. \A q \in Procs : agenda'[q] # <<>> => agenda[q] # <<>>
  BY <1>2
<1>5. Processes'
  BY <1>4, Kinds DEF Processes, Alive, Grown, Workers
<1> QED BY <1>3, <1>5

LEMMA KillStep ==
    ASSUME Agendas, Processes, Grown, NEW p \in Procs \ Workers, agenda[p] # <<>>,
           NEW more \in Seq(JobsOf(p, Len(runs'))), NEW x, Kill(p, x, more), UNCHANGED life
    PROVE  Agendas' /\ Processes'
<1> DEFINE list == more \o Tail(agenda[p])
<1>1. list \in Seq(JobsOf(p, Len(runs')))
  BY AfterNow
<1>2. agenda' = [q \in Procs |-> IF Alive(x) /\ q = x THEN <<>>
                                 ELSE IF q = p THEN list ELSE agenda[q]]
  BY DEF Kill, KilledAgenda
<1>3. worker' = IF Alive(x) THEN [worker EXCEPT ![x].st = "killed"] ELSE worker
  BY DEF Kill, Killed
<1> HIDE DEF list
<1>4. Agendas'
  BY <1>1, <1>2, AgendasReplaced
<1>5. \A q \in Procs : agenda'[q] # <<>> => agenda[q] # <<>> /\ ~(Alive(x) /\ q = x)
  BY <1>2
<1>6. worker' \in [Workers -> WorkerRow]
  BY <1>3 DEF Processes, WorkerRow, ExitKinds
<1>7. \A r \in Workers : /\ ~(Alive(x) /\ r = x) => worker'[r] = worker[r]
                         /\ worker'[r].st # "none" => worker[r].st # "none"
  BY <1>3 DEF Processes, WorkerRow, Alive
<1>8. \A r \in Workers : agenda'[r] # <<>> => Alive(r)'
  BY <1>5, <1>7, Kinds DEF Processes, Alive
<1>9. Processes'
  BY <1>5, <1>6, <1>7, <1>8, Kinds DEF Processes, Grown, Workers
<1> QED BY <1>4, <1>9

LEMMA PlanTyped ==
    ASSUME NEW n
    PROVE  Plan \in Seq(DispatcherJob(n))
<1> DEFINE S == DispatcherJob(n)
           first == <<[op |-> "leases"]>>
           beats == IF StaleCheck THEN <<[op |-> "beats"]>> ELSE <<>>
           last == <<[op |-> "crashes"], [op |-> "runtimes"], Recompute(FailureLimit), [op |-> "scan"]>>
<1>1. \A op \in {"leases", "beats", "crashes", "runtimes", "scan"} : [op |-> op] \in S
  BY DEF DispatcherJob
<1>2. Recompute(FailureLimit) \in S
  BY DEF DispatcherJob, PromoteJob, Recompute
<1> HIDE DEF S
<1>3. first \in Seq(S) /\ beats \in Seq(S) /\ last \in Seq(S)
  BY <1>1, <1>2
<1>4. Plan = first \o beats \o last
  BY DEF Plan
<1> HIDE DEF first, beats, last
<1>5. Plan \in Seq(S)
  BY <1>3, <1>4, ConcatProperties
<1> QED BY <1>5 DEF S

\* What dispatch_once puts on its list is a list of its jobs.
LEMMA DispatcherJobs ==
    ASSUME TypeOK, NEW n
    PROVE  /\ <<>> \in Seq(DispatcherJob(n))
           /\ \A j \in DispatcherJob(n) : <<j>> \in Seq(DispatcherJob(n))
           /\ \A t \in Tasks : \A op \in {"stale", "timeout", "consider", "claim"} :
                  Job(op, t) \in DispatcherJob(n)
           /\ RowJob({"release"}) \subseteq DispatcherJob(n)
           /\ \A t \in Tasks : \A m \in {1, DefaultFailureLimit} :
                  [op |-> "fail", task |-> t, limit |-> m] \in DispatcherJob(n)
           /\ \A t \in Tasks, r \in Workers : r <= n =>
                  /\ [op |-> "spawn", task |-> t, run |-> r] \in DispatcherJob(n)
                  /\ [op |-> "setpid", task |-> t, run |-> r] \in DispatcherJob(n)
           /\ \A t \in Tasks, why \in {"plain", "blocker"} :
                  [op |-> "spawnfail", task |-> t, why |-> why] \in DispatcherJob(n)
           /\ \A T \in SUBSET Tasks : \A op \in {"lease", "beat", "overdue"} :
                  RowJobs(op, T) \in Seq(DispatcherJob(n))
           /\ \A T \in SUBSET Tasks : Jobs("consider", T) \in Seq(DispatcherJob(n))
<1> DEFINE S == DispatcherJob(n)
<1>1. \A op : /\ op \in {"lease", "release", "beat", "overdue"} => RowJob({op}) \subseteq S
              /\ op \in {"stale", "timeout", "consider", "claim"} => TaskJob({op}) \subseteq S
  BY DEF DispatcherJob, RowJob, TaskJob
<1>2. \A t \in Tasks : \A op \in {"stale", "timeout", "consider", "claim"} : Job(op, t) \in S
  BY <1>1 DEF Job, TaskJob
<1>3. \A t \in Tasks : \A m \in {1, DefaultFailureLimit} :
          [op |-> "fail", task |-> t, limit |-> m] \in S
  BY DEF DispatcherJob
<1>4. \A t \in Tasks, r \in Workers : r <= n =>
          /\ [op |-> "spawn", task |-> t, run |-> r] \in S
          /\ [op |-> "setpid", task |-> t, run |-> r] \in S
  BY DEF DispatcherJob
<1>5. \A t \in Tasks, why \in {"plain", "blocker"} :
          [op |-> "spawnfail", task |-> t, why |-> why] \in S
  BY DEF DispatcherJob
<1>6. ASSUME NEW T \in SUBSET Tasks, NEW op \in {"lease", "beat", "overdue"}
      PROVE  RowJobs(op, T) \in Seq(S)
  <2>1. {x \in RowJob({op}) : x.task \in T /\ x.lock = tasks[x.task].lock
                              /\ x.pid = tasks[x.task].pid} \subseteq S
    BY <1>1
  <2> QED BY <2>1, RowJobsTyped, SeqMonotonic
<1>7. ASSUME NEW T \in SUBSET Tasks
      PROVE  Jobs("consider", T) \in Seq(S)
  BY <1>1, JobsTyped, SeqMonotonic
<1>8. RowJob({"release"}) \subseteq S
  BY <1>1
<1> HIDE DEF S
<1>9. <<>> \in Seq(S) /\ \A j \in S : <<j>> \in Seq(S)
  OBVIOUS
<1> QED BY <1>2, <1>3, <1>4, <1>5, <1>6, <1>7, <1>8, <1>9 DEF S

\* The failures that one sweep for dead workers has to count.
LEMMA SweepJobs ==
    ASSUME Dispatched, NEW d \in Dispatchers, SweepCrashes(d)
    PROVE  \E more \in Seq({j \in [op: {"fail"}, task: Tasks, limit: {1, DefaultFailureLimit}] :
                               j.task \in CrashCandidates /\ ~Alive(tasks[j.task].pid)
                               /\ tasks'[j.task] \in {BackToReady(tasks[j.task]),
                                                      [BackToReady(tasks[j.task]) EXCEPT !.err = "blocker"]}}) :
               Then(d, more) /\ UNCHANGED <<life, worker>> /\ agenda[d] # <<>>
<1> DEFINE dead == {t \in CrashCandidates : ~Alive(tasks[t].pid)}
           exit == [t \in dead |-> ExitSeenBy(d, tasks[t].pid)]
           throttled == {t \in dead : exit[t] = "limited"}
           crashed == dead \ throttled
           systemic(t) == Cardinality({u \in crashed : exit[u] = exit[t]}) >= 3
           limit(t) == IF exit[t] = "clean" \/ systemic(t) THEN 1 ELSE DefaultFailureLimit
           fail(t) == [op |-> "fail", task |-> t, limit |-> limit(t)]
           n == Cardinality(crashed)
           more == [i \in 1..n |-> fail(SetToSeq(crashed)[i])]
           F == {j \in [op: {"fail"}, task: Tasks, limit: {1, DefaultFailureLimit}] :
                    j.task \in CrashCandidates /\ ~Alive(tasks[j.task].pid)
                    /\ tasks'[j.task] \in {BackToReady(tasks[j.task]),
                                           [BackToReady(tasks[j.task]) EXCEPT !.err = "blocker"]}}
<1>1. /\ Then(d, more) /\ UNCHANGED <<life, worker>> /\ agenda[d] # <<>>
      /\ Attempt(dead # {}, DetectCrashed(dead, throttled))
  BY DEF SweepCrashes, At
<1>2. \A t \in crashed : /\ t \in CrashCandidates /\ t \in Tasks /\ ~Alive(tasks[t].pid)
                         /\ tasks'[t] \in {BackToReady(tasks[t]),
                                           [BackToReady(tasks[t]) EXCEPT !.err = "blocker"]}
  BY <1>1 DEF CrashCandidates, Attempt, DetectCrashed
<1>3. \A t : limit(t) \in {1, DefaultFailureLimit}
  OBVIOUS
<1> HIDE DEF limit, crashed
<1>4. \A t \in crashed : fail(t) \in F
  BY <1>2, <1>3
<1>5. n \in Nat /\ SetToSeq(crashed) \in [1..n -> crashed]
  BY <1>2, ListOfSet, FS_Subset, DispatchAssumption
<1> HIDE DEF fail, n, F
<1>6. more \in Seq(F)
  BY <1>4, <1>5, FunctionIsSeq
<1> QED BY <1>1, <1>6 DEF F

LEMMA DispatcherTypes ==
    ASSUME Dispatched, Grown, NEW d \in Dispatchers, DispatcherStep(d)
    PROVE  Agendas' /\ Processes'
<1> USE DEF At, Attempt, Now, Dispatched
<1> DEFINE j == Now(d)
           S == DispatcherJob(Len(runs'))
<1>1. /\ agenda[d] # <<>> => j \in S /\ j \in DispatcherJob(Len(runs))
      /\ d \in Procs \ Workers
      /\ JobsOf(d, Len(runs')) = S
  BY NowTyped, Kinds, JobsGrow DEF Grown
<1>2. /\ \A a \in S : <<a>> \in Seq(S)
      /\ <<>> \in Seq(S)
      /\ \A t \in Tasks : \A op \in {"stale", "timeout", "consider", "claim"} : Job(op, t) \in S
      /\ RowJob({"release"}) \subseteq S
      /\ \A t \in Tasks : \A n \in {1, DefaultFailureLimit} :
             [op |-> "fail", task |-> t, limit |-> n] \in S
      /\ \A t \in Tasks, r \in Workers : r <= Len(runs') =>
             /\ [op |-> "spawn", task |-> t, run |-> r] \in S
             /\ [op |-> "setpid", task |-> t, run |-> r] \in S
      /\ \A t \in Tasks, why \in {"plain", "blocker"} :
             [op |-> "spawnfail", task |-> t, why |-> why] \in S
      /\ \A T \in SUBSET Tasks : \A op \in {"lease", "beat", "overdue"} :
             RowJobs(op, T) \in Seq(S)
      /\ \A T \in SUBSET Tasks : Jobs("consider", T) \in Seq(S)
  BY DispatcherJobs DEF Sound
<1>3. \A more \in Seq(S) : agenda[d] # <<>> /\ Then(d, more) /\ UNCHANGED <<life, worker>>
                               => Agendas' /\ Processes'
  BY <1>1, ThenStep
<1>4. \A x : \A more \in Seq(S) : agenda[d] # <<>> /\ Kill(d, x, more) /\ UNCHANGED life
                                 => Agendas' /\ Processes'
  BY <1>1, KillStep
<1>5. CASE SweepCrashes(d)
  <2> DEFINE F == {x \in [op: {"fail"}, task: Tasks, limit: {1, DefaultFailureLimit}] :
                      x.task \in CrashCandidates /\ ~Alive(tasks[x.task].pid)
                      /\ tasks'[x.task] \in {BackToReady(tasks[x.task]),
                                             [BackToReady(tasks[x.task]) EXCEPT !.err = "blocker"]}}
  <2>1. PICK more \in Seq(F) : Then(d, more) /\ UNCHANGED <<life, worker>> /\ agenda[d] # <<>>
    BY <1>5, SweepJobs
  <2>2. F \subseteq S
    BY DEF DispatcherJob
  <2> HIDE DEF F
  <2> QED BY <1>3, <2>1, <2>2, SeqMonotonic
<1> HIDE DEF S
<1>6. CASE StartTick(d)
  <2>1. agenda' = [agenda EXCEPT ![d] = Plan] /\ life[d] = "up" /\ UNCHANGED life
        /\ worker' = [r \in Workers |->
                         IF worker[r].parent = d /\ worker[r].st \in ExitKinds
                         THEN [worker[r] EXCEPT !.reaped = TRUE] ELSE worker[r]]
    BY <1>6 DEF StartTick
  <2>2. Agendas'
    BY <1>1, <2>1, PlanTyped, AgendasReplaced DEF Agendas, S
  <2>3. worker' \in [Workers -> WorkerRow] /\ \A r \in Workers : worker'[r].st = worker[r].st
    BY <2>1 DEF Processes, WorkerRow
  <2>4. \A q \in Procs : agenda'[q] # <<>> => agenda[q] # <<>> \/ q = d
    BY <2>1 DEF Agendas
  <2>5. Processes'
    BY <2>1, <2>3, <2>4, Kinds DEF Processes, Alive, Grown, Workers
  <2> QED BY <2>2, <2>5
<1>7. CASE ListLeases(d) \/ ListBeats(d) \/ ListOverdue(d) \/ ListReady(d)
  <2>1. Timed \subseteq Tasks
    BY DispatchAssumption
  <2> QED BY <1>2, <1>3, <1>7, <2>1 DEF ListLeases, ListBeats, ListOverdue, ListReady
<1>8. CASE CheckLease(d)
  <2>1. j \in RowJob({"lease"})
    BY <1>1, <1>8, JobShape DEF CheckLease
  <2>2. [j EXCEPT !.op = "release"] \in S
    BY <1>2, <2>1 DEF RowJob
  <2> HIDE DEF Now
  <2> QED BY <1>2, <1>3, <1>4, <1>8, <2>2 DEF CheckLease
<1>9. CASE ReleaseLease(d) \/ YankStale(d) \/ CountFailure(d) \/ Promote(d) \/ SetPid(d)
            \/ SpawnFailed(d)
  BY <1>2, <1>3, <1>9 DEF ReleaseLease, YankStale, CountFailure, Promote, SetPid, SpawnFailed
<1>10. CASE KillSilent(d) \/ KillOverdue(d)
  <2>1. j.task \in Tasks
    BY <1>1, <1>10, JobShape DEF KillSilent, KillOverdue
  <2> QED BY <1>2, <1>4, <1>10, <2>1 DEF KillSilent, KillOverdue
<1>11. CASE YankOverdue(d)
  <2>1. j.task \in Tasks
    BY <1>1, <1>11, JobShape DEF YankOverdue
  <2> QED BY <1>2, <1>3, <1>11, <2>1 DEF YankOverdue
<1>12. CASE Consider(d)
  <2>1. PICK linked \in BOOLEAN : ConsiderLinked(d, linked)
    BY <1>12 DEF Consider
  <2>2. j.task \in Tasks
    BY <1>1, <2>1, JobShape DEF ConsiderLinked
  <2> QED BY <1>2, <1>3, <2>1, <2>2 DEF ConsiderLinked
<1>13. CASE Claim(d)
  <2> DEFINE wins == Claimable(j.task) /\ RoomForRun
  <2>1. j.task \in Tasks
    BY <1>1, <1>13, JobShape DEF Claim
  <2>2. wins => Len(runs) + 1 \in Workers /\ Len(runs) + 1 <= Len(runs')
    <3> SUFFICES ASSUME wins PROVE Len(runs) + 1 \in Workers /\ Len(runs) + 1 <= Len(runs')
      OBVIOUS
    <3>1. Claimed(j.task, d)
      BY <1>13 DEF Claim, ClaimTask, Claimable, ClaimRejected, ClaimLost
    <3>2. Len(runs') = Len(runs) + 1
      BY <2>1, <3>1, RunEndedSeq DEF Claimed, Sound, RunPointers, RunBelongsToTask, Grown, Outcomes
    <3> QED BY <3>2, BoardAssumption DEF Workers, RoomForRun, Grown
  <2>3. Then(d, IF wins THEN <<[op |-> "spawn", task |-> j.task, run |-> Len(runs) + 1]>> ELSE <<>>)
        /\ agenda[d] # <<>> /\ UNCHANGED <<life, worker>>
    BY <1>13 DEF Claim
  <2>4. (IF wins THEN <<[op |-> "spawn", task |-> j.task, run |-> Len(runs) + 1]>> ELSE <<>>) \in Seq(S)
    BY <1>2, <2>1, <2>2
  <2> QED BY <1>3, <2>3, <2>4
<1>14. CASE Spawn(d)
  <2>1. /\ j.task \in Tasks /\ j.run \in Workers /\ j.run <= Len(runs)
        /\ j \in [op: {"spawn", "setpid"}, task: Tasks, run: {r \in Workers : r <= Len(runs)}]
    BY <1>1, <1>14, JobShape DEF Spawn, DispatcherJob, RowJob, TaskJob, PromoteJob
  <2>2. [j EXCEPT !.op = "setpid"] = [op |-> "setpid", task |-> j.task, run |-> j.run]
    BY <2>1
  <2> HIDE DEF Now, j
  <2>3. j.run <= Len(runs')
    BY <2>1 DEF Grown, Workers
  <2>4. [j EXCEPT !.op = "setpid"] \in S
    BY <1>2, <2>1, <2>2, <2>3
  <2> USE DEF Now, j
  <2>5. CASE UNCHANGED worker /\ \E why \in Mishaps \intersect {"plain", "blocker"} :
                Then(d, <<[op |-> "spawnfail", task |-> j.task, why |-> why]>>)
    BY <1>2, <1>3, <1>14, <2>1, <2>5 DEF Spawn
  <2>6. CASE /\ worker' = [worker EXCEPT ![j.run] =
                              [st |-> "working", parent |-> d, reaped |-> FALSE]]
             /\ Then(d, <<[j EXCEPT !.op = "setpid"]>>)
    <3> DEFINE list == <<[j EXCEPT !.op = "setpid"]>> \o Tail(agenda[d])
    <3>1. agenda[d] # <<>> /\ agenda' = [agenda EXCEPT ![d] = list] /\ UNCHANGED life
      BY <1>14, <2>6 DEF Spawn, Then
    <3>2. list \in Seq(S)
      BY <1>1, <1>2, <2>4, <3>1, AfterNow
    <3> HIDE DEF list
    <3>3. Agendas'
      BY <1>1, <3>1, <3>2, AgendasReplaced DEF Agendas
    <3>4. worker' \in [Workers -> WorkerRow]
          /\ \A r \in Workers : /\ worker'[r] = worker[r] \/ worker'[r].st = "working"
                                /\ worker'[r].st # "none" => r <= Len(runs')
      BY <2>1, <2>6 DEF Processes, WorkerRow, Grown, Workers
    <3>5. \A q \in Procs : agenda'[q] # <<>> => agenda[q] # <<>>
      BY <3>1 DEF Agendas
    <3>6. Processes'
      BY <3>1, <3>4, <3>5, Kinds DEF Processes, Alive, Workers
    <3> QED BY <3>3, <3>6
  <2> QED BY <1>14, <2>5, <2>6 DEF Spawn
<1> QED BY <1>6, <1>7, <1>8, <1>9, <1>5, <1>10, <1>11, <1>12, <1>13, <1>14 DEF DispatcherStep

LEMMA SharedTypes ==
    ASSUME Dispatched, Grown, NEW p \in Procs, Clear(p) \/ Promote(p)
    PROVE  Agendas' /\ Processes'
<1>1. <<>> \in Seq(JobsOf(p, Len(runs')))
  BY EmptySeq
<1> QED BY <1>1, ThenStep DEF Clear, Promote, At, Dispatched

\* A worker that is at rest announces how its turn ended; jobs may follow it.
LEMMA AnnounceTypes ==
    ASSUME Dispatched, Grown, NEW r \in Workers, Active(r),
           NEW st \in {"done"} \union ExitKinds, Announce(r, st), UNCHANGED life,
           NEW list \in Seq(WorkerMay), list # <<>> => st = "done",
           DOMAIN agenda' = Procs, agenda'[r] = list,
           \A q \in Procs \ {r} : agenda'[q] = agenda[q]
    PROVE  Agendas' /\ Processes'
<1> USE DEF Dispatched
<1>1. r \in Procs /\ JobsOf(r, Len(runs')) = WorkerMay /\ DOMAIN agenda = Procs
  BY Kinds DEF Agendas
<1>2. Agendas'
  BY <1>1, AgendasReplaced
<1>3. worker' = [worker EXCEPT ![r].st = st] /\ worker[r].st # "none"
  BY DEF Announce, Active, Alive
<1>4. worker' \in [Workers -> WorkerRow] /\ worker'[r].st = st
      /\ \A q \in Workers : q # r => worker'[q] = worker[q]
  BY <1>3 DEF Processes, WorkerRow
<1>5. \A q \in Procs : agenda'[q] # <<>> => agenda[q] # <<>> \/ (q = r /\ st = "done")
  BY <1>1
<1>6. Processes'
  BY <1>3, <1>4, <1>5, Kinds DEF Processes, Active, Alive, Grown, Workers
<1> QED BY <1>2, <1>6

LEMMA WorkerTypes ==
    ASSUME Dispatched, Grown, NEW r \in Workers, WorkerStep(r)
    PROVE  Agendas' /\ Processes'
<1> USE DEF Dispatched
<1>1. r \in Procs /\ JobsOf(r, Len(runs')) = WorkerMay /\ DOMAIN agenda = Procs
  BY Kinds DEF Agendas
<1>2. \A a, b \in WorkerMay : <<a, b>> \in Seq(WorkerMay) /\ <<a>> \in Seq(WorkerMay)
  OBVIOUS
<1>3. <<>> \in Seq(WorkerMay)
  OBVIOUS
<1>4. CASE BeatLease(r)
  <2>1. [op |-> "touch"] \in WorkerMay
    BY <1>4 DEF BeatLease, WorkerMay, WorkerJob
  <2>2. agenda' = [agenda EXCEPT ![r] = <<[op |-> "touch"]>>] /\ UNCHANGED <<life, worker>>
        /\ Alive(r)
    BY <1>4 DEF BeatLease, Active
  <2>3. Agendas'
    BY <1>1, <1>2, <2>1, <2>2, AgendasReplaced
  <2>4. \A q \in Procs : q # r => agenda'[q] = agenda[q]
    BY <1>1, <2>2
  <2>5. Processes'
    BY <2>2, <2>4, Kinds DEF Processes, Alive, Grown, Workers
  <2> QED BY <2>3, <2>5
<1>5. CASE BeatRow(r)
  BY <1>1, <1>3, <1>5, ThenStep DEF BeatRow, At
<1>6. CASE Complete(r)
  <2>1. Job("clear", Mine(r)) \in WorkerMay
    BY <1>6, WorkersTask DEF Complete, Active, Alive, Job, WorkerMay, WorkerJob, TaskJob
  <2>2. Recompute(DefaultFailureLimit) \in WorkerMay
    BY DEF Recompute, WorkerMay, WorkerJob, PromoteJob
  <2> DEFINE list == <<Job("clear", Mine(r)), Recompute(DefaultFailureLimit)>>
  <2>3. list \in Seq(WorkerMay)
    BY <1>2, <2>1, <2>2
  <2>4. /\ agenda' = [agenda EXCEPT ![r] = list]
        /\ Active(r) /\ Announce(r, "done") /\ UNCHANGED life
    BY <1>6 DEF Complete
  <2> HIDE DEF list
  <2> QED BY <1>1, <2>3, <2>4, AnnounceTypes
<1>7. CASE Block(r) \/ ExhaustBudget(r) \/ Exit(r)
  <2>1. Active(r) /\ UNCHANGED <<life, agenda>> /\ agenda[r] = <<>>
    BY <1>7 DEF Block, ExhaustBudget, Exit, Active
  <2>2. PICK st \in {"done"} \union ExitKinds : Announce(r, st)
    BY <1>7 DEF Block, ExhaustBudget, Exit, ExitKinds
  <2> QED BY <1>1, <1>3, <2>1, <2>2, AnnounceTypes
<1>8. CASE Clear(r) \/ Promote(r)
  BY <1>1, <1>8, SharedTypes
<1> QED BY <1>4, <1>5, <1>6, <1>7, <1>8 DEF WorkerStep

\* The operator's process starts a verb, or goes on with it.
LEMMA PlansTypes ==
    ASSUME Dispatched, Grown, NEW list \in Seq(OperatorMay), Plans(list), UNCHANGED <<life, worker>>
    PROVE  Agendas' /\ Processes'
<1>1. agenda' = [agenda EXCEPT ![Operator] = list] /\ DOMAIN agenda = Procs
      /\ Operator \in Procs /\ JobsOf(Operator, Len(runs')) = OperatorMay
  BY Kinds DEF Plans, Dispatched, Agendas
<1>2. Agendas'
  BY <1>1, AgendasReplaced DEF Dispatched
<1>3. \A q \in Procs : q # Operator => agenda'[q] = agenda[q]
  BY <1>1
<1>4. Processes'
  BY <1>3, Kinds DEF Dispatched, Processes, Alive, Grown, Workers
<1> QED BY <1>2, <1>4

LEMMA OperatorTypes ==
    ASSUME Dispatched, Grown, OperatorMove
    PROVE  Agendas' /\ Processes'
<1> DEFINE j == Now(Operator)
<1>1. /\ agenda[Operator] # <<>> => j \in OperatorMay
      /\ Operator \in Procs \ Workers
      /\ JobsOf(Operator, Len(runs')) = OperatorMay
  BY NowTyped, Kinds DEF Dispatched
<1>2. \A a, b \in OperatorMay : <<a>> \in Seq(OperatorMay) /\ <<a, b>> \in Seq(OperatorMay)
  OBVIOUS
<1>3. <<>> \in Seq(OperatorMay)
  OBVIOUS
<1>4. Recompute(DefaultFailureLimit) \in OperatorMay
      /\ \A t \in Tasks : Job("clear", t) \in OperatorMay
  BY DEF OperatorMay, OperatorJob, PromoteJob, TaskJob, Recompute, Job
<1>5. ASSUME NEW more \in Seq(OperatorMay), agenda[Operator] # <<>>, Then(Operator, more),
             UNCHANGED <<life, worker>>
      PROVE  Agendas' /\ Processes'
  BY <1>1, <1>5, ThenStep DEF Dispatched
<1>6. ASSUME NEW t \in Tasks, UNCHANGED <<life, worker>>,
             Unblock(t) \/ Hold(t) \/ Pull(t) \/ Archive(t) \/ Close(t)
      PROVE  Agendas' /\ Processes'
  BY <1>2, <1>3, <1>4, <1>6, PlansTypes DEF Unblock, Hold, Pull, Archive, Close
<1>7. ASSUME NEW t \in Tasks, UNCHANGED <<life, worker>>, Drag(t)
      PROVE  Agendas' /\ Processes'
  <2>1. PICK s \in {"triage", "todo", "ready"}, op \in {"unblock", "drop"} :
            Plans(<<[op |-> op, task |-> t, to |-> s]>>)
    BY <1>7 DEF Drag
  <2>2. Does("move") /\ Does("unblock")
    BY <1>7, DispatchAssumption DEF Drag, Does
  <2>3. [op |-> op, task |-> t, to |-> s] \in OperatorMay
    BY <2>2 DEF OperatorMay, OperatorJob
  <2> QED BY <1>2, <1>7, <2>1, <2>3, PlansTypes
<1>8. ASSUME NEW t \in Tasks, UNCHANGED <<life, worker>>, BeginReclaim(t)
      PROVE  Agendas' /\ Processes'
  <2> DEFINE R == {x \in RowJob({"terminate"}) : x.task \in {t} /\ x.lock = tasks[x.task].lock
                                                /\ x.pid = tasks[x.task].pid}
  <2>1. Does("reclaim") /\ tasks[t].lock \in Claimers /\ Plans(RowJobs("terminate", {t}))
    BY <1>8, RowsAreRows DEF BeginReclaim, Dispatched, RunningIsClaimed, Sound, TaskRow
  <2>2. R \subseteq OperatorMay
    BY <2>1 DEF OperatorMay, OperatorJob, RowJob
  <2>3. RowJobs("terminate", {t}) \in Seq(R)
    BY RowJobsTyped DEF Dispatched, Sound
  <2> HIDE DEF R
  <2>4. RowJobs("terminate", {t}) \in Seq(OperatorMay)
    BY <2>2, <2>3, SeqMonotonic
  <2> QED BY <1>8, <2>1, <2>4, PlansTypes
<1>9. ASSUME NEW t \in Tasks, UNCHANGED <<life, worker>>, BeginPromote(t)
      PROVE  Agendas' /\ Processes'
  <2>1. Job("promote", t) \in OperatorMay
    BY <1>9 DEF BeginPromote, OperatorMay, OperatorJob, TaskJob, Job
  <2> QED BY <1>2, <1>9, <2>1, PlansTypes DEF BeginPromote
<1>10. CASE UNCHANGED <<life, worker>> /\ (Drop \/ DropUnblock \/ FinishPromote)
  BY <1>2, <1>3, <1>4, <1>5, <1>10 DEF Drop, DropUnblock, FinishPromote, At
<1>11. CASE UNCHANGED <<life, worker>> /\ Reclaim
  <2>1. j.task \in Tasks
    BY <1>1, <1>11, OperatorShape DEF Reclaim, At, Now
  <2> QED BY <1>2, <1>3, <1>4, <1>5, <1>11, <2>1 DEF Reclaim, At
<1>12. CASE Terminate
  <2>1. j \in RowJob({"terminate"}) /\ j.lock \in Claimers /\ Does("reclaim")
    BY <1>1, <1>12, OperatorShape DEF Terminate, At, Now
  <2> HIDE DEF j
  <2>2. [j EXCEPT !.op = "reclaim"] \in OperatorMay
    BY <2>1 DEF RowJob, OperatorMay, OperatorJob
  <2> USE DEF j
  <2>3. <<[j EXCEPT !.op = "reclaim"]>> \in Seq(OperatorMay)
    BY <1>2, <2>2
  <2> QED BY <1>1, <1>12, <2>3, KillStep DEF Terminate, At, Dispatched
<1>13. CASE Clear(Operator) \/ Promote(Operator)
  BY <1>1, <1>13, SharedTypes
<1> QED BY <1>6, <1>7, <1>8, <1>9, <1>10, <1>11, <1>12, <1>13 DEF OperatorMove

LEMMA InitDispatched == Init => Dispatched
<1> SUFFICES ASSUME Init PROVE Dispatched
  OBVIOUS
<1>1. Sound /\ RunningIsClaimed /\ GoneIsIdle
  BY InitSound, ClaimedInit, GoneInit DEF Init
<1>2. agenda = [p \in Procs |-> <<>>] /\ worker = [r \in Workers |-> NoWorker]
      /\ life = [d \in Dispatchers |-> "new"]
  BY DEF Init
<1>3. Agendas
  BY <1>2, EmptySeq DEF Agendas
<1>4. Processes
  BY <1>2, Kinds DEF Processes, WorkerRow, NoWorker
<1> QED BY <1>1, <1>3, <1>4 DEF Dispatched

LEMMA StepGrown ==
    ASSUME Dispatched, [Next]_vars
    PROVE  Sound' /\ RunningIsClaimed' /\ GoneIsIdle' /\ Grown
  BY NextBoard, StepSound, ClaimedStep, GoneStep, RunsGrow DEF Dispatched, Grown

LEMMA StepDispatched == Dispatched /\ [Next]_vars => Dispatched'
<1> SUFFICES ASSUME Dispatched, [Next]_vars PROVE Dispatched'
  OBVIOUS
<1>1. Sound' /\ RunningIsClaimed' /\ GoneIsIdle' /\ Grown
  BY StepGrown
<1>2. ASSUME UNCHANGED <<worker, agenda>>, life' \in [Dispatchers -> {"new", "up", "down"}],
             \A d \in Dispatchers : life[d] = "up" => life'[d] = "up"
      PROVE  Agendas' /\ Processes'
  <2>1. Agendas /\ Processes
    BY DEF Dispatched
  <2>2. Operator \in Procs /\ DOMAIN agenda = Procs
        /\ agenda[Operator] \in Seq(JobsOf(Operator, Len(runs')))
    BY <1>1, <2>1, AgendasGrow, Kinds DEF Agendas, Grown
  <2>3. Agendas'
    BY <1>1, <1>2, <2>1, <2>2, AgendasReplaced
  <2>4. /\ \A d \in Dispatchers : agenda'[d] # <<>> => life'[d] = "up"
        /\ \A r \in Workers : agenda'[r] # <<>> => Alive(r)'
    BY <1>2, <2>1 DEF Processes, Alive
  <2>5. \A r \in Workers : worker'[r].st # "none" => r <= Len(runs')
    BY <1>1, <1>2, <2>1 DEF Processes, Grown, Workers
  <2> QED BY <1>2, <2>1, <2>3, <2>4, <2>5 DEF Processes
<1>3. ASSUME NEW d \in Dispatchers, Boot(d)
      PROVE  Agendas' /\ Processes'
  BY <1>2, <1>3 DEF Boot, Dispatched, Processes
<1>4. ASSUME NEW d \in Dispatchers, Die(d)
      PROVE  Agendas' /\ Processes'
  <2>1. agenda' = [agenda EXCEPT ![d] = <<>>] /\ life' = [life EXCEPT ![d] = "down"]
        /\ UNCHANGED worker /\ d \in Procs /\ DOMAIN agenda = Procs
    BY <1>4, Kinds DEF Die, Dispatched, Agendas
  <2>2. Agendas'
    BY <1>1, <2>1, AgendasReplaced, EmptySeq DEF Dispatched
  <2>3. Processes'
    BY <1>1, <2>1, Kinds DEF Dispatched, Processes, Alive, Grown, Workers
  <2> QED BY <2>2, <2>3
<1>5. ASSUME Tick \/ UNCHANGED vars
      PROVE  Agendas' /\ Processes'
  BY <1>2, <1>5 DEF Tick, vars, Dispatched, Processes
<1>6. Agendas' /\ Processes'
  BY <1>1, <1>3, <1>4, <1>5, DispatcherTypes, WorkerTypes, OperatorTypes DEF Next
<1> QED BY <1>1, <1>6 DEF Dispatched

THEOREM DispatchInvariant == Spec => []Dispatched
<1> QED BY InitDispatched, StepDispatched, PTL DEF Spec

\* Whatever dies, races or comes late, each process is where its code can be: a
\* list only holds jobs of its kind of process, with what that code has read;
\* only processes that run have jobs left; a worker has a run.
THEOREM DispatchTypes == Spec => []DispatchTypeOK
<1>1. Dispatched => DispatchTypeOK
  <2> SUFFICES ASSUME Dispatched PROVE DispatchTypeOK
    OBVIOUS
  <2> USE DEF Dispatched
  <2>1. \A d \in Dispatchers : agenda[d] \in Seq(DispatcherJob(Len(runs)))
    BY Kinds DEF Agendas
  <2>2. WorkerMay \subseteq WorkerJob /\ OperatorMay \subseteq OperatorJob
    BY DEF WorkerMay, OperatorMay
  <2>3. \A r \in Workers : agenda[r] \in Seq(WorkerJob)
    BY <2>2, Kinds, SeqMonotonic DEF Agendas
  <2>4. agenda[Operator] \in Seq(OperatorJob)
    BY <2>2, Kinds, SeqMonotonic DEF Agendas
  <2> QED BY <2>1, <2>3, <2>4 DEF DispatchTypeOK, Sound, Agendas, Processes, WorkerRow
<1> QED BY <1>1, DispatchInvariant, PTL

\* Dispatchers, workers and the operator write to the board by its transactions
\* only, however stale what they have read: all that is proved of the board
\* holds of the system.
THEOREM DispatchIsBoard == Spec => ImplementsBoard
<1>1. Init => BoardInit
  BY DEF Init
<1>2. Dispatched /\ [Next]_vars => [BoardNext]_boardVars
  BY NextBoard
<1> QED BY <1>1, <1>2, DispatchInvariant, PTL DEF Spec, ImplementsBoard, BoardSpec

\* A finished card stays finished, unless a human archives, reopens or deletes
\* it: no watchdog, dispatcher or stale worker takes it back.
THEOREM DoneStays ==
    ASSUME Verbs \intersect {"archive", "move", "delete"} = {}
    PROVE  Spec => DoneIsFinal
<1>1. Dispatched /\ [Next]_vars =>
          [\A t \in Tasks : tasks[t].status = "done" => tasks'[t].status = "done"]_vars
  BY NextBoard, StepStatus DEF Dispatched, StatusStep, StatusChange, Does
<1> QED BY <1>1, DispatchInvariant, PTL DEF Spec, DoneIsFinal

----------------------------------------------------------------------------
(* Who writes the outcome of an attempt *)

\* No attempt is ended as completed or blocked.
NoVerdict ==
    \A r \in 1..Len(runs) : Open(r) => runs'[r].outcome \notin {"completed", "blocked"}

LEMMA EndedOutcome ==
    ASSUME Sound, NEW t \in Tasks, NEW o
    PROVE  /\ Len(RunEnded(tasks[t].run, o)) = Len(runs)
           /\ \A q \in 1..Len(runs) :
                 RunEnded(tasks[t].run, o)[q].outcome =
                     IF q = tasks[t].run /\ Open(q) THEN o ELSE runs[q].outcome
<1>1. CASE tasks[t].run # 0 /\ Open(tasks[t].run)
  <2>1. RunEnded(tasks[t].run, o) = [runs EXCEPT ![tasks[t].run] = Ended(tasks[t].run, o)]
    BY <1>1 DEF RunEnded
  <2>2. Ended(tasks[t].run, o).outcome = o
    BY DEF Ended
  <2> QED BY <1>1, <2>1, <2>2 DEF Sound, TypeOK
<1>2. CASE ~(tasks[t].run # 0 /\ Open(tasks[t].run))
  BY <1>2 DEF RunEnded, Sound, TypeOK
<1> QED BY <1>1, <1>2

Losses == {"reclaimed", "stale", "timed_out", "gave_up", "crashed", "spawn_failed"}

LEMMA EndedNoVerdict ==
    ASSUME Sound, NEW t \in Tasks, NEW o \in Losses,
           UNCHANGED runs \/ runs' = RunEnded(tasks[t].run, o)
    PROVE  NoVerdict
<1>1. CASE UNCHANGED runs
  BY <1>1 DEF NoVerdict, Open
<1>2. CASE runs' = RunEnded(tasks[t].run, o)
  <2>1. \A q \in 1..Len(runs) : runs'[q].outcome \in {o, runs[q].outcome}
    BY <1>2, EndedOutcome
  <2> QED BY <2>1 DEF NoVerdict, Open, Losses
<1> QED BY <1>1, <1>2

LEMMA FailureNoVerdict ==
    ASSUME Sound, NEW t \in Tasks, NEW n, NEW held, NEW why, NEW o \in Losses,
           RecordFailure(t, n, held, why, o)
    PROVE  NoVerdict
<1>1. UNCHANGED runs \/ \E v \in {"gave_up", o} : runs' = RunEnded(tasks[t].run, v)
  BY DEF RecordFailure
<1> QED BY <1>1, EndedNoVerdict DEF Losses

LEMMA ClaimNoVerdict ==
    ASSUME Sound, NEW t \in Tasks, NEW l, ClaimTask(t, l)
    PROVE  NoVerdict
<1>1. CASE ClaimRejected(t) \/ ClaimLost(t)
  BY <1>1, EndedNoVerdict DEF ClaimRejected, ClaimLost, Losses
<1>2. CASE Claimed(t, l)
  <2> DEFINE closed == RunEnded(tasks[t].run, "reclaimed")
             new == [task |-> t, outcome |-> "open", age |-> "young"]
  <2>1. runs' = Append(closed, new)
    BY <1>2 DEF Claimed
  <2>2. closed \in Seq(RunRow) /\ Len(closed) = Len(runs)
    BY RunEndedSeq DEF Sound, RunPointers, RunBelongsToTask, Outcomes
  <2>3. \A q \in 1..Len(runs) : closed[q].outcome \in {"reclaimed", runs[q].outcome}
    BY EndedOutcome
  <2> HIDE DEF closed, new
  <2>4. \A q \in 1..Len(runs) : runs'[q] = closed[q]
    BY <2>1, <2>2
  <2> QED BY <2>3, <2>4 DEF NoVerdict, Open
<1> QED BY <1>1, <1>2 DEF ClaimTask

LEMMA SweepNoVerdict ==
    ASSUME Sound, NEW dead, NEW throttled, DetectCrashed(dead, throttled)
    PROVE  NoVerdict
<1> DEFINE after(r) == IF Open(r) /\ \E t \in dead : tasks[t].run = r
                       THEN Ended(r, IF runs[r].task \in throttled THEN "rate_limited" ELSE "crashed")
                       ELSE runs[r]
<1>1. runs' = [r \in 1..Len(runs) |-> after(r)]
  BY DEF DetectCrashed
<1>2. \A r : after(r).outcome \in {"rate_limited", "crashed", runs[r].outcome}
  BY DEF Ended
<1> HIDE DEF after
<1> QED BY <1>1, <1>2 DEF NoVerdict, Open

LEMMA TickNoVerdict ==
    ASSUME Sound, Tick
    PROVE  NoVerdict
<1>1. CASE UNCHANGED runs
  BY <1>1 DEF NoVerdict, Open
<1>2. ASSUME NEW r \in 1..Len(runs), RunAges(r)
      PROVE  NoVerdict
  BY <1>2 DEF RunAges, NoVerdict, Open, Sound, TypeOK
<1> QED BY <1>1, <1>2 DEF Tick, LeaseLapses, GraceEnds, HeartbeatAges

LEMMA DispatcherNoVerdict ==
    ASSUME Dispatched, NEW d \in Dispatchers, DispatcherStep(d)
    PROVE  NoVerdict
<1> USE DEF boardVars, At, Attempt, Now
<1> DEFINE j == Now(d)
<1>1. agenda[d] # <<>> => j \in DispatcherJob(Len(runs))
  BY NowTyped, Kinds DEF Dispatched
<1>2. UNCHANGED runs => NoVerdict
  BY DEF NoVerdict, Open
<1>3. CASE StartTick(d) \/ ListLeases(d) \/ ListBeats(d) \/ KillSilent(d) \/ ListOverdue(d)
           \/ KillOverdue(d) \/ ListReady(d) \/ Consider(d) \/ Spawn(d) \/ Promote(d)
  BY <1>2, <1>3 DEF StartTick, ListLeases, ListBeats, KillSilent, ListOverdue, KillOverdue,
                    ListReady, Consider, ConsiderLinked, Spawn, Promote, RecomputeReady
<1>4. CASE SetPid(d) \/ CheckLease(d)
  BY <1>2, <1>4 DEF SetPid, SetWorkerPid, CheckLease, ExtendClaim
<1>5. CASE ReleaseLease(d) \/ YankStale(d) \/ YankOverdue(d)
  <2>1. j.task \in Tasks
    BY <1>1, <1>5, JobShape DEF ReleaseLease, YankStale, YankOverdue
  <2>2. UNCHANGED runs \/ \E o \in {"reclaimed", "stale", "timed_out"} :
                              runs' = RunEnded(tasks[j.task].run, o)
    BY <1>5 DEF ReleaseLease, YankStale, YankOverdue, ReleaseStaleClaim, YankRunning
  <2> QED BY <2>1, <2>2, EndedNoVerdict DEF Dispatched, Losses
<1>6. CASE SweepCrashes(d)
  BY <1>2, <1>6, SweepNoVerdict DEF SweepCrashes, Dispatched
<1>7. CASE CountFailure(d) \/ SpawnFailed(d)
  <2>1. j.task \in Tasks
    BY <1>1, <1>7, JobShape DEF CountFailure, SpawnFailed
  <2>2. \/ UNCHANGED runs
        \/ \E n, held, why : \E o \in {"crashed", "spawn_failed"} :
               RecordFailure(j.task, n, held, why, o)
    BY <1>7 DEF CountFailure, SpawnFailed
  <2> QED BY <1>2, <2>1, <2>2, FailureNoVerdict DEF Dispatched, Losses
<1>8. CASE Claim(d)
  <2>1. j.task \in Tasks
    BY <1>1, <1>8, JobShape DEF Claim
  <2>2. UNCHANGED runs \/ ClaimTask(j.task, d)
    BY <1>8 DEF Claim
  <2> QED BY <1>2, <2>1, <2>2, ClaimNoVerdict DEF Dispatched
<1> QED BY <1>3, <1>4, <1>5, <1>6, <1>7, <1>8 DEF DispatcherStep

\* Whoever ends a turn has no open attempt afterwards.
DoneIsClosed == \A r \in Workers : worker[r].st = "done" => ~Open(r)

\* Only the worker of an attempt ends it with a verdict, and only it says so.
LEMMA TurnEnds ==
    ASSUME Dispatched, DoneIsClosed, NEW r \in Workers, WorkerStep(r)
    PROVE  /\ NoVerdict \/ /\ worker[r].st = "working" /\ worker'[r].st = "done"
                           /\ \A q \in 1..Len(runs) :
                                 Open(q) /\ runs'[q].outcome # "open" => q = r
           /\ \A q \in Workers : worker'[q].st = "done" =>
                  worker[q].st = "done" \/ (q = r /\ r \in 1..Len(runs) /\ runs'[r].outcome # "open")
<1> USE DEF Dispatched
<1> DEFINE t == Mine(r)
<1>1. \A q \in 1..Len(runs) : Open(q) => runs[q].task \in Tasks /\ tasks[runs[q].task].run = q
  BY RunRows DEF Sound, RunPointers, OpenRunIsCurrent
<1>2. Alive(r) => t \in Tasks /\ r \in 1..Len(runs) /\ worker[r].st \in {"working", "done"}
  BY WorkersTask DEF Alive
<1>3. UNCHANGED runs => NoVerdict
  BY DEF NoVerdict, Open
<1>4. \A st : Announce(r, st) => /\ worker'[r].st = st
                                 /\ \A q \in Workers : q # r => worker'[q] = worker[q]
  BY DEF Announce, Processes, WorkerRow
<1>5. CASE BeatLease(r) \/ BeatRow(r) \/ Clear(r) \/ Promote(r)
  <2>1. UNCHANGED <<runs, worker>>
    BY <1>5 DEF BeatLease, BeatRow, Clear, Promote, Attempt, boardVars, HeartbeatClaim,
                HeartbeatWorker, ClearFailureCounter, RecomputeReady
  <2> QED BY <1>3, <2>1
<1>6. CASE Exit(r)
  <2>1. UNCHANGED runs /\ \E st \in {"clean", "error", "limited"} : Announce(r, st)
    BY <1>6 DEF Exit
  <2> QED BY <1>3, <1>4, <2>1
<1>7. CASE Complete(r) \/ Block(r)
  <2>1. PICK o \in {"completed", "blocked"} :
            /\ tasks[t].run = r \/ r = 0
            /\ runs' = RunEndedOrSynthesized(t, o, TRUE)
            /\ Announce(r, "done") /\ Alive(r)
    BY <1>7 DEF Complete, Block, CompleteTask, BlockTask, Finish, Expected, Active
  <2>2. tasks[t].run = r /\ runs' = RunEnded(tasks[t].run, o) /\ t \in Tasks
    BY <1>2, <2>1 DEF RunEndedOrSynthesized, Workers
  <2>3. \A q \in 1..Len(runs) :
            runs'[q].outcome = IF q = r /\ Open(q) THEN o ELSE runs[q].outcome
    BY <2>2, EndedOutcome
  <2>4. Open(r) => worker[r].st = "working"
    BY <1>2, <2>1 DEF DoneIsClosed
  <2>5. NoVerdict \/ Open(r)
    BY <2>3 DEF NoVerdict, Open
  <2> QED BY <1>2, <1>4, <2>1, <2>3, <2>4, <2>5 DEF Open
<1>8. CASE ExhaustBudget(r)
  <2>1. Announce(r, "done") /\ Alive(r)
        /\ Attempt(Present(t), RecordFailure(t, DefaultFailureLimit, TRUE, "plain", "timed_out"))
    BY <1>8 DEF ExhaustBudget, Active
  <2>2. CASE Present(t)
    <3>1. RecordFailure(t, DefaultFailureLimit, TRUE, "plain", "timed_out")
      BY <2>1, <2>2 DEF Attempt
    <3>2. NoVerdict
      BY <1>2, <2>1, <3>1, FailureNoVerdict DEF Losses
    <3>3. PICK o \in {"gave_up", "timed_out"} : runs' = RunEnded(tasks[t].run, o)
      BY <3>1 DEF RecordFailure
    <3>4. runs'[r].outcome # "open"
      BY <1>1, <1>2, <2>1, <3>3, EndedOutcome DEF Mine, Open
    <3> QED BY <1>2, <1>4, <2>1, <3>2, <3>4
  <2>3. CASE ~Present(t)
    <3>1. UNCHANGED runs
      BY <2>1, <2>3 DEF Attempt, boardVars
    <3>2. ~Open(r)
      BY <1>1, <1>2, <2>1, <2>3 DEF Present, Mine, GoneIsIdle, IdleIfGone
    <3> QED BY <1>2, <1>3, <1>4, <2>1, <3>1, <3>2 DEF Open
  <2> QED BY <2>2, <2>3
<1> QED BY <1>5, <1>6, <1>7, <1>8 DEF WorkerStep

\* Nobody else ends a worker's turn.
LEMMA OnlyWorkersEnd ==
    ASSUME Dispatched,
           OperatorMove \/ Tick \/ UNCHANGED vars
               \/ \E d \in Dispatchers : DispatcherStep(d) \/ Boot(d) \/ Die(d)
    PROVE  \A q \in Workers : worker'[q].st = "done" => worker[q].st = "done"
<1> DEFINE Goal == \A q \in Workers : worker'[q].st = "done" => worker[q].st = "done"
<1>1. UNCHANGED worker => Goal
  OBVIOUS
<1>2. \A x : worker' = Killed(x) => Goal
  BY DEF Killed, Dispatched, Processes, WorkerRow
<1>3. CASE OperatorMove
  BY <1>1, <1>2, <1>3 DEF OperatorMove, Terminate, Kill, Clear, Promote
<1>4. ASSUME NEW d \in Dispatchers, DispatcherStep(d)
      PROVE  Goal
  <2>1. CASE CheckLease(d) \/ KillSilent(d) \/ KillOverdue(d)
    <3>1. UNCHANGED worker \/ worker' = Killed(Now(d).pid)
      BY <2>1 DEF CheckLease, KillSilent, KillOverdue, Kill
    <3> QED BY <1>1, <1>2, <3>1
  <2>2. CASE StartTick(d)
    BY <2>2 DEF StartTick, Dispatched, Processes, WorkerRow
  <2>3. CASE Spawn(d)
    <3>1. \/ UNCHANGED worker
          \/ worker' = [worker EXCEPT ![Now(d).run] =
                           [st |-> "working", parent |-> d, reaped |-> FALSE]]
      BY <2>3 DEF Spawn
    <3> QED BY <1>1, <3>1 DEF Dispatched, Processes
  <2> QED BY <1>1, <1>4, <2>1, <2>2, <2>3
          DEF DispatcherStep, ListLeases, ReleaseLease, ListBeats, YankStale, SweepCrashes,
              CountFailure, ListOverdue, YankOverdue, Promote, ListReady, Consider,
              ConsiderLinked, Claim, SetPid,
              SpawnFailed
<1> QED BY <1>1, <1>3, <1>4 DEF Boot, Die, Tick, vars

LEMMA StepClosed ==
    ASSUME Dispatched, DoneIsClosed, [Next]_vars
    PROVE  DoneIsClosed'
<1>1. /\ Len(runs) \in Nat
      /\ \A r \in 1..Len(runs) : ~Open(r) => runs'[r].outcome # "open"
  BY NextBoard, StepSound, RunsGrow DEF Dispatched
<1>2. \A q \in Workers : worker[q].st = "done" => q \in 1..Len(runs) /\ ~Open(q)
  BY <1>1 DEF DoneIsClosed, Dispatched, Processes, Workers
<1>3. \A q \in Workers : worker'[q].st = "done" =>
          worker[q].st = "done" \/ runs'[q].outcome # "open"
  BY TurnEnds, OnlyWorkersEnd DEF Next
<1> QED BY <1>1, <1>2, <1>3 DEF DoneIsClosed, Open

LEMMA OperatorVerdict ==
    ASSUME Dispatched, OperatorMove
    PROVE  \/ NoVerdict
           \/ worker' = worker /\ \A p \in Procs \ {Operator} : agenda'[p] = agenda[p]
<1>1. UNCHANGED runs => NoVerdict
  BY DEF NoVerdict, Open
<1>2. CASE Terminate \/ Clear(Operator) \/ Promote(Operator)
  BY <1>1, <1>2 DEF Terminate, Clear, Promote, Attempt, boardVars, ClearFailureCounter,
                    RecomputeReady
<1>3. CASE UNCHANGED worker /\ \E list : agenda' = [agenda EXCEPT ![Operator] = list]
  BY <1>3, Kinds DEF Dispatched, Agendas
<1> QED BY <1>2, <1>3 DEF OperatorMove, Unblock, Hold, Pull, Archive, Close, Drag, BeginReclaim,
                          BeginPromote, Drop, DropUnblock, Reclaim, FinishPromote, Plans, Then

\* A worker that was given up for dead and comes back late never ends the
\* attempt of its successor: what is recorded as completed or blocked is what
\* the worker of that attempt said, or a human at rest.
THEOREM OutcomeIsOwn == Spec => OwnOutcome
<1> DEFINE Own == \A r \in 1..Len(runs) :
                      Open(r) /\ runs'[r].outcome \in {"completed", "blocked"}
                          => \/ worker[r].st = "working" /\ worker'[r].st = "done"
                             \/ /\ worker' = worker
                                /\ \A p \in Procs \ {Operator} : agenda'[p] = agenda[p]
<1>1. Dispatched /\ DoneIsClosed /\ [Next]_vars => [Own]_vars
  <2> SUFFICES ASSUME Dispatched, DoneIsClosed, Next PROVE Own
    OBVIOUS
  <2>1. NoVerdict => Own
    BY DEF NoVerdict
  <2>2. ASSUME NEW d \in Dispatchers, Boot(d) \/ Die(d)
        PROVE  NoVerdict
    BY <2>2 DEF Boot, Die, NoVerdict, Open
  <2>3. CASE Tick
    BY <2>1, <2>3, TickNoVerdict DEF Dispatched
  <2>4. ASSUME NEW r \in Workers, WorkerStep(r)
        PROVE  Own
    BY <2>1, <2>4, TurnEnds
  <2>5. CASE OperatorMove
    BY <2>1, <2>5, OperatorVerdict
  <2> QED BY <2>1, <2>2, <2>3, <2>4, <2>5, DispatcherNoVerdict DEF Next
<1>2. Init => DoneIsClosed
  BY DEF Init, DoneIsClosed, NoWorker
<1>3. Dispatched /\ DoneIsClosed /\ [Next]_vars => DoneIsClosed'
  BY StepClosed
<1> HIDE DEF Own
<1>4. Spec => [][Own]_vars
  BY <1>1, <1>2, <1>3, DispatchInvariant, PTL DEF Spec
<1> QED BY <1>4 DEF OwnOutcome, Own

----------------------------------------------------------------------------
(* One dispatcher at a time: what is known of its list of jobs *)

OneUp == \A d, e \in Dispatchers : life[d] = "up" /\ life[e] = "up" => d = e

\* dispatch_once sweeps first and then claims: the jobs of its second half never
\* wait behind those of the first; a job that goes on with another is the head.
Late == {"consider", "claim", "spawn", "setpid", "spawnfail"}
HeadOnly == {"release", "stale", "timeout", "claim", "spawn", "setpid", "spawnfail"}

LateList(s) == \A i \in 1..Len(s) : s[i].op \in Late
EarlyList(s) == \A i \in 1..Len(s) : s[i].op \notin Late /\ (s[i].op = "scan" => i = Len(s))

Phase(s) ==
    /\ LateList(s) \/ EarlyList(s)
    /\ \A i \in 2..Len(s) : s[i].op \notin HeadOnly

Phased == \A d \in Dispatchers : Phase(agenda[d])

\* The kinds of jobs that take the place of a job of kind op.
Successors(op) ==
    CASE op = "leases"   -> {"lease"}
      [] op = "lease"    -> {"release"}
      [] op = "beats"    -> {"beat"}
      [] op = "beat"     -> {"stale"}
      [] op = "crashes"  -> {"fail"}
      [] op = "runtimes" -> {"overdue"}
      [] op = "overdue"  -> {"timeout"}
      [] op = "timeout"  -> {"fail"}
      [] op = "scan"     -> {"consider"}
      [] op = "consider" -> {"claim"}
      [] op = "claim"    -> {"spawn"}
      [] op = "spawn"    -> {"setpid", "spawnfail"}
      [] OTHER           -> {}

\* Process p has done its first job, and more takes its place; another that it
\* kills loses its list.
Advances(p, more) ==
    /\ agenda'[p] = more \o Tail(agenda[p])
    /\ \A q \in Procs \ {p} : agenda'[q] \in {agenda[q], <<>>}

LEMMA ThenAdvances ==
    ASSUME Agendas, NEW p \in Procs, NEW more, Then(p, more)
    PROVE  Advances(p, more)
  BY DEF Agendas, Advances, Then

LEMMA KillAdvances ==
    ASSUME Agendas, NEW p \in Procs, NEW x, x # p, NEW more, Kill(p, x, more)
    PROVE  Advances(p, more)
  BY DEF Agendas, Advances, Kill, KilledAgenda

LEMMA PhaseKept ==
    ASSUME NEW S, NEW list \in Seq(S), list # <<>>, Phase(list), NEW more \in Seq(S),
           \A k \in 1..Len(more) : /\ more[k].op \in Successors(Head(list).op)
                                   /\ more[k].op \in HeadOnly => Len(more) = 1
    PROVE  Phase(more \o Tail(list))
<1> DEFINE new == more \o Tail(list)
           op == Head(list).op
<1>1. /\ new \in Seq(S) /\ Len(new) \in Nat /\ Len(more) \in Nat
      /\ Len(new) = Len(more) + Len(list) - 1
      /\ \A i \in 1..Len(new) :
            \/ i \in 1..Len(more) /\ new[i] = more[i]
            \/ /\ i > Len(more) /\ i - Len(more) + 1 \in 2..Len(list)
               /\ new[i] = list[i - Len(more) + 1]
  BY AfterHead, LenProperties, ConcatProperties, HeadTailProperties
<1>2. Len(list) \in Nat /\ Len(list) > 0 /\ Head(list) = list[1]
  BY LenProperties, EmptySeq, HeadTailProperties
<1>3. op \in Late => LateList(list) /\ Successors(op) \subseteq Late
  BY <1>2 DEF Phase, EarlyList, Late, Successors
<1>4. op \notin Late => EarlyList(list)
  BY <1>2 DEF Phase, LateList
<1>5. op \notin Late /\ op # "scan" => \A x \in Successors(op) : x \notin Late /\ x # "scan"
  BY DEF Late, Successors
<1>6. op = "scan" => Successors(op) = {"consider"}
  BY DEF Successors
<1>7. \A k \in 1..Len(more) : more[k].op \in Successors(op)
  OBVIOUS
<1>8. list[1].op = op
  BY <1>2
<1> HIDE DEF new, op
<1>9. \A i \in 2..Len(new) : new[i].op \notin HeadOnly
  BY <1>1, <1>2 DEF Phase
<1>10. CASE op \in Late
  <2>1. \A i \in 1..Len(more) : more[i].op \in Late
    BY <1>3, <1>10, <1>7
  <2>2. \A i \in 1..Len(list) : list[i].op \in Late
    BY <1>3, <1>10 DEF LateList
  <2>3. LateList(new)
    BY <1>1, <1>2, <2>1, <2>2 DEF LateList
  <2> QED BY <1>9, <2>3 DEF Phase, new
<1>11. CASE op \notin Late /\ op # "scan"
  <2>1. \A i \in 1..Len(more) : more[i].op \notin Late /\ more[i].op # "scan"
    BY <1>5, <1>11, <1>7
  <2>2. \A i \in 1..Len(list) : list[i].op \notin Late /\ (list[i].op = "scan" => i = Len(list))
    BY <1>4, <1>11 DEF EarlyList
  <2>3. \A i \in 1..Len(new) : new[i].op \notin Late /\ (new[i].op = "scan" => i = Len(new))
    <3> SUFFICES ASSUME NEW i \in 1..Len(new)
                 PROVE  new[i].op \notin Late /\ (new[i].op = "scan" => i = Len(new))
      OBVIOUS
    <3>1. CASE i \in 1..Len(more) /\ new[i] = more[i]
      BY <2>1, <3>1
    <3>2. CASE i - Len(more) + 1 \in 2..Len(list) /\ new[i] = list[i - Len(more) + 1]
      <4>1. i - Len(more) + 1 \in 1..Len(list)
        BY <1>1, <1>2, <3>2
      <4>2. new[i].op = "scan" => i - Len(more) + 1 = Len(list)
        BY <2>2, <3>2, <4>1
      <4> QED BY <1>1, <1>2, <2>2, <3>2, <4>1, <4>2
    <3> QED BY <1>1, <3>1, <3>2
  <2>4. EarlyList(new)
    BY <2>3 DEF EarlyList
  <2>5. Phase(new)
    BY <1>9, <2>4 DEF Phase
  <2> QED BY <2>5 DEF new
<1>12. CASE op = "scan"
  <2>1. EarlyList(list)
    BY <1>4, <1>12 DEF Late
  <2>2. Len(list) = 1
    <3>1. \A i \in 1..Len(list) : list[i].op = "scan" => i = Len(list)
      BY <2>1 DEF EarlyList
    <3>2. list[1].op = "scan" /\ 1 \in 1..Len(list)
      BY <1>2, <1>8, <1>12
    <3> QED BY <3>1, <3>2
  <2>3. \A i \in 1..Len(new) : i \in 1..Len(more) /\ new[i] = more[i]
    BY <1>1, <2>2
  <2>4. \A k \in 1..Len(more) : more[k].op = "consider"
    BY <1>6, <1>7, <1>12
  <2>5. LateList(new)
    BY <2>3, <2>4 DEF LateList, Late
  <2> QED BY <1>9, <2>5 DEF Phase, new
<1> QED BY <1>10, <1>11, <1>12

\* A job that d puts on its list in the place of its first one, h, in the step
\* at hand: its kind, and what the code has just read, written or signalled.
NewJob(d, j) ==
    LET h == Now(d)
    IN /\ j.op \in Successors(h.op)
       /\ j.op \in {"lease", "beat", "overdue"} => tasks'[j.task].pid = j.pid
       /\ j.op \in {"release", "stale", "timeout"} =>
              /\ j.task = h.task /\ h.op \in {"lease", "beat", "overdue"}
              /\ h.pid \in Workers => worker'[h.pid].st # "working"
       /\ j.op = "fail" =>
              /\ tasks'[j.task].lock = NoLock
              /\ \/ h.op = "timeout" /\ j.task = h.task
                 \/ h.op = "crashes" /\ j.task \in CrashCandidates /\ ~Alive(tasks[j.task].pid)
                    /\ worker' = worker
       /\ j.op = "spawn" =>
              /\ tasks[j.task].status = "ready" /\ worker' = worker
              /\ tasks'[j.task].status = "running" /\ tasks'[j.task].run = j.run
              /\ j.run = Len(runs) + 1
       /\ j.op \in {"setpid", "spawnfail"} => h.op = "spawn" /\ j.task = h.task
       /\ j.op = "setpid" => j.run = h.run
       /\ j.op = "spawnfail" => worker' = worker

NewJobs(d, more) ==
    /\ more \in Seq(DispatcherJob(Len(runs')))
    /\ agenda[d] # <<>> /\ Advances(d, more)
    /\ \A k \in 1..Len(more) : NewJob(d, more[k]) /\ (more[k].op \in HeadOnly => Len(more) = 1)

LEMMA DispatcherAdvances ==
    ASSUME Dispatched, Grown, NEW d \in Dispatchers, DispatcherStep(d)
    PROVE  \/ StartTick(d)
           \/ \E more : NewJobs(d, more)
<1> USE DEF At, Attempt, Dispatched
<1> DEFINE h == Now(d)
           S == DispatcherJob(Len(runs'))
<1>1. /\ agenda[d] # <<>> => h \in S /\ h \in DispatcherJob(Len(runs))
      /\ d \in Procs
  BY NowTyped, Kinds, JobsGrow DEF Grown
<1>2. /\ \A a \in S : <<a>> \in Seq(S)
      /\ <<>> \in Seq(S)
      /\ \A t \in Tasks : \A op \in {"stale", "timeout", "consider", "claim"} : Job(op, t) \in S
      /\ RowJob({"release"}) \subseteq S
      /\ \A t \in Tasks : \A n \in {1, DefaultFailureLimit} :
             [op |-> "fail", task |-> t, limit |-> n] \in S
      /\ \A T \in SUBSET Tasks : \A op \in {"lease", "beat", "overdue"} :
             RowJobs(op, T) \in Seq(S)
      /\ \A T \in SUBSET Tasks : Jobs("consider", T) \in Seq(S)
  BY DispatcherJobs DEF Sound
<1>3. ASSUME NEW more \in Seq(S), agenda[d] # <<>>, Advances(d, more),
             \A k \in 1..Len(more) : NewJob(d, more[k]) /\ (more[k].op \in HeadOnly => Len(more) = 1)
      PROVE  \E m : NewJobs(d, m)
  <2>1. NewJobs(d, more)
    BY <1>3 DEF NewJobs
  <2> QED BY <2>1
<1>4. ASSUME agenda[d] # <<>>, Advances(d, <<>>)
      PROVE  \E m : NewJobs(d, m)
  <2>1. \A k \in 1..Len(<<>>) : FALSE
    OBVIOUS
  <2>2. <<>> \in Seq(S)
    BY <1>2
  <2> QED BY <1>3, <1>4, <2>1, <2>2
<1>5. ASSUME agenda[d] # <<>>, NEW j \in S, Advances(d, <<j>>), NewJob(d, j)
      PROVE  \E m : NewJobs(d, m)
  <2>1. <<j>> \in Seq(S) /\ Len(<<j>>) = 1 /\ \A k \in 1..Len(<<j>>) : <<j>>[k] = j
    OBVIOUS
  <2> QED BY <1>3, <1>5, <2>1
<1>6. \A more : Then(d, more) => Advances(d, more)
  BY <1>1, ThenAdvances
<1>7. \A x \in Nat : \A more : Kill(d, x, more) => Advances(d, more)
  BY <1>1, KillAdvances, DispatchAssumption
<1>8. CASE ListLeases(d) \/ ListBeats(d) \/ ListOverdue(d)
  <2>1. PICK op \in {"lease", "beat", "overdue"}, T \in SUBSET Tasks :
            /\ agenda[d] # <<>> /\ Then(d, RowJobs(op, T)) /\ UNCHANGED tasks
            /\ op \in Successors(h.op)
    <3>1. Timed \subseteq Tasks
      BY DispatchAssumption
    <3> QED BY <1>8, <3>1 DEF ListLeases, ListBeats, ListOverdue, Now, Successors
  <2> DEFINE R == {j \in RowJob({op}) : j.task \in T /\ j.lock = tasks[j.task].lock
                                        /\ j.pid = tasks[j.task].pid}
  <2>2. RowJobs(op, T) \in Seq(R)
    BY RowJobsTyped DEF Sound
  <2>3. \A j \in R : j.op = op /\ j.pid = tasks[j.task].pid
    BY DEF RowJob
  <2> HIDE DEF R, h
  <2>4. \A j \in R : j.op \notin HeadOnly /\ NewJob(d, j)
    BY <2>1, <2>3 DEF NewJob, HeadOnly, h
  <2>5. RowJobs(op, T) \in Seq(S)
    BY <1>2
  <2>6. \A k \in 1..Len(RowJobs(op, T)) : RowJobs(op, T)[k] \in R
    BY <2>2
  <2> QED BY <1>3, <1>6, <2>1, <2>4, <2>5, <2>6
<1>9. CASE ListReady(d)
  <2>1. PICK T \in SUBSET Tasks : agenda[d] # <<>> /\ h.op = "scan" /\ Then(d, Jobs("consider", T))
    BY <1>9 DEF ListReady, Now
  <2>2. Jobs("consider", T) \in Seq(TaskJob({"consider"}))
    BY JobsTyped
  <2>3. \A j \in TaskJob({"consider"}) : j.op = "consider"
    BY DEF TaskJob
  <2> HIDE DEF h
  <2>4. \A j \in TaskJob({"consider"}) : j.op \notin HeadOnly /\ NewJob(d, j)
    BY <2>1, <2>3 DEF NewJob, HeadOnly, h, Successors
  <2>5. Jobs("consider", T) \in Seq(S)
    BY <1>2
  <2>6. \A k \in 1..Len(Jobs("consider", T)) : Jobs("consider", T)[k] \in TaskJob({"consider"})
    BY <2>2
  <2> QED BY <1>3, <1>6, <2>1, <2>4, <2>5, <2>6
<1>10. CASE CheckLease(d)
  <2>1. h \in RowJob({"lease"}) /\ agenda[d] # <<>> /\ h.op = "lease" /\ h.pid \in Nat
    BY <1>1, <1>10, JobShape DEF CheckLease, Now
  <2>2. [h EXCEPT !.op = "release"] \in RowJob({"release"})
        /\ [h EXCEPT !.op = "release"].task = h.task
    BY <2>1 DEF RowJob
  <2>3. CASE Then(d, <<>>)
    BY <1>4, <1>6, <2>1, <2>3
  <2>4. CASE Kill(d, h.pid, <<[h EXCEPT !.op = "release"]>>)
    <3>1. worker' = Killed(h.pid)
      BY <2>4 DEF Kill
    <3>2. h.pid \in Workers => worker'[h.pid].st # "working"
      BY <3>1 DEF Killed, Alive, Processes, WorkerRow, Workers
    <3> DEFINE j == [h EXCEPT !.op = "release"]
    <3>3. j.op = "release" /\ j.task = h.task /\ j \in S
      BY <1>2, <2>2 DEF RowJob
    <3> HIDE DEF j, h
    <3>4. NewJob(d, j)
      BY <2>1, <3>2, <3>3 DEF NewJob, h, Successors
    <3> QED BY <1>5, <1>7, <2>1, <2>4, <3>3, <3>4 DEF j
  <2> QED BY <1>10, <2>3, <2>4 DEF CheckLease
<1>11. CASE KillSilent(d) \/ KillOverdue(d)
  <2>1. PICK op \in {"stale", "timeout"} :
            /\ agenda[d] # <<>> /\ Kill(d, h.pid, <<Job(op, h.task)>>)
            /\ op \in Successors(h.op) /\ h.op \in {"beat", "overdue"}
    BY <1>11 DEF KillSilent, KillOverdue, Now, Successors
  <2>2. h.task \in Tasks /\ h.pid \in Nat
    BY <1>1, <2>1, JobShape
  <2>3. worker' = Killed(h.pid)
    BY <2>1 DEF Kill
  <2>4. h.pid \in Workers => worker'[h.pid].st # "working"
    BY <2>3 DEF Killed, Alive, Processes, WorkerRow, Workers
  <2> HIDE DEF h
  <2>5. NewJob(d, Job(op, h.task))
    BY <2>1, <2>4 DEF NewJob, h, Job
  <2> QED BY <1>2, <1>5, <1>7, <2>1, <2>2, <2>5
<1>12. CASE SweepCrashes(d)
  <2> DEFINE F == {x \in [op: {"fail"}, task: Tasks, limit: {1, DefaultFailureLimit}] :
                      x.task \in CrashCandidates /\ ~Alive(tasks[x.task].pid)
                      /\ tasks'[x.task] \in {BackToReady(tasks[x.task]),
                                             [BackToReady(tasks[x.task]) EXCEPT !.err = "blocker"]}}
  <2>1. PICK more \in Seq(F) : Then(d, more) /\ UNCHANGED <<life, worker>> /\ agenda[d] # <<>>
    BY <1>12, SweepJobs
  <2>2. F \subseteq S
    BY DEF DispatcherJob
  <2>3. \A x \in Tasks : BackToReady(tasks[x]).lock = NoLock
                        /\ [BackToReady(tasks[x]) EXCEPT !.err = "blocker"].lock = NoLock
    BY DEF BackToReady, Released, Sound, TypeOK, TaskRow
  <2>4. \A j \in F : /\ j.op = "fail" /\ j.op \notin HeadOnly /\ tasks'[j.task].lock = NoLock
                     /\ j.task \in CrashCandidates /\ ~Alive(tasks[j.task].pid)
    BY <2>3 DEF HeadOnly
  <2>5. h.op = "crashes"
    BY <1>12 DEF SweepCrashes, Now
  <2> HIDE DEF F, h
  <2>6. \A j \in F : NewJob(d, j)
    BY <2>1, <2>4, <2>5 DEF NewJob, h, Successors
  <2>7. more \in Seq(S) /\ \A k \in 1..Len(more) : more[k] \in F
    BY <2>1, <2>2, SeqMonotonic
  <2> QED BY <1>3, <1>6, <2>1, <2>4, <2>6, <2>7
<1>13. CASE YankOverdue(d)
  <2>1. h.task \in Tasks /\ h.op = "timeout" /\ agenda[d] # <<>>
    BY <1>1, <1>13, JobShape DEF YankOverdue, Now
  <2>2. CASE tasks[h.task].status = "running"
    <3> DEFINE j == [op |-> "fail", task |-> h.task, limit |-> DefaultFailureLimit]
    <3>1. Then(d, <<j>>) /\ YankRunning(h.task, "timed_out")
      BY <1>13, <2>2 DEF YankOverdue
    <3>2. tasks'[h.task].lock = NoLock
      BY <2>1, <3>1 DEF YankRunning, Put, BackToReady, Released, Sound, TypeOK, TaskRow
    <3>3. j \in S
      BY <1>2, <2>1
    <3>4. j.op = "fail" /\ j.task = h.task
      OBVIOUS
    <3> HIDE DEF j, h
    <3>5. NewJob(d, j)
      BY <2>1, <3>2, <3>4 DEF NewJob, h, Successors
    <3> QED BY <1>5, <1>6, <2>1, <3>1, <3>3, <3>5
  <2>3. CASE tasks[h.task].status # "running"
    BY <1>4, <1>6, <1>13, <2>1, <2>3 DEF YankOverdue
  <2> QED BY <2>2, <2>3
<1>14. CASE Consider(d)
  <2>1. h.task \in Tasks /\ h.op = "consider" /\ agenda[d] # <<>>
    BY <1>1, <1>14, JobShape DEF Consider, ConsiderLinked, Now
  <2>2. Then(d, <<>>) \/ Then(d, <<Job("claim", h.task)>>)
    BY <1>14 DEF Consider, ConsiderLinked
  <2> HIDE DEF h
  <2>3. NewJob(d, Job("claim", h.task))
    BY <2>1 DEF NewJob, h, Job, Successors
  <2> QED BY <1>2, <1>4, <1>5, <1>6, <2>1, <2>2, <2>3
<1>15. CASE Claim(d)
  <2> DEFINE j == [op |-> "spawn", task |-> h.task, run |-> Len(runs) + 1]
             wins == Claimable(h.task) /\ RoomForRun
  <2>1. h.task \in Tasks /\ h.op = "claim" /\ agenda[d] # <<>>
    BY <1>1, <1>15, JobShape DEF Claim, Now
  <2>2. CASE wins
    <3>1. Then(d, <<j>>) /\ Claimed(h.task, d) /\ UNCHANGED worker
      BY <1>15, <2>2 DEF Claim, ClaimTask, Claimable, ClaimRejected, ClaimLost
    <3>2. /\ tasks[h.task].status = "ready"
          /\ tasks'[h.task].status = "running" /\ tasks'[h.task].run = Len(runs) + 1
      BY <2>1, <3>1 DEF Claimed, Claimable, Put, Sound, TypeOK, TaskRow
    <3>3. Len(runs') = Len(runs) + 1
      BY <2>1, <3>1, RunEndedSeq DEF Claimed, Sound, RunPointers, RunBelongsToTask, Grown, Outcomes
    <3>4. Len(runs) + 1 \in Workers /\ Len(runs) + 1 <= Len(runs')
      BY <2>2, <3>3, BoardAssumption DEF Workers, RoomForRun, Grown
    <3>5. j \in S
      BY <2>1, <3>4, DispatcherJobs DEF Sound
    <3>6. j.op = "spawn" /\ j.task = h.task /\ j.run = Len(runs) + 1
      OBVIOUS
    <3> HIDE DEF j, h
    <3>7. NewJob(d, j)
      BY <2>1, <3>1, <3>2, <3>6 DEF NewJob, h, Successors
    <3> QED BY <1>5, <1>6, <2>1, <3>1, <3>5, <3>7
  <2>3. CASE ~wins
    <3>1. Then(d, <<>>)
      BY <1>15, <2>3 DEF Claim
    <3> QED BY <1>4, <1>6, <2>1, <3>1
  <2> QED BY <2>2, <2>3
<1>16. CASE Spawn(d)
  <2>1. /\ h.task \in Tasks /\ h.run \in Workers /\ h.run <= Len(runs)
        /\ h \in [op: {"spawn", "setpid"}, task: Tasks, run: {r \in Workers : r <= Len(runs)}]
        /\ h.op = "spawn" /\ agenda[d] # <<>>
    BY <1>1, <1>16, JobShape DEF Spawn, DispatcherJob, RowJob, TaskJob, PromoteJob, Now
  <2>2. [h EXCEPT !.op = "setpid"] = [op |-> "setpid", task |-> h.task, run |-> h.run]
    BY <2>1
  <2>3. h.run <= Len(runs')
    BY <2>1 DEF Grown, Workers
  <2>4. CASE UNCHANGED worker /\ \E why \in Mishaps \intersect {"plain", "blocker"} :
                Then(d, <<[op |-> "spawnfail", task |-> h.task, why |-> why]>>)
    <3>1. PICK why \in {"plain", "blocker"} :
              Then(d, <<[op |-> "spawnfail", task |-> h.task, why |-> why]>>)
      BY <2>4
    <3> DEFINE j == [op |-> "spawnfail", task |-> h.task, why |-> why]
    <3>2. j \in S
      BY <2>1, DispatcherJobs DEF Sound
    <3>3. j.op = "spawnfail" /\ j.task = h.task
      OBVIOUS
    <3> HIDE DEF j, h
    <3>4. NewJob(d, j)
      BY <2>1, <2>4, <3>3 DEF NewJob, h, Successors
    <3> QED BY <1>5, <1>6, <2>1, <3>1, <3>2, <3>4 DEF j
  <2>5. CASE Then(d, <<[h EXCEPT !.op = "setpid"]>>)
    <3> DEFINE j == [op |-> "setpid", task |-> h.task, run |-> h.run]
    <3>1. Then(d, <<j>>)
      BY <2>2, <2>5
    <3>2. j \in S
      BY <2>1, <2>3, DispatcherJobs DEF Sound
    <3>3. j.op = "setpid" /\ j.task = h.task /\ j.run = h.run
      OBVIOUS
    <3> HIDE DEF j, h
    <3>4. NewJob(d, j)
      BY <2>1, <3>3 DEF NewJob, h, Successors
    <3> QED BY <1>5, <1>6, <2>1, <3>1, <3>2, <3>4
  <2> QED BY <1>16, <2>4, <2>5 DEF Spawn
<1>17. CASE ReleaseLease(d) \/ YankStale(d) \/ CountFailure(d) \/ Promote(d) \/ SetPid(d)
            \/ SpawnFailed(d)
  BY <1>4, <1>6, <1>17 DEF ReleaseLease, YankStale, CountFailure, Promote, SetPid, SpawnFailed
<1> QED BY <1>8, <1>9, <1>10, <1>11, <1>12, <1>13, <1>14, <1>15, <1>16, <1>17 DEF DispatcherStep

\* Whoever else moves, the list of a dispatcher stays, unless it dies.
LEMMA OthersLeave ==
    ASSUME Dispatched,
           [OperatorMove \/ Tick \/ \/ \E r \in Workers : WorkerStep(r)
                                    \/ \E e \in Dispatchers : Boot(e) \/ Die(e)]_vars
    PROVE  \A d \in Dispatchers : agenda'[d] = agenda[d] \/ (Die(d) /\ agenda'[d] = <<>>)
<1> USE DEF Dispatched, Agendas
<1>1. CASE UNCHANGED vars \/ Tick \/ \E e \in Dispatchers : Boot(e) \/ Die(e)
  BY <1>1, Kinds DEF Tick, Boot, Die, vars
<1>2. ASSUME NEW p \in Procs \ Dispatchers, NEW list, agenda' = [agenda EXCEPT ![p] = list]
      PROVE  \A d \in Dispatchers : agenda'[d] = agenda[d]
  BY <1>2, Kinds
<1>3. CASE Terminate
  <2>1. Now(Operator).pid \in Nat
    BY <1>3, NowTyped, OperatorShape, Kinds DEF Terminate, At, Now
  <2>2. \A d \in Dispatchers : d \notin Nat /\ d # Operator
    BY DispatchAssumption
  <2> QED BY <1>3, <2>1, <2>2, Kinds DEF Terminate, Kill, KilledAgenda
<1>4. CASE OperatorMove /\ ~Terminate
  <2>1. \E list : agenda' = [agenda EXCEPT ![Operator] = list]
    BY <1>4 DEF OperatorMove, Unblock, Hold, Pull, Archive, Close, Drag, BeginReclaim,
                BeginPromote, Drop, DropUnblock, Reclaim, FinishPromote, Clear, Promote, Plans, Then
  <2> QED BY <1>2, <2>1, Kinds
<1>5. ASSUME NEW r \in Workers, WorkerStep(r)
      PROVE  \A d \in Dispatchers : agenda'[d] = agenda[d]
  <2>1. UNCHANGED agenda \/ \E list : agenda' = [agenda EXCEPT ![r] = list]
    BY <1>5 DEF WorkerStep, BeatLease, BeatRow, Complete, Block, ExhaustBudget, Exit, Clear,
                Promote, Then
  <2> QED BY <1>2, <2>1, Kinds
<1> QED BY <1>1, <1>3, <1>4, <1>5

LEMMA OneUpStep ==
    ASSUME Concurrent = 1, Dispatched, OneUp, [Next]_vars
    PROVE  OneUp'
<1>1. CASE UNCHANGED life
  BY <1>1 DEF OneUp
<1>2. ASSUME NEW d \in Dispatchers, Boot(d)
      PROVE  OneUp'
  <2> DEFINE up == {e \in Dispatchers : life[e] = "up"}
  <2>1. Cardinality(up) < 1 /\ life' = [life EXCEPT ![d] = "up"]
    BY <1>2 DEF Boot
  <2>2. up = {}
    <3> SUFFICES ASSUME NEW e \in up PROVE FALSE
      OBVIOUS
    <3>1. up = {e}
      BY DEF OneUp
    <3> HIDE DEF up
    <3>2. Cardinality({e}) = 1
      BY FS_Singleton
    <3> QED BY <2>1, <3>1, <3>2
  <2> QED BY <2>1, <2>2 DEF OneUp, Dispatched, Processes
<1>3. ASSUME NEW d \in Dispatchers, Die(d)
      PROVE  OneUp'
  BY <1>3 DEF Die, OneUp, Dispatched, Processes
<1>4. UNCHANGED life \/ \E d \in Dispatchers : Boot(d) \/ Die(d)
  BY DEF Next, vars, Tick, OperatorMove, WorkerStep, DispatcherStep, Terminate, Clear, Promote,
         BeatLease, BeatRow, Complete, Block, ExhaustBudget, Exit, StartTick, ListLeases,
         CheckLease, ReleaseLease, ListBeats, KillSilent, YankStale, SweepCrashes, CountFailure,
         ListOverdue, KillOverdue, YankOverdue, ListReady, Consider,
         ConsiderLinked, Claim, Spawn, SetPid,
         SpawnFailed
<1> QED BY <1>1, <1>2, <1>3, <1>4

\* While one dispatcher has something to do, no other one has.
LEMMA OthersIdle ==
    ASSUME Dispatched, OneUp, NEW d \in Dispatchers, agenda[d] # <<>>
    PROVE  \A e \in Dispatchers \ {d} : agenda[e] = <<>>
  BY DEF OneUp, Dispatched, Processes

LEMMA PlanOps ==
    /\ Len(Plan) \in Nat
    /\ \A i \in 1..Len(Plan) :
           /\ Plan[i].op \in {"leases", "beats", "crashes", "runtimes", "recompute", "scan"}
           /\ Plan[i].op = "scan" => i = Len(Plan)
<1> DEFINE last == <<[op |-> "crashes"], [op |-> "runtimes"], Recompute(FailureLimit), [op |-> "scan"]>>
           first == <<[op |-> "leases"]>> \o (IF StaleCheck THEN <<[op |-> "beats"]>> ELSE <<>>)
           S == {[op |-> "leases"], [op |-> "beats"], [op |-> "crashes"], [op |-> "runtimes"],
                 Recompute(FailureLimit), [op |-> "scan"]}
<1>1. /\ last \in Seq(S) /\ Len(last) = 4
      /\ last[1].op = "crashes" /\ last[2].op = "runtimes" /\ last[3].op = "recompute"
      /\ last[4].op = "scan"
  BY DEF Recompute
<1>2. /\ first \in Seq(S)
      /\ \A i \in 1..Len(first) : first[i].op \in {"leases", "beats"}
  <2> DEFINE one == <<[op |-> "leases"]>>
             two == IF StaleCheck THEN <<[op |-> "beats"]>> ELSE <<>>
             T == {[op |-> "leases"], [op |-> "beats"]}
  <2>1. one \in Seq(T) /\ two \in Seq(T) /\ T \subseteq S
    <3>1. [op |-> "leases"] \in T /\ [op |-> "beats"] \in T /\ T \subseteq S
      OBVIOUS
    <3> HIDE DEF T, S
    <3> QED BY <3>1
  <2>2. \A j \in T : j.op \in {"leases", "beats"}
    OBVIOUS
  <2>3. first = one \o two
    OBVIOUS
  <2> HIDE DEF one, two, T, first, S
  <2>4. first \in Seq(T)
    BY <2>1, <2>3, ConcatProperties
  <2> QED BY <2>1, <2>2, <2>4, SeqMonotonic, ElementOfSeq
<1>3. Plan = first \o last
  BY DEF Plan
<1>4. \A i \in 1..4 : last[i].op \in {"crashes", "runtimes", "recompute", "scan"}
                      /\ (last[i].op = "scan" => i = 4)
  BY <1>1
<1> HIDE DEF first, last, S
<1>5. /\ Len(first) \in Nat /\ Len(Plan) = Len(first) + 4
      /\ \A i \in 1..Len(first) + 4 :
            Plan[i] = IF i <= Len(first) THEN first[i] ELSE last[i - Len(first)]
  <2>1. first \in Seq(S) /\ last \in Seq(S) /\ Len(last) = 4
    BY <1>1, <1>2
  <2>2. /\ Len(first \o last) = Len(first) + Len(last)
        /\ \A i \in 1..Len(first) + Len(last) :
               (first \o last)[i] = IF i <= Len(first) THEN first[i] ELSE last[i - Len(first)]
    BY <2>1, ConcatProperties
  <2> QED BY <1>3, <2>1, <2>2, LenProperties
<1>6. \A i \in 1..Len(Plan) :
          /\ Plan[i].op \in {"leases", "beats", "crashes", "runtimes", "recompute", "scan"}
          /\ Plan[i].op = "scan" => i = Len(Plan)
  <2> SUFFICES ASSUME NEW i \in 1..Len(Plan)
               PROVE  /\ Plan[i].op \in {"leases", "beats", "crashes", "runtimes", "recompute", "scan"}
                      /\ Plan[i].op = "scan" => i = Len(Plan)
    OBVIOUS
  <2>1. CASE i <= Len(first)
    BY <1>2, <1>5, <2>1
  <2>2. CASE i > Len(first)
    <3>1. i - Len(first) \in 1..4 /\ Plan[i] = last[i - Len(first)]
      BY <1>5, <2>2
    <3> QED BY <1>4, <1>5, <3>1
  <2> QED BY <1>5, <2>1, <2>2
<1> QED BY <1>5, <1>6

LEMMA PlanPhase == Phase(Plan)
<1>1. \A op \in {"leases", "beats", "crashes", "runtimes", "recompute", "scan"} :
          op \notin Late /\ op \notin HeadOnly
  BY DEF Late, HeadOnly
<1>2. EarlyList(Plan)
  BY <1>1, PlanOps DEF EarlyList
<1>3. \A i \in 2..Len(Plan) : Plan[i].op \notin HeadOnly
  BY <1>1, PlanOps
<1> QED BY <1>2, <1>3 DEF Phase

LEMMA StepPhased ==
    ASSUME Dispatched, Grown, Phased, [Next]_vars
    PROVE  Phased'
<1>1. Phase(<<>>)
  BY DEF Phase, LateList
<1>2. (\A d \in Dispatchers : agenda'[d] \in {agenda[d], <<>>}) => Phased'
  BY <1>1 DEF Phased
<1>3. ASSUME NEW d \in Dispatchers, DispatcherStep(d)
      PROVE  Phased'
  <2>1. CASE StartTick(d)
    BY <2>1, PlanPhase, Kinds DEF StartTick, Phased, Dispatched, Agendas
  <2>2. ASSUME NEW more, NewJobs(d, more)
        PROVE  Phased'
    <3> DEFINE S == DispatcherJob(Len(runs'))
    <3>1. /\ more \in Seq(S) /\ agenda[d] # <<>>
          /\ \A k \in 1..Len(more) : /\ more[k].op \in Successors(Head(agenda[d]).op)
                                     /\ more[k].op \in HeadOnly => Len(more) = 1
      BY <2>2 DEF NewJobs, NewJob, Now
    <3>2. agenda[d] \in Seq(S)
      BY Kinds, AgendasGrow DEF Dispatched, Grown
    <3> HIDE DEF S
    <3>3. Phase(more \o Tail(agenda[d]))
      BY <3>1, <3>2, PhaseKept DEF Phased
    <3>4. /\ agenda'[d] \in {more \o Tail(agenda[d]), <<>>}
          /\ \A e \in Dispatchers \ {d} : agenda'[e] \in {agenda[e], <<>>}
      BY <2>2, Kinds DEF NewJobs, Advances
    <3> QED BY <1>1, <3>3, <3>4 DEF Phased
  <2> QED BY <1>3, <2>1, <2>2, DispatcherAdvances
<1> QED BY <1>2, <1>3, OthersLeave DEF Next

\* A claim lock is set by a claim alone, and a task leaves "running" without it;
\* a running task keeps its run and its pid.
ClaimKept(old, new) ==
    /\ new.lock # NoLock => new.lock = old.lock
                            /\ (old.status = "running" => new.status = "running")
    /\ new.status = "running" => /\ old.status = "running"
                                 /\ new.run = old.run /\ new.pid = old.pid

ClaimsKept == \A x \in Tasks : ClaimKept(tasks[x], tasks'[x])

LEMMA RowPut ==
    ASSUME TypeOK, NEW t \in Tasks, NEW row, Put(t, row), ClaimKept(tasks[t], row)
    PROVE  ClaimsKept
  BY DEF Put, ClaimKept, ClaimsKept, TypeOK

LEMMA FreedRow ==
    ASSUME NEW old, NEW new, new.lock = NoLock, new.status # "running"
    PROVE  ClaimKept(old, new)
  BY DEF ClaimKept

LEMMA FinishRows ==
    ASSUME Sound, NEW t \in Tasks, NEW r, NEW from, NEW s \in {"done", "blocked"}, NEW o,
           NEW handoff, Finish(t, r, from, s, o, handoff)
    PROVE  ClaimsKept
<1> DEFINE row == [Released(tasks[t]) EXCEPT
                     !.status = s, !.run = 0, !.sticky = @ \/ s = "blocked"]
<1>1. Put(t, row)
  BY DEF Finish
<1>2. row.lock = NoLock /\ row.status = s
  BY DEF Released, Sound, TypeOK, TaskRow
<1> QED BY <1>1, <1>2, RowPut, FreedRow DEF Sound

LEMMA BackRows ==
    ASSUME Sound, NEW t \in Tasks, NEW row \in {BackToReady(tasks[t]),
                                                [BackToReady(tasks[t]) EXCEPT !.hb = "none"],
                                                [BackToReady(tasks[t]) EXCEPT !.err = "blocker"]}
    PROVE  row.lock = NoLock /\ row.status = "ready"
  BY DEF BackToReady, Released, Sound, TypeOK, TaskRow

\* A counted failure of a task that no claim is left on, or that gives it back.
LEMMA FailureRows ==
    ASSUME Sound, NEW t \in Tasks, NEW n, NEW held \in BOOLEAN, NEW why, NEW o,
           RecordFailure(t, n, held, why, o), held \/ tasks[t].lock = NoLock,
           RunningIsClaimed
    PROVE  ClaimsKept
<1> DEFINE old == tasks[t]
           status == IF Trips(t, n) THEN "blocked" ELSE IF held THEN "ready" ELSE old.status
           kept == IF held THEN Released(old) ELSE old
           counted == IF Matches(t, n, held)
                      THEN [kept EXCEPT !.status = status, !.fails = @ + 1, !.err = why]
                      ELSE old
           row == [counted EXCEPT !.run = IF held THEN 0 ELSE @]
<1>1. Put(t, row) /\ old \in TaskRow
  BY DEF RecordFailure, Sound, TypeOK
<1>2. old.status = "running" => held /\ Matches(t, n, held)
  BY BoardAssumption DEF RunningIsClaimed, Matches
<1>3. kept \in TaskRow /\ kept.lock = (IF held THEN NoLock ELSE old.lock)
      /\ (kept.lock # NoLock => kept.lock = old.lock)
  BY <1>1 DEF Released, TaskRow
<1>4. row.lock \in {old.lock, NoLock} /\ row.lock = (IF Matches(t, n, held) THEN kept.lock ELSE old.lock)
      /\ row.status = (IF Matches(t, n, held) THEN status ELSE old.status)
  BY <1>1, <1>3 DEF TaskRow
<1> HIDE DEF row, kept, counted
<1>5. ClaimKept(old, row)
  BY <1>2, <1>3, <1>4 DEF ClaimKept
<1> QED BY <1>1, <1>5, RowPut DEF Sound

LEMMA SameTasks ==
    ASSUME UNCHANGED tasks
    PROVE  ClaimsKept
  BY DEF ClaimsKept, ClaimKept

\* What the engine's other transactions do to a claim.
LEMMA EngineClaims ==
    ASSUME Sound, NEW t \in Tasks,
           \/ \E l : ExtendClaim(t, l) \/ ReleaseStaleClaim(t, l) \/ HeartbeatClaim(t, l)
           \/ \E r : HeartbeatWorker(t, r)
           \/ \E o : YankRunning(t, o)
           \/ ClearFailureCounter(t)
           \/ ClaimRejected(t) \/ ClaimLost(t)
           \/ LeaseLapses(t) \/ HeartbeatAges(t) \/ GraceEnds(t)
    PROVE  ClaimsKept
<1>1. tasks \in [Tasks -> TaskRow] /\ TypeOK
  BY DEF Sound, TypeOK
<1>2. CASE \E l : ReleaseStaleClaim(t, l)
  <2>1. Put(t, BackToReady(tasks[t]))
    BY <1>2 DEF ReleaseStaleClaim
  <2> QED BY <1>1, <2>1, BackRows, RowPut, FreedRow
<1>3. CASE \E o : YankRunning(t, o)
  <2>1. Put(t, [BackToReady(tasks[t]) EXCEPT !.hb = "none"])
    BY <1>3 DEF YankRunning
  <2>2. /\ [BackToReady(tasks[t]) EXCEPT !.hb = "none"].lock = NoLock
        /\ [BackToReady(tasks[t]) EXCEPT !.hb = "none"].status = "ready"
    BY BackRows
  <2> QED BY <1>1, <2>1, <2>2, RowPut, FreedRow
<1>4. CASE ClearFailureCounter(t)
  <2>1. Put(t, [tasks[t] EXCEPT !.fails = 0, !.err = "none"])
    BY <1>4 DEF ClearFailureCounter
  <2>2. ClaimKept(tasks[t], [tasks[t] EXCEPT !.fails = 0, !.err = "none"])
    BY <1>1 DEF ClaimKept, TaskRow
  <2> QED BY <1>1, <2>1, <2>2, RowPut
<1>5. CASE ClaimRejected(t)
  <2>1. Put(t, [tasks[t] EXCEPT !.status = "todo"]) /\ tasks[t].status = "ready"
    BY <1>5 DEF ClaimRejected
  <2>2. ClaimKept(tasks[t], [tasks[t] EXCEPT !.status = "todo"])
    BY <1>1, <2>1 DEF ClaimKept, TaskRow
  <2> QED BY <1>1, <2>1, <2>2, RowPut
<1>6. CASE ClaimLost(t)
  BY <1>6, SameTasks DEF ClaimLost
<1>7. CASE \E row : /\ Put(t, row)
                    /\ row \in {[tasks[t] EXCEPT !.expired = FALSE], [tasks[t] EXCEPT !.expired = TRUE],
                                [tasks[t] EXCEPT !.hb = "fresh"], [tasks[t] EXCEPT !.hb = "old"],
                                [tasks[t] EXCEPT !.started = "past"]}
  <2>1. PICK row : /\ Put(t, row)
                   /\ row \in {[tasks[t] EXCEPT !.expired = FALSE], [tasks[t] EXCEPT !.expired = TRUE],
                               [tasks[t] EXCEPT !.hb = "fresh"], [tasks[t] EXCEPT !.hb = "old"],
                               [tasks[t] EXCEPT !.started = "past"]}
    BY <1>7
  <2>2. ClaimKept(tasks[t], row)
    BY <1>1, <2>1 DEF ClaimKept, TaskRow
  <2> QED BY <1>1, <2>1, <2>2, RowPut
<1> QED BY <1>2, <1>3, <1>4, <1>5, <1>6, <1>7
        DEF ExtendClaim, HeartbeatClaim, HeartbeatWorker, LeaseLapses, HeartbeatAges, GraceEnds

LEMMA RecomputeClaims ==
    ASSUME Sound, NEW n, RecomputeReady(n)
    PROVE  ClaimsKept
<1>1. ASSUME NEW x \in Tasks
      PROVE  ClaimKept(tasks[x], tasks'[x])
  <2>1. tasks[x] \in TaskRow
    BY DEF Sound, TypeOK
  <2>2. \/ tasks'[x] = tasks[x]
        \/ tasks[x].status \in {"todo", "blocked"} /\ tasks'[x] = [tasks[x] EXCEPT !.status = "ready"]
    BY DEF RecomputeReady, Promotable
  <2> QED BY <2>1, <2>2 DEF ClaimKept, TaskRow
<1> QED BY <1>1 DEF ClaimsKept

LEMMA SweepClaims ==
    ASSUME Sound, NEW dead, NEW throttled, DetectCrashed(dead, throttled)
    PROVE  ClaimsKept
<1>1. ASSUME NEW x \in Tasks
      PROVE  ClaimKept(tasks[x], tasks'[x])
  <2>1. tasks'[x] \in {tasks[x], BackToReady(tasks[x]), [BackToReady(tasks[x]) EXCEPT !.err = "blocker"]}
    BY DEF DetectCrashed
  <2>2. CASE tasks'[x] = tasks[x]
    BY <2>2 DEF ClaimKept
  <2>3. CASE tasks'[x] \in {BackToReady(tasks[x]), [BackToReady(tasks[x]) EXCEPT !.err = "blocker"]}
    BY <2>3, BackRows, FreedRow
  <2> QED BY <2>1, <2>2, <2>3
<1> QED BY <1>1 DEF ClaimsKept

LEMMA SharedClaims ==
    ASSUME Dispatched, NEW p \in Procs, Clear(p) \/ Promote(p)
    PROVE  ClaimsKept
<1>1. CASE Clear(p)
  <2>1. Now(p).task \in Tasks
    BY <1>1, NowTyped, WorkerShape, OperatorShape, Kinds DEF Clear, At, Dispatched, JobsOf, Now,
           DispatcherJob, RowJob, TaskJob, PromoteJob
  <2> QED BY <1>1, <2>1, EngineClaims, SameTasks DEF Clear, Attempt, boardVars, Dispatched
<1>2. CASE Promote(p)
  BY <1>2, RecomputeClaims DEF Promote, Dispatched
<1> QED BY <1>1, <1>2

\* The failure of a task that d has yet to count was recorded when it left
\* "running", and nobody claimed it since.
FailUnlocked ==
    \A d \in Dispatchers : \A i \in 1..Len(agenda[d]) :
        agenda[d][i].op = "fail" => tasks[agenda[d][i].task].lock = NoLock

LEMMA DispatcherClaims ==
    ASSUME Dispatched, FailUnlocked, NEW d \in Dispatchers, DispatcherStep(d), ~SetPid(d)
    PROVE  ClaimsKept \/ (Claim(d) /\ Claimed(Now(d).task, d))
<1> USE DEF Dispatched, Attempt
<1> DEFINE j == Now(d)
<1>1. agenda[d] # <<>> => j \in DispatcherJob(Len(runs)) /\ agenda[d] \in Seq(DispatcherJob(Len(runs)))
  BY NowTyped, Kinds DEF Agendas
<1>2. UNCHANGED boardVars => ClaimsKept
  BY SameTasks DEF boardVars
<1>3. CASE \/ StartTick(d) \/ ListLeases(d) \/ ListBeats(d) \/ KillSilent(d) \/ ListOverdue(d)
           \/ KillOverdue(d) \/ ListReady(d) \/ Consider(d) \/ Spawn(d)
  BY <1>3, SameTasks DEF StartTick, ListLeases, ListBeats, KillSilent, ListOverdue, KillOverdue,
                         ListReady, Consider, ConsiderLinked, Spawn
<1>4. CASE CheckLease(d) \/ ReleaseLease(d) \/ YankStale(d) \/ YankOverdue(d)
  <2>1. j.task \in Tasks
    BY <1>1, <1>4, JobShape DEF CheckLease, ReleaseLease, YankStale, YankOverdue, At, Now
  <2> HIDE DEF Now, j
  <2> QED BY <1>2, <1>4, <2>1, EngineClaims DEF CheckLease, ReleaseLease, YankStale, YankOverdue, j
<1>5. CASE SweepCrashes(d)
  BY <1>2, <1>5, SweepClaims DEF SweepCrashes
<1>6. CASE CountFailure(d)
  <2>1. j.task \in Tasks /\ agenda[d] # <<>> /\ j.op = "fail"
    BY <1>1, <1>6, JobShape DEF CountFailure, At, Now
  <2>2. 1 \in 1..Len(agenda[d]) /\ agenda[d][1] = j
    BY <1>1, <2>1, LenProperties, EmptySeq, HeadTailProperties DEF Now
  <2>3. tasks[j.task].lock = NoLock
    BY <2>1, <2>2 DEF FailUnlocked
  <2> HIDE DEF Now, j
  <2>4. UNCHANGED boardVars \/ RecordFailure(j.task, j.limit, FALSE, "plain", "crashed")
    BY <1>6 DEF CountFailure, j
  <2> QED BY <1>2, <2>1, <2>3, <2>4, FailureRows
<1>7. CASE Promote(d)
  BY <1>7, SharedClaims, Kinds
<1>8. CASE Claim(d)
  <2>1. j.task \in Tasks
    BY <1>1, <1>8, JobShape DEF Claim, At, Now
  <2> HIDE DEF Now, j
  <2>2. UNCHANGED boardVars \/ ClaimTask(j.task, d)
    BY <1>8 DEF Claim, j
  <2> QED BY <1>2, <1>8, <2>1, <2>2, EngineClaims DEF ClaimTask, j
<1>9. CASE SpawnFailed(d)
  <2>1. j.task \in Tasks
    BY <1>1, <1>9, JobShape DEF SpawnFailed, At, Now
  <2> HIDE DEF Now, j
  <2>2. UNCHANGED boardVars \/ RecordFailure(j.task, FailureLimit, TRUE, j.why, "spawn_failed")
    BY <1>9 DEF SpawnFailed, j
  <2> QED BY <1>2, <2>1, <2>2, FailureRows
<1> QED BY <1>3, <1>4, <1>5, <1>6, <1>7, <1>8, <1>9 DEF DispatcherStep

LEMMA WorkerClaims ==
    ASSUME Dispatched, NEW r \in Workers, WorkerStep(r)
    PROVE  ClaimsKept
<1> USE DEF Dispatched, Attempt
<1>1. UNCHANGED boardVars => ClaimsKept
  BY SameTasks DEF boardVars
<1>2. CASE Clear(r) \/ Promote(r)
  BY <1>2, SharedClaims, Kinds
<1>3. CASE Exit(r)
  BY <1>3, SameTasks DEF Exit
<1>4. CASE ~Clear(r) /\ ~Promote(r) /\ ~Exit(r)
  <2>1. Mine(r) \in Tasks
    <3>1. Alive(r)
      BY <1>4, Kinds DEF WorkerStep, BeatLease, BeatRow, Complete, Block, ExhaustBudget, Active, At,
                  Processes
    <3> QED BY <3>1, WorkersTask DEF Alive
  <2> HIDE DEF Mine
  <2>2. CASE BeatLease(r) \/ BeatRow(r)
    BY <1>1, <2>1, <2>2, EngineClaims DEF BeatLease, BeatRow
  <2>3. CASE Complete(r)
    BY <2>1, <2>3, FinishRows DEF Complete, CompleteTask
  <2>4. CASE Block(r)
    BY <2>1, <2>4, FinishRows DEF Block, BlockTask
  <2>5. CASE ExhaustBudget(r)
    BY <1>1, <2>1, <2>5, FailureRows DEF ExhaustBudget
  <2> QED BY <1>4, <2>2, <2>3, <2>4, <2>5 DEF WorkerStep
<1> QED BY <1>2, <1>3, <1>4

LEMMA OperatorClaims ==
    ASSUME Dispatched, ~Does("pull"), OperatorMove
    PROVE  ClaimsKept
<1> USE DEF Dispatched, Attempt
<1>1. UNCHANGED boardVars => ClaimsKept
  BY SameTasks DEF boardVars
<1>2. tasks \in [Tasks -> TaskRow] /\ TypeOK
  BY DEF Sound, TypeOK
<1>3. ASSUME NEW t \in Tasks, UnblockTask(t)
      PROVE  ClaimsKept
  <2> DEFINE row == [tasks[t] EXCEPT
                  !.status = IF ParentsDone(t) THEN "ready" ELSE "todo",
                  !.run = 0, !.fails = 0, !.err = "none", !.sticky = FALSE]
  <2>1. Put(t, row) /\ tasks[t].status \in {"blocked", "scheduled"}
    BY <1>3 DEF UnblockTask
  <2>2. row.lock = tasks[t].lock /\ row.status \in {"ready", "todo"}
    BY <1>2 DEF TaskRow
  <2> HIDE DEF row
  <2>3. ClaimKept(tasks[t], row)
    BY <2>1, <2>2 DEF ClaimKept
  <2> QED BY <1>2, <2>1, <2>3, RowPut
<1>4. ASSUME NEW t \in Tasks, ArchiveTask(t)
      PROVE  ClaimsKept
  <2> DEFINE row == [Released(tasks[t]) EXCEPT !.status = "archived", !.run = 0]
  <2>1. Put(t, row)
    BY <1>4 DEF ArchiveTask
  <2>2. row.lock = NoLock /\ row.status = "archived"
    BY <1>2 DEF TaskRow, Released
  <2> HIDE DEF row
  <2> QED BY <1>2, <2>1, <2>2, RowPut, FreedRow
<1>5. ASSUME NEW t \in Tasks, PromoteTask(t)
      PROVE  ClaimsKept
  <2>1. /\ Put(t, [tasks[t] EXCEPT !.status = "ready"])
        /\ tasks[t].status \in {"todo", "blocked"}
    BY <1>5 DEF PromoteTask
  <2>2. ClaimKept(tasks[t], [tasks[t] EXCEPT !.status = "ready"])
    BY <1>2, <2>1 DEF ClaimKept, TaskRow
  <2> QED BY <1>2, <2>1, <2>2, RowPut
<1>6. ASSUME NEW t \in Tasks, NEW l, ReclaimTask(t, l)
      PROVE  ClaimsKept
  <2>1. Put(t, BackToReady(tasks[t]))
    BY <1>6 DEF ReclaimTask
  <2> QED BY <1>2, <2>1, BackRows, RowPut, FreedRow
<1>7. ASSUME NEW t \in Tasks, NEW s \in {"triage", "todo", "ready"}, MoveCard(t, s)
      PROVE  ClaimsKept
  <2> DEFINE row == [Released(tasks[t]) EXCEPT
                        !.status = s, !.run = IF tasks[t].status = "running" THEN 0 ELSE @]
  <2>1. row.lock = NoLock /\ row.status = s
    BY <1>2 DEF TaskRow, Released
  <2>2. \A x \in Tasks : \/ tasks'[x] = tasks[x]
                         \/ x = t /\ tasks'[x] = row
                         \/ tasks[x].status = "ready" /\ tasks'[x] = [tasks[x] EXCEPT !.status = "todo"]
    BY <1>7 DEF MoveCard
  <2> HIDE DEF row
  <2>3. ASSUME NEW x \in Tasks
        PROVE  ClaimKept(tasks[x], tasks'[x])
    <3>1. CASE tasks'[x] = tasks[x]
      BY <3>1 DEF ClaimKept
    <3>2. CASE tasks'[x] = row
      BY <2>1, <3>2, FreedRow
    <3>3. CASE tasks[x].status = "ready" /\ tasks'[x] = [tasks[x] EXCEPT !.status = "todo"]
      BY <1>2, <3>3 DEF ClaimKept, TaskRow
    <3> QED BY <2>2, <3>1, <3>2, <3>3
  <2> QED BY <2>3 DEF ClaimsKept
<1>8. CASE Clear(Operator) \/ Promote(Operator)
  BY <1>8, SharedClaims, Kinds
<1>9. CASE Terminate
  BY <1>9, SameTasks DEF Terminate
<1>10. CASE Drop \/ DropUnblock \/ Reclaim \/ FinishPromote
  <2> DEFINE j == Now(Operator)
  <2>1. j \in OperatorMay
    BY <1>10, NowTyped, Kinds DEF Drop, DropUnblock, Reclaim, FinishPromote, At
  <2>2. j.task \in Tasks /\ (Drop => j.to \in {"triage", "todo", "ready"})
    BY <1>10, <2>1, OperatorShape DEF Drop, DropUnblock, Reclaim, FinishPromote, At, Now
  <2> HIDE DEF Now, j
  <2> QED BY <1>1, <1>3, <1>5, <1>6, <1>7, <1>10, <2>2 DEF Drop, DropUnblock, Reclaim, FinishPromote, j
<1>11. ASSUME NEW t \in Tasks,
              Unblock(t) \/ Hold(t) \/ Archive(t) \/ Close(t) \/ Drag(t) \/ BeginReclaim(t) \/ BeginPromote(t)
       PROVE  ClaimsKept
  BY <1>1, <1>3, <1>4, <1>11, FinishRows
     DEF Unblock, Hold, Archive, Close, Drag, BeginReclaim, BeginPromote, BlockTask, CompleteTask
<1> QED BY <1>8, <1>9, <1>10, <1>11 DEF OperatorMove, Pull

LEMMA TickClaims ==
    ASSUME Dispatched, Tick
    PROVE  ClaimsKept
  BY EngineClaims, SameTasks DEF Tick, RunAges, Dispatched

Serial == Dispatched /\ OneUp /\ Phased /\ FailUnlocked /\ ClaimOnlyWhileRunning

\* The jobs of a list that grew at its head.
LEMMA NewList ==
    ASSUME Dispatched, Grown, NEW d \in Dispatchers, NEW more, NewJobs(d, more)
    PROVE  \A i \in 1..Len(agenda'[d]) :
               \/ \E k \in 1..Len(more) : agenda'[d][i] = more[k]
               \/ \E k \in 2..Len(agenda[d]) : agenda'[d][i] = agenda[d][k]
<1> DEFINE S == DispatcherJob(Len(runs'))
<1>1. /\ more \in Seq(S) /\ agenda[d] # <<>> /\ agenda[d] \in Seq(S)
      /\ agenda'[d] \in {more \o Tail(agenda[d]), <<>>}
  BY Kinds, AgendasGrow DEF NewJobs, Advances, Dispatched, Grown
<1> HIDE DEF S
<1>2. \A i \in 1..Len(more \o Tail(agenda[d])) :
          \/ i \in 1..Len(more) /\ (more \o Tail(agenda[d]))[i] = more[i]
          \/ /\ i - Len(more) + 1 \in 2..Len(agenda[d])
             /\ (more \o Tail(agenda[d]))[i] = agenda[d][i - Len(more) + 1]
  BY <1>1, AfterHead
<1>3. CASE agenda'[d] = <<>>
  BY <1>3
<1>4. CASE agenda'[d] = more \o Tail(agenda[d])
  BY <1>2, <1>4
<1> QED BY <1>1, <1>3, <1>4

\* The first job of a list is there to be done.
LEMMA HeadJob ==
    ASSUME Dispatched, NEW d \in Dispatchers, agenda[d] # <<>>
    PROVE  /\ 1 \in 1..Len(agenda[d]) /\ agenda[d][1] = Now(d) /\ Len(agenda[d]) \in Nat
           /\ \A i \in 2..Len(agenda[d]) : i \in 1..Len(agenda[d])
<1>1. agenda[d] \in Seq(DispatcherJob(Len(runs)))
  BY Kinds DEF Dispatched, Agendas
<1> QED BY <1>1, LenProperties, EmptySeq, HeadTailProperties DEF Now

LEMMA StepFailUnlocked ==
    ASSUME Serial, Grown, [Next]_vars, ~Does("pull")
    PROVE  FailUnlocked' /\ ClaimOnlyWhileRunning'
<1> USE DEF Serial
<1>1. ClaimsKept => ClaimOnlyWhileRunning'
  BY DEF ClaimsKept, ClaimKept, ClaimOnlyWhileRunning
<1>2. CASE ClaimsKept /\ \A d \in Dispatchers : agenda'[d] \in {agenda[d], <<>>}
  <2>1. FailUnlocked'
    <3> SUFFICES ASSUME NEW d \in Dispatchers, NEW i \in 1..Len(agenda'[d]),
                        agenda'[d][i].op = "fail"
                 PROVE  tasks'[agenda'[d][i].task].lock = NoLock
      BY DEF FailUnlocked
    <3>1. agenda'[d] = agenda[d]
      BY <1>2
    <3>2. agenda[d][i].task \in Tasks /\ tasks[agenda[d][i].task].lock = NoLock
      <4>1. agenda[d][i] \in DispatcherJob(Len(runs))
        BY <3>1, Kinds, ElementOfSeq DEF Dispatched, Agendas
      <4> QED BY <3>1, <4>1, JobShape DEF FailUnlocked
    <3> QED BY <1>2, <3>1, <3>2 DEF ClaimsKept, ClaimKept
  <2> QED BY <1>1, <1>2, <2>1
<1>3. ASSUME NEW d \in Dispatchers, StartTick(d)
      PROVE  FailUnlocked' /\ ClaimOnlyWhileRunning'
  <2>1. /\ UNCHANGED tasks
        /\ \A e \in Dispatchers : agenda'[e] = IF e = d THEN Plan ELSE agenda[e]
    BY <1>3, Kinds DEF StartTick, Dispatched, Agendas
  <2>2. \A i \in 1..Len(Plan) : Plan[i].op # "fail"
    BY PlanOps
  <2> QED BY <2>1, <2>2 DEF FailUnlocked, ClaimOnlyWhileRunning
<1>4. ASSUME NEW d \in Dispatchers, DispatcherStep(d), NEW more, NewJobs(d, more)
      PROVE  FailUnlocked' /\ ClaimOnlyWhileRunning'
  <2>1. agenda[d] # <<>> /\ \A e \in Dispatchers \ {d} : agenda'[e] = <<>>
    BY <1>4, OthersIdle, Kinds DEF NewJobs, Advances
  <2>2. ASSUME ClaimsKept
        PROVE  FailUnlocked'
    <3> SUFFICES ASSUME NEW i \in 1..Len(agenda'[d]), agenda'[d][i].op = "fail"
                 PROVE  tasks'[agenda'[d][i].task].lock = NoLock
      BY <2>1 DEF FailUnlocked
    <3>1. CASE \E k \in 1..Len(more) : agenda'[d][i] = more[k]
      BY <1>4, <3>1 DEF NewJobs, NewJob
    <3>2. ASSUME NEW k \in 2..Len(agenda[d]), agenda'[d][i] = agenda[d][k]
          PROVE  tasks'[agenda'[d][i].task].lock = NoLock
      <4>1. k \in 1..Len(agenda[d])
        BY <2>1, HeadJob
      <4>2. agenda[d][k].task \in Tasks /\ tasks[agenda[d][k].task].lock = NoLock
        <5>1. agenda[d][k] \in DispatcherJob(Len(runs))
          BY <4>1, Kinds, ElementOfSeq DEF Dispatched, Agendas
        <5> QED BY <3>2, <4>1, <5>1, JobShape DEF FailUnlocked
      <4> QED BY <2>2, <3>2, <4>2 DEF ClaimsKept, ClaimKept
    <3> QED BY <1>4, <3>1, <3>2, NewList
  <2>3. CASE Now(d).op \in Late
    <3>1. LateList(agenda[d])
      BY <2>1, <2>3, HeadJob DEF Phased, Phase, EarlyList
    <3>2. \A i \in 1..Len(agenda'[d]) : agenda'[d][i].op # "fail"
      <4>1. \A k \in 1..Len(more) : more[k].op # "fail"
        BY <1>4, <2>3 DEF NewJobs, NewJob, Successors, Late
      <4>2. \A k \in 2..Len(agenda[d]) : agenda[d][k].op # "fail"
        BY <2>1, <3>1, HeadJob DEF LateList, Late
      <4> QED BY <1>4, <4>1, <4>2, NewList
    <3>3. FailUnlocked'
      BY <2>1, <3>2 DEF FailUnlocked
    <3>4. Now(d).task \in Tasks
      BY <2>1, <2>3, NowTyped, Kinds, JobShape DEF Late, Dispatched
    <3>5. CASE SetPid(d)
      <4>1. \A x \in Tasks : tasks'[x].lock = tasks[x].lock /\ tasks'[x].status = tasks[x].status
        <5> DEFINE t == Now(d).task
                   r == Now(d).run
        <5>1. \/ UNCHANGED tasks
              \/ tasks' = [tasks EXCEPT ![t] = [tasks[t] EXCEPT !.pid = r]]
          BY <3>5 DEF SetPid, Attempt, boardVars, SetWorkerPid, Put
        <5>2. tasks \in [Tasks -> TaskRow] /\ t \in Tasks
          BY <3>4 DEF Dispatched, Sound, TypeOK
        <5> HIDE DEF t, r
        <5> QED BY <5>1, <5>2 DEF TaskRow
      <4> QED BY <3>3, <4>1 DEF ClaimOnlyWhileRunning
    <3>6. CASE Claimed(Now(d).task, d)
      <4>1. \A x \in Tasks : tasks'[x] = tasks[x] \/ tasks'[x].status = "running"
        BY <3>4, <3>6 DEF Claimed, Put, Dispatched, Sound, TypeOK, TaskRow
      <4> QED BY <3>3, <4>1 DEF ClaimOnlyWhileRunning
    <3> QED BY <1>1, <1>4, <3>3, <3>5, <3>6, DispatcherClaims
  <2>4. CASE Now(d).op \notin Late
    <3>1. ~SetPid(d) /\ ~Claim(d)
      BY <2>4 DEF SetPid, Claim, At, Now, Late
    <3> QED BY <1>1, <1>4, <2>2, <3>1, DispatcherClaims
  <2> QED BY <2>3, <2>4
<1>5. ASSUME NEW d \in Dispatchers, DispatcherStep(d)
      PROVE  FailUnlocked' /\ ClaimOnlyWhileRunning'
  BY <1>3, <1>4, <1>5, DispatcherAdvances
<1>6. CASE [OperatorMove \/ Tick \/ \/ \E r \in Workers : WorkerStep(r)
                                    \/ \E e \in Dispatchers : Boot(e) \/ Die(e)]_vars
  <2>1. ClaimsKept
    BY <1>6, WorkerClaims, OperatorClaims, TickClaims, SameTasks DEF Boot, Die, vars
  <2> QED BY <1>2, <1>6, <2>1, OthersLeave
<1> QED BY <1>5, <1>6 DEF Next

LEMMA InitSerial == Init => Serial
<1> SUFFICES ASSUME Init PROVE Serial
  OBVIOUS
<1>1. Dispatched
  BY InitDispatched
<1>2. /\ \A d \in Dispatchers : agenda[d] = <<>> /\ life[d] = "new"
      /\ \A t \in Tasks : tasks[t].lock = NoLock
  BY Kinds DEF Init, BoardInit, NewRow
<1> QED BY <1>1, <1>2 DEF Serial, OneUp, Phased, Phase, LateList, FailUnlocked, ClaimOnlyWhileRunning

LEMMA StepSerial ==
    ASSUME Concurrent = 1, "pull" \notin Verbs, Serial, [Next]_vars
    PROVE  Serial'
<1>1. Dispatched' /\ Grown
  BY StepDispatched, StepGrown DEF Serial
<1>2. FailUnlocked' /\ ClaimOnlyWhileRunning'
  BY <1>1, StepFailUnlocked DEF Does
<1> QED BY <1>1, <1>2, OneUpStep, StepPhased DEF Serial

\* With one dispatcher at a time, and no human who claims cards for himself, a
\* claim lock is never left behind on a card that does not run: every way out of
\* "running" clears it, and a failure is only counted after its claim was undone.
THEOREM LocksFollowClaims ==
    ASSUME Concurrent = 1, "pull" \notin Verbs
    PROVE  Spec => []ClaimOnlyWhileRunning
<1>1. Serial /\ [Next]_vars => Serial'
  BY StepSerial
<1>2. Serial => ClaimOnlyWhileRunning
  BY DEF Serial
<1> QED BY <1>1, <1>2, InitSerial, PTL DEF Spec

----------------------------------------------------------------------------
(* One worker per task *)

\* No process works on task t.
Idle(t) == \A r \in Workers : worker[r].st = "working" => Mine(r) # t

\* A process that works is the one its task names; the row has its pid, or the
\* dispatcher that started it is about to write it.
SoloWorkers ==
    \A r \in Workers : worker[r].st = "working" =>
        /\ tasks[Mine(r)].status = "running" /\ tasks[Mine(r)].run = r
        /\ \/ tasks[Mine(r)].pid = r
           \/ \E d \in Dispatchers : At(d, "setpid") /\ Now(d).run = r

\* What a dispatcher may rely on when it comes to do job j.
SoloJob(j) ==
    /\ j.op \in {"lease", "beat", "overdue"} =>
           (tasks[j.task].status = "running" => tasks[j.task].pid = j.pid)
    /\ j.op \in {"release", "stale", "timeout", "fail", "spawn", "spawnfail"} => Idle(j.task)
    /\ j.op = "spawn" => /\ tasks[j.task].status = "running" /\ tasks[j.task].run = j.run
                         /\ worker[j.run].st = "none"
    /\ j.op = "setpid" => /\ runs[j.run].task = j.task
                          /\ \A r \in Workers :
                                 worker[r].st = "working" /\ Mine(r) = j.task => r = j.run

SoloJobs == \A d \in Dispatchers : \A i \in 1..Len(agenda[d]) : SoloJob(agenda[d][i])

Solo == Serial /\ SoloWorkers /\ SoloJobs

\* No turn begins, no worker is started.
OldTurns ==
    \A r \in Workers : /\ worker'[r].st = "working" => worker[r].st = "working"
                       /\ worker[r].st = "none" => worker'[r].st = "none"

\* A task that somebody goes on working on goes on running.
TurnsKept ==
    \A r \in Workers : worker[r].st = "working" /\ worker'[r].st = "working"
                           => tasks'[Mine(r)].status = "running"

LEMMA WorkersKeepTask ==
    ASSUME Dispatched, [Next]_vars
    PROVE  /\ Grown
           /\ \A r \in 1..Len(runs) : runs'[r].task = runs[r].task
           /\ \A r \in Workers : worker[r].st # "none" =>
                  Mine(r) \in Tasks /\ r \in 1..Len(runs) /\ runs'[r].task = Mine(r)
<1>1. Sound' /\ Grown
  BY StepGrown
<1>2. \A r \in 1..Len(runs) : runs'[r].task = runs[r].task
  BY <1>1, NextBoard, RunsGrow DEF Dispatched
<1>3. ASSUME NEW r \in Workers, worker[r].st # "none"
      PROVE  Mine(r) \in Tasks /\ r \in 1..Len(runs) /\ runs'[r].task = Mine(r)
  BY <1>2, <1>3, WorkersTask DEF Mine
<1> QED BY <1>1, <1>2, <1>3

\* Nobody takes a task up that nobody worked on.
LEMMA IdleStays ==
    ASSUME Dispatched, [Next]_vars, OldTurns, NEW t, Idle(t)
    PROVE  Idle(t)'
<1>1. ASSUME NEW r \in Workers, worker'[r].st = "working"
      PROVE  runs'[r].task # t
  BY <1>1, WorkersKeepTask DEF OldTurns, Idle
<1> QED BY <1>1 DEF Idle, Mine, Workers

\* What is known of a job stays true while it waits, unless it is a start.
LEMMA JobWaits ==
    ASSUME Dispatched, [Next]_vars, OldTurns, ClaimsKept, NEW j \in DispatcherJob(Len(runs)), SoloJob(j),
           j.op = "spawn" => tasks'[j.task].status = "running"
    PROVE  SoloJob(j)'
<1>1. Idle(j.task) => Idle(j.task)'
  BY IdleStays
<1>2. j.op = "setpid" => /\ runs'[j.run].task = j.task
                         /\ \A r \in Workers :
                                worker'[r].st = "working" /\ runs'[r].task = j.task => r = j.run
  <2> SUFFICES ASSUME j.op = "setpid"
               PROVE  /\ runs'[j.run].task = j.task
                      /\ \A r \in Workers :
                             worker'[r].st = "working" /\ runs'[r].task = j.task => r = j.run
    OBVIOUS
  <2>1. j.run \in 1..Len(runs) /\ runs[j.run].task = j.task
    <3>1. j.run \in Workers /\ j.run <= Len(runs)
      BY JobShape
    <3>2. Len(runs) \in Nat
      BY WorkersKeepTask DEF Grown
    <3> QED BY <3>1, <3>2 DEF SoloJob, Workers
  <2>2. ASSUME NEW r \in Workers, worker'[r].st = "working", runs'[r].task = j.task
        PROVE  r = j.run
    <3>1. worker[r].st = "working"
      BY <2>2 DEF OldTurns
    <3>2. Mine(r) = j.task
      BY <2>2, <3>1, WorkersKeepTask
    <3> QED BY <3>1, <3>2 DEF SoloJob
  <2> QED BY <2>1, <2>2, WorkersKeepTask
<1>3. j.op \in {"lease", "beat", "overdue"} =>
           (tasks'[j.task].status = "running" => tasks'[j.task].pid = j.pid)
  BY JobShape DEF SoloJob, ClaimsKept, ClaimKept
<1>4. j.op = "spawn" => /\ tasks'[j.task].status = "running" /\ tasks'[j.task].run = j.run
                        /\ worker'[j.run].st = "none"
  BY JobShape DEF SoloJob, ClaimsKept, ClaimKept, OldTurns
<1> QED BY <1>1, <1>2, <1>3, <1>4 DEF SoloJob, Mine, Workers

LEMMA WorkersStay ==
    ASSUME Solo, [Next]_vars, OldTurns, TurnsKept, ClaimsKept,
           \A d \in Dispatchers : At(d, "setpid") => agenda'[d] = agenda[d]
    PROVE  SoloWorkers'
<1>1. ASSUME NEW r \in Workers, worker'[r].st = "working"
      PROVE  /\ tasks'[runs'[r].task].status = "running" /\ tasks'[runs'[r].task].run = r
             /\ \/ tasks'[runs'[r].task].pid = r
                \/ \E d \in Dispatchers : At(d, "setpid")' /\ Now(d)'.run = r
  <2>1. worker[r].st = "working" /\ Mine(r) \in Tasks /\ runs'[r].task = Mine(r)
    BY <1>1, WorkersKeepTask DEF OldTurns, Solo, Serial
  <2>2. tasks'[Mine(r)].status = "running"
    BY <1>1, <2>1 DEF TurnsKept
  <2>3. tasks'[Mine(r)].run = r /\ tasks'[Mine(r)].pid = tasks[Mine(r)].pid
    BY <2>1, <2>2 DEF ClaimsKept, ClaimKept, Solo, SoloWorkers
  <2>4. \A d \in Dispatchers : At(d, "setpid") => At(d, "setpid")' /\ Now(d)' = Now(d)
    BY DEF At, Now
  <2> QED BY <2>1, <2>2, <2>3, <2>4 DEF Solo, SoloWorkers
<1> QED BY <1>1 DEF SoloWorkers, Mine, Workers

\* Only its own worker, at the end of a turn, takes a task out of "running".
LeftBy(q, x) ==
    /\ Mine(q) = x /\ worker[q].st # "none" /\ worker'[q].st # "working"
    /\ tasks[x].run = q \/ worker[q].st = "working"

TurnOver == \A x \in Tasks : tasks[x].status = "running" =>
                tasks'[x].status = "running" \/ \E q \in Workers : LeftBy(q, x)

\* Then, when no dispatcher moves, all stays as it was.
LEMMA OthersSolo ==
    ASSUME Solo, [Next]_vars, OldTurns, ClaimsKept, TurnOver,
           \A d \in Dispatchers : agenda'[d] = agenda[d]
    PROVE  SoloWorkers' /\ SoloJobs'
<1>1. TurnsKept
  <2> SUFFICES ASSUME NEW r \in Workers, worker[r].st = "working", worker'[r].st = "working",
                      tasks'[Mine(r)].status # "running"
               PROVE  FALSE
    BY DEF TurnsKept
  <2>1. Mine(r) \in Tasks /\ tasks[Mine(r)].status = "running" /\ tasks[Mine(r)].run = r
    BY WorkersKeepTask DEF Solo, SoloWorkers, Serial
  <2>2. PICK q \in Workers : LeftBy(q, Mine(r))
    BY <2>1 DEF TurnOver
  <2>3. q = r
    BY <2>1, <2>2 DEF LeftBy, Solo, SoloWorkers
  <2> QED BY <2>2, <2>3 DEF LeftBy
<1>2. SoloWorkers'
  BY <1>1, WorkersStay
<1>3. ASSUME NEW d \in Dispatchers, NEW i \in 1..Len(agenda[d])
      PROVE  SoloJob(agenda[d][i])'
  <2> DEFINE j == agenda[d][i]
  <2>1. j \in DispatcherJob(Len(runs)) /\ SoloJob(j)
    BY Kinds, ElementOfSeq DEF Solo, Serial, Dispatched, Agendas, SoloJobs
  <2>2. j.op = "spawn" => tasks'[j.task].status = "running"
    <3> SUFFICES ASSUME j.op = "spawn", tasks'[j.task].status # "running" PROVE FALSE
      OBVIOUS
    <3>1. /\ j.task \in Tasks /\ tasks[j.task].status = "running" /\ Idle(j.task)
          /\ tasks[j.task].run = j.run /\ worker[j.run].st = "none"
      BY <2>1, JobShape DEF SoloJob
    <3> HIDE DEF j
    <3>2. PICK q \in Workers : LeftBy(q, j.task)
      BY <3>1 DEF TurnOver
    <3> QED BY <3>1, <3>2 DEF LeftBy, Idle
  <2>3. \A x \in DispatcherJob(Len(runs)) :
            SoloJob(x) /\ (x.op = "spawn" => tasks'[x.task].status = "running") => SoloJob(x)'
    BY JobWaits DEF Solo, Serial
  <2>4. agenda'[d][i] = j
    OBVIOUS
  <2> HIDE DEF j
  <2>5. \A x : x = j => SoloJob(x)'
    BY <2>1, <2>2, <2>3
  <2> QED BY <2>4, <2>5
<1> QED BY <1>2, <1>3 DEF SoloJobs

LEMMA PutElsewhere ==
    ASSUME TypeOK, NEW t \in Tasks, NEW row, Put(t, row) \/ UNCHANGED tasks
    PROVE  \A x \in Tasks : x # t => tasks'[x] = tasks[x]
  BY DEF Put, TypeOK

\* RecordFailure writes one row, and a running one with a claim keeps running
\* unless the claim is given back with it.
LEMMA FailureElsewhere ==
    ASSUME TypeOK, NEW t \in Tasks, NEW n, NEW held, NEW why, NEW o,
           RecordFailure(t, n, held, why, o) \/ UNCHANGED tasks
    PROVE  \A x \in Tasks : x # t => tasks'[x] = tasks[x]
  BY PutElsewhere DEF RecordFailure

LEMMA FinishElsewhere ==
    ASSUME TypeOK, NEW t \in Tasks, NEW r, NEW from, NEW s, NEW o, NEW handoff,
           Finish(t, r, from, s, o, handoff)
    PROVE  \A x \in Tasks : x # t => tasks'[x] = tasks[x]
  BY PutElsewhere DEF Finish

\* What leaves the columns of all tasks alone, or changes those of a waiting one.
LEMMA RunningStays ==
    ASSUME Sound, NEW t \in Tasks,
           \/ \E l : ExtendClaim(t, l) \/ HeartbeatClaim(t, l)
           \/ \E r : HeartbeatWorker(t, r) \/ SetWorkerPid(t, r)
           \/ ClearFailureCounter(t)
           \/ ClaimRejected(t) \/ ClaimLost(t)
           \/ UnblockTask(t) \/ PromoteTask(t)
           \/ LeaseLapses(t) \/ HeartbeatAges(t) \/ GraceEnds(t)
           \/ \E n : RecomputeReady(n)
           \/ UNCHANGED tasks
    PROVE  \A x \in Tasks : tasks[x].status = "running" => tasks'[x].status = "running"
<1>1. tasks \in [Tasks -> TaskRow]
  BY DEF Sound, TypeOK
<1>2. CASE \E n : RecomputeReady(n)
  BY <1>1, <1>2 DEF RecomputeReady, Promotable
<1>3. CASE UNCHANGED tasks
  BY <1>3
<1>4. ASSUME NEW row, Put(t, row), row.status = tasks[t].status \/ tasks[t].status # "running"
      PROVE  \A x \in Tasks : tasks[x].status = "running" => tasks'[x].status = "running"
  BY <1>1, <1>4 DEF Put
<1>5. CASE \E row : /\ Put(t, row)
                    /\ \/ row \in {[tasks[t] EXCEPT !.expired = FALSE], [tasks[t] EXCEPT !.expired = TRUE],
                                   [tasks[t] EXCEPT !.hb = "fresh"], [tasks[t] EXCEPT !.hb = "old"],
                                   [tasks[t] EXCEPT !.started = "past"],
                                   [tasks[t] EXCEPT !.fails = 0, !.err = "none"]}
                       \/ \E r : row = [tasks[t] EXCEPT !.pid = r]
  <2>1. PICK row : /\ Put(t, row)
                   /\ \/ row \in {[tasks[t] EXCEPT !.expired = FALSE], [tasks[t] EXCEPT !.expired = TRUE],
                                  [tasks[t] EXCEPT !.hb = "fresh"], [tasks[t] EXCEPT !.hb = "old"],
                                  [tasks[t] EXCEPT !.started = "past"],
                                  [tasks[t] EXCEPT !.fails = 0, !.err = "none"]}
                      \/ \E r : row = [tasks[t] EXCEPT !.pid = r]
    BY <1>5
  <2>2. row.status = tasks[t].status
    BY <1>1, <2>1 DEF TaskRow
  <2> QED BY <1>4, <2>1, <2>2
<1>6. CASE ClaimRejected(t) \/ UnblockTask(t) \/ PromoteTask(t)
  BY <1>4, <1>6 DEF ClaimRejected, UnblockTask, PromoteTask
<1> QED BY <1>2, <1>3, <1>5, <1>6
        DEF ExtendClaim, HeartbeatClaim, HeartbeatWorker, SetWorkerPid, ClearFailureCounter,
            ClaimLost, LeaseLapses, HeartbeatAges, GraceEnds

\* The instances in which nobody but the dispatcher takes claims back.
Undisturbed == Verbs \intersect {"hold", "pull", "close", "archive", "move", "reclaim"} = {}

LEMMA OperatorSolo ==
    ASSUME Dispatched, Undisturbed, OperatorMove
    PROVE  OldTurns /\ TurnOver
<1> USE DEF Dispatched, Attempt
<1> DEFINE Running == \A x \in Tasks : tasks[x].status = "running" => tasks'[x].status = "running"
<1>1. /\ ~Does("hold") /\ ~Does("pull") /\ ~Does("close") /\ ~Does("archive") /\ ~Does("move")
      /\ ~Does("reclaim")
  BY DEF Undisturbed, Does
<1>2. UNCHANGED boardVars => Running
  BY RunningStays DEF boardVars
<1>3. ~Terminate /\ ~Reclaim /\ ~Drop
  BY <1>1, NowTyped, OperatorShape, Kinds DEF Terminate, Reclaim, Drop, At, Now
<1>4. UNCHANGED worker => OldTurns
  BY DEF OldTurns
<1>5. UNCHANGED worker
  BY <1>3 DEF OperatorMove, Clear, Promote
<1>6. CASE Clear(Operator) \/ Promote(Operator)
  <2>1. Clear(Operator) => Now(Operator).task \in Tasks
    BY NowTyped, OperatorShape, Kinds DEF Clear, At, Now
  <2>2. Running
    BY <1>2, <1>6, <2>1, RunningStays DEF Clear, Promote
  <2> QED BY <1>4, <1>5, <2>2 DEF TurnOver
<1>7. CASE DropUnblock \/ FinishPromote
  <2>1. Now(Operator).task \in Tasks
    BY <1>7, NowTyped, OperatorShape, Kinds DEF DropUnblock, FinishPromote, At, Now
  <2>2. Running
    BY <1>2, <1>7, <2>1, RunningStays DEF DropUnblock, FinishPromote
  <2> QED BY <1>4, <1>5, <2>2 DEF TurnOver
<1>8. ASSUME NEW t \in Tasks, Unblock(t) \/ Drag(t) \/ BeginReclaim(t) \/ BeginPromote(t)
      PROVE  Running
  BY <1>2, <1>8, RunningStays DEF Unblock, Drag, BeginReclaim, BeginPromote
<1> QED BY <1>1, <1>3, <1>4, <1>5, <1>6, <1>7, <1>8
        DEF OperatorMove, TurnOver, Hold, Pull, Archive, Close

LEMMA WorkerSolo ==
    ASSUME Dispatched, NEW r \in Workers, WorkerStep(r)
    PROVE  OldTurns /\ TurnOver
<1> USE DEF Dispatched, Attempt
<1> DEFINE Running == \A x \in Tasks : tasks[x].status = "running" => tasks'[x].status = "running"
<1>1. UNCHANGED boardVars => Running
  BY RunningStays DEF boardVars
<1>2. UNCHANGED worker => OldTurns
  BY DEF OldTurns
<1>3. ASSUME NEW st \in {"done"} \union ExitKinds, Announce(r, st), Alive(r)
      PROVE  OldTurns /\ worker'[r].st = st /\ worker[r].st # "none"
  BY <1>3 DEF Announce, OldTurns, Processes, WorkerRow, Alive, ExitKinds
<1>4. Alive(r) => Mine(r) \in Tasks
  BY WorkersTask DEF Alive
<1>5. CASE Clear(r) \/ Promote(r)
  <2>1. Clear(r) => Now(r).task \in Tasks
    BY NowTyped, WorkerShape, Kinds DEF Clear, At, Now
  <2>2. Running
    BY <1>1, <1>5, <2>1, RunningStays DEF Clear, Promote
  <2> QED BY <1>2, <1>5, <2>2 DEF TurnOver, Clear, Promote
<1>6. CASE Exit(r)
  <2>1. Running /\ Alive(r) /\ \E st \in {"done"} \union ExitKinds : Announce(r, st)
    BY <1>6, RunningStays DEF Exit, Active, ExitKinds
  <2> QED BY <1>3, <2>1 DEF TurnOver
<1>7. CASE BeatLease(r) \/ BeatRow(r)
  <2>1. Alive(r) /\ UNCHANGED worker
    BY <1>7, Kinds DEF BeatLease, BeatRow, Active, At, Processes
  <2>2. Mine(r) \in Tasks
    BY <1>4, <2>1
  <2> HIDE DEF Mine
  <2>3. Running
    BY <1>1, <1>7, <2>2, RunningStays DEF BeatLease, BeatRow
  <2> QED BY <1>2, <2>1, <2>3 DEF TurnOver
<1>8. CASE Complete(r) \/ Block(r)
  <2>1. Alive(r) /\ Announce(r, "done")
    BY <1>8 DEF Complete, Block, Active
  <2>2. Mine(r) \in Tasks /\ r \in 1..Len(runs)
    BY <2>1, WorkersTask DEF Alive
  <2> HIDE DEF Mine
  <2>3. tasks[Mine(r)].run = r /\ \A x \in Tasks : x # Mine(r) => tasks'[x] = tasks[x]
    <3>1. PICK from, s, o : Finish(Mine(r), r, from, s, o, TRUE)
      BY <1>8 DEF Complete, Block, CompleteTask, BlockTask
    <3>2. r # 0
      BY BoardAssumption DEF Workers
    <3> QED BY <2>2, <3>1, <3>2, FinishElsewhere DEF Finish, Expected, Sound
  <2>4. OldTurns /\ worker'[r].st = "done" /\ worker[r].st # "none"
    BY <1>3, <2>1
  <2> QED BY <2>3, <2>4 DEF TurnOver, LeftBy
<1>9. CASE ExhaustBudget(r)
  <2>1. Alive(r) /\ Announce(r, "done") /\ worker[r].st = "working"
    BY <1>9 DEF ExhaustBudget, Active
  <2>2. Mine(r) \in Tasks
    BY <1>4, <2>1
  <2> HIDE DEF Mine
  <2>3. \A x \in Tasks : x # Mine(r) => tasks'[x] = tasks[x]
    BY <1>9, <2>2, FailureElsewhere DEF ExhaustBudget, boardVars, Sound
  <2>4. OldTurns /\ worker'[r].st = "done" /\ worker[r].st # "none"
    BY <1>3, <2>1
  <2> QED BY <2>1, <2>3, <2>4 DEF TurnOver, LeftBy
<1> QED BY <1>5, <1>6, <1>7, <1>8, <1>9 DEF WorkerStep

LEMMA TickSolo ==
    ASSUME Dispatched, Tick
    PROVE  OldTurns /\ TurnOver
<1>1. \A x \in Tasks : tasks[x].status = "running" => tasks'[x].status = "running"
  <2>1. CASE \E t \in Tasks : LeaseLapses(t) \/ GraceEnds(t) \/ HeartbeatAges(t)
    BY <2>1, RunningStays DEF Dispatched
  <2>2. CASE \E r \in 1..Len(runs) : RunAges(r)
    BY <2>2 DEF RunAges
  <2> QED BY <2>1, <2>2 DEF Tick
<1> QED BY <1>1 DEF Tick, OldTurns, TurnOver

\* Unless a dispatcher is about to write it, the row of a task has the pid of
\* whoever works on it.
LEMMA PidWritten ==
    ASSUME Solo, NEW d \in Dispatchers, life[d] = "up", ~At(d, "setpid")
    PROVE  \A r \in Workers : worker[r].st = "working" => tasks[Mine(r)].pid = r
<1>1. \A e \in Dispatchers : ~At(e, "setpid")
  BY DEF Solo, Serial, OneUp, Dispatched, Processes, At
<1> QED BY <1>1 DEF Solo, SoloWorkers

LEMMA HeadSolo ==
    ASSUME Solo, NEW d \in Dispatchers, agenda[d] # <<>>
    PROVE  /\ SoloJob(Now(d)) /\ Now(d) \in DispatcherJob(Len(runs)) /\ life[d] = "up"
           /\ \A k \in 2..Len(agenda[d]) :
                 /\ SoloJob(agenda[d][k]) /\ agenda[d][k] \in DispatcherJob(Len(runs))
                 /\ agenda[d][k].op \notin HeadOnly
                 /\ Now(d).op \in Late => agenda[d][k].op \in Late
<1>1. /\ 1 \in 1..Len(agenda[d]) /\ agenda[d][1] = Now(d)
      /\ \A k \in 2..Len(agenda[d]) : k \in 1..Len(agenda[d])
  BY HeadJob DEF Solo, Serial
<1>2. \A k \in 1..Len(agenda[d]) : SoloJob(agenda[d][k]) /\ agenda[d][k] \in DispatcherJob(Len(runs))
  BY Kinds, ElementOfSeq DEF Solo, Serial, Dispatched, Agendas, SoloJobs
<1>3. Now(d).op \in Late => LateList(agenda[d])
  BY <1>1 DEF Solo, Serial, Phased, Phase, EarlyList
<1> QED BY <1>1, <1>2, <1>3 DEF LateList, Solo, Serial, Phased, Phase, Dispatched, Processes

LEMMA DispatcherTurns ==
    ASSUME Solo, NEW d \in Dispatchers, DispatcherStep(d)
    PROVE  TurnsKept /\ (OldTurns \/ Spawn(d))
<1> USE DEF Attempt
<1> DEFINE h == Now(d)
           Running == \A x \in Tasks : tasks[x].status = "running" => tasks'[x].status = "running"
<1>1. ASSUME NEW r \in Workers, worker[r].st = "working"
      PROVE  Mine(r) \in Tasks /\ tasks[Mine(r)].status = "running"
  BY <1>1, WorkersTask DEF Solo, Serial, SoloWorkers
<1>2. Running => TurnsKept
  BY <1>1 DEF TurnsKept
<1>3. ASSUME NEW t \in Tasks, Idle(t), \A x \in Tasks : x # t => tasks'[x] = tasks[x]
      PROVE  TurnsKept
  BY <1>1, <1>3 DEF TurnsKept, Idle
<1>4. UNCHANGED worker => OldTurns
  BY DEF OldTurns
<1>5. \A x : worker' = Killed(x) => OldTurns
  BY DEF OldTurns, Killed, Alive, Solo, Serial, Dispatched, Processes, WorkerRow
<1>6. Sound /\ TypeOK
  BY DEF Solo, Serial, Dispatched, Sound
<1>7. agenda[d] # <<>> => SoloJob(h) /\ h \in DispatcherJob(Len(runs)) /\ life[d] = "up"
  BY HeadSolo
<1>8. UNCHANGED boardVars => Running
  BY DEF boardVars
<1>9. CASE StartTick(d)
  <2>1. \A r \in Workers : worker'[r].st = worker[r].st
    BY <1>9 DEF StartTick, Solo, Serial, Dispatched, Processes, WorkerRow
  <2>2. Running
    BY <1>9 DEF StartTick
  <2> QED BY <1>2, <2>1, <2>2 DEF OldTurns
<1>10. CASE ListLeases(d) \/ ListBeats(d) \/ ListOverdue(d) \/ ListReady(d) \/ Consider(d)
  <2>1. UNCHANGED <<tasks, worker>>
    BY <1>10 DEF ListLeases, ListBeats, ListOverdue, ListReady, Consider, ConsiderLinked
  <2> QED BY <1>2, <1>4, <2>1
<1>11. CASE KillSilent(d) \/ KillOverdue(d)
  <2>1. UNCHANGED tasks /\ worker' = Killed(h.pid)
    BY <1>11 DEF KillSilent, KillOverdue, Kill
  <2> QED BY <1>2, <1>5, <2>1
<1>12. CASE CheckLease(d)
  <2>1. h.task \in Tasks
    BY <1>7, <1>12, JobShape DEF CheckLease, At, Now
  <2>2. UNCHANGED worker \/ worker' = Killed(h.pid)
    BY <1>12 DEF CheckLease, Kill
  <2> HIDE DEF h, Now
  <2>3. UNCHANGED boardVars \/ ExtendClaim(h.task, h.lock)
    BY <1>12 DEF CheckLease, h
  <2>4. Running
    BY <1>6, <1>8, <2>1, <2>3, RunningStays
  <2> QED BY <1>2, <1>4, <1>5, <2>2, <2>4
<1>13. CASE ReleaseLease(d) \/ YankStale(d) \/ YankOverdue(d)
  <2>1. h.task \in Tasks /\ Idle(h.task) /\ UNCHANGED worker
    BY <1>7, <1>13, JobShape DEF ReleaseLease, YankStale, YankOverdue, At, Now, SoloJob
  <2> HIDE DEF h, Now
  <2>2. UNCHANGED tasks \/ \E row : Put(h.task, row)
    BY <1>13 DEF ReleaseLease, YankStale, YankOverdue, ReleaseStaleClaim, YankRunning, boardVars, h
  <2> QED BY <1>3, <1>4, <1>6, <2>1, <2>2, PutElsewhere
<1>14. CASE CountFailure(d) \/ SpawnFailed(d)
  <2>1. h.task \in Tasks /\ Idle(h.task) /\ UNCHANGED worker
    BY <1>7, <1>14, JobShape DEF CountFailure, SpawnFailed, At, Now, SoloJob
  <2> HIDE DEF h, Now
  <2>2. \/ UNCHANGED tasks
        \/ \E n, held, why, o : RecordFailure(h.task, n, held, why, o)
    BY <1>14 DEF CountFailure, SpawnFailed, boardVars, h
  <2> QED BY <1>3, <1>4, <1>6, <2>1, <2>2, FailureElsewhere
<1>15. CASE SweepCrashes(d)
  <2>1. life[d] = "up" /\ ~At(d, "setpid")
    BY <1>7, <1>15 DEF SweepCrashes, At
  <2>2. ASSUME NEW r \in Workers, worker[r].st = "working"
        PROVE  tasks'[Mine(r)] = tasks[Mine(r)]
    <3>1. tasks[Mine(r)].pid = r /\ Alive(r)
      BY <2>1, <2>2, PidWritten, BoardAssumption DEF Alive, Workers
    <3>2. Mine(r) \in Tasks
      BY <1>1, <2>2
    <3> HIDE DEF Mine
    <3> QED BY <1>15, <3>1, <3>2 DEF SweepCrashes, DetectCrashed, boardVars
  <2> QED BY <1>1, <1>4, <1>15, <2>2 DEF TurnsKept, SweepCrashes
<1>16. CASE Promote(d)
  BY <1>2, <1>4, <1>6, <1>16, RunningStays DEF Promote
<1>17. CASE Claim(d)
  <2>1. h.task \in Tasks /\ UNCHANGED worker
    BY <1>7, <1>17, JobShape DEF Claim, At, Now
  <2> HIDE DEF h, Now
  <2>2. \/ UNCHANGED boardVars \/ ClaimRejected(h.task) \/ ClaimLost(h.task)
        \/ Claimed(h.task, d)
    BY <1>17 DEF Claim, ClaimTask, h
  <2>3. CASE Claimed(h.task, d)
    <3>1. Idle(h.task)
      BY <2>3 DEF Claimed, Claimable, Idle, Solo, SoloWorkers
    <3>2. \E row : Put(h.task, row)
      BY <2>3 DEF Claimed
    <3> QED BY <1>3, <1>4, <1>6, <2>1, <3>1, <3>2, PutElsewhere
  <2>4. CASE UNCHANGED boardVars \/ ClaimRejected(h.task) \/ ClaimLost(h.task)
    BY <1>2, <1>4, <1>6, <1>8, <2>1, <2>4, RunningStays
  <2> QED BY <2>2, <2>3, <2>4
<1>18. CASE Spawn(d)
  BY <1>2, <1>18 DEF Spawn
<1>19. CASE SetPid(d)
  <2>1. h.task \in Tasks /\ UNCHANGED worker
    BY <1>7, <1>19, JobShape DEF SetPid, At, Now
  <2> HIDE DEF h, Now
  <2>2. UNCHANGED boardVars \/ SetWorkerPid(h.task, h.run)
    BY <1>19 DEF SetPid, h
  <2> QED BY <1>2, <1>4, <1>6, <1>8, <2>1, <2>2, RunningStays
<1> QED BY <1>9, <1>10, <1>11, <1>12, <1>13, <1>14, <1>15, <1>16, <1>17, <1>18, <1>19
        DEF DispatcherStep

\* A new job of d is right when its step starts nobody and claims nothing.
LEMMA NewJobSolo ==
    ASSUME Solo, [Next]_vars, OldTurns, ClaimsKept, NEW d \in Dispatchers, agenda[d] # <<>>,
           NEW j \in DispatcherJob(Len(runs')), NewJob(d, j), ~At(d, "setpid")
    PROVE  SoloJob(j)'
<1> DEFINE h == Now(d)
<1>1. /\ SoloJob(h) /\ h \in DispatcherJob(Len(runs)) /\ life[d] = "up" /\ Dispatched
      /\ \A r \in Workers : worker[r].st = "working" => tasks[Mine(r)].pid = r
  BY HeadSolo, PidWritten DEF Solo, Serial
<1>2. \A t : Idle(t) => Idle(t)'
  BY <1>1, IdleStays
<1>3. j.op \in {"lease", "beat", "overdue"} => SoloJob(j)'
  BY DEF NewJob, SoloJob
<1>4. ASSUME j.op \in {"release", "stale", "timeout"}
      PROVE  SoloJob(j)'
  <2>1. /\ j.task = h.task /\ h.op \in {"lease", "beat", "overdue"} /\ h.task \in Tasks
        /\ h.pid \in Workers => worker'[h.pid].st # "working"
    BY <1>1, <1>4, JobShape DEF NewJob
  <2>2. ASSUME NEW r \in Workers, worker'[r].st = "working", runs'[r].task = h.task
        PROVE  FALSE
    <3>1. worker[r].st = "working" /\ Mine(r) = h.task
      BY <1>1, <2>2, WorkersKeepTask DEF OldTurns
    <3>2. tasks[h.task].pid = r /\ tasks[h.task].status = "running"
      BY <1>1, <3>1 DEF Solo, SoloWorkers
    <3>3. h.pid = r
      BY <1>1, <2>1, <3>2 DEF SoloJob
    <3> QED BY <2>1, <2>2, <3>3
  <2>3. Idle(j.task)'
    BY <2>1, <2>2 DEF Idle, Mine, Workers
  <2> QED BY <1>4, <2>3 DEF SoloJob
<1>5. ASSUME j.op = "fail"
      PROVE  SoloJob(j)'
  <2>1. CASE h.op = "timeout" /\ j.task = h.task
    BY <1>1, <1>2, <1>5, <2>1 DEF SoloJob
  <2>2. CASE j.task \in CrashCandidates /\ ~Alive(tasks[j.task].pid) /\ worker' = worker
    <3>1. Idle(j.task)
      <4> SUFFICES ASSUME NEW r \in Workers, worker[r].st = "working", Mine(r) = j.task PROVE FALSE
        BY DEF Idle
      <4>1. tasks[j.task].pid = r /\ r # 0
        BY <1>1, BoardAssumption DEF Workers
      <4> QED BY <2>2, <4>1 DEF Alive
    <3> QED BY <1>2, <1>5, <3>1 DEF SoloJob
  <2> QED BY <1>5, <2>1, <2>2 DEF NewJob
<1>6. j.op # "spawn"
  <2> SUFFICES ASSUME j.op = "spawn" PROVE FALSE
    OBVIOUS
  <2>1. /\ j.task \in Tasks /\ tasks[j.task].status = "ready" /\ tasks'[j.task].status = "running"
    BY JobShape DEF NewJob
  <2> QED BY <2>1 DEF ClaimsKept, ClaimKept
<1>7. ASSUME j.op \in {"setpid", "spawnfail"}
      PROVE  SoloJob(j)'
  <2>1. /\ h.op = "spawn" /\ j.task = h.task /\ (j.op = "setpid" => j.run = h.run)
        /\ h.task \in Tasks /\ tasks[h.task].status = "running" /\ tasks[h.task].run = h.run
        /\ Idle(h.task)
    BY <1>1, <1>7, JobShape DEF NewJob, SoloJob
  <2>2. Idle(j.task)'
    BY <1>2, <2>1
  <2>3. h.run \in 1..Len(runs) /\ runs[h.run].task = h.task
    BY <1>1, <2>1 DEF Dispatched, Sound, RunPointers, RunBelongsToTask, RunningHasOpenRun
  <2>4. runs'[h.run].task = h.task
    BY <1>1, <2>3, WorkersKeepTask
  <2> HIDE DEF h
  <2> QED BY <1>7, <2>1, <2>2, <2>4 DEF SoloJob, Idle, Workers, Mine
<1>8. j.op \in Successors(h.op)
  BY DEF NewJob
<1>9. \A op \in Successors(h.op) : op \in {"lease", "release", "beat", "stale", "fail", "overdue",
                     "timeout", "consider", "claim", "spawn", "setpid", "spawnfail"}
  BY DEF Successors
<1>10. j.op \in {"consider", "claim"} => SoloJob(j)'
  BY DEF SoloJob
<1> QED BY <1>3, <1>4, <1>5, <1>6, <1>7, <1>8, <1>9, <1>10

\* A job that waits is right as long as its step starts nobody and claims nothing.
LEMMA QuietSolo ==
    ASSUME Solo, [Next]_vars, OldTurns, TurnsKept, ClaimsKept, NEW d \in Dispatchers, NEW more,
           NewJobs(d, more), ~At(d, "setpid")
    PROVE  SoloWorkers' /\ SoloJobs'
<1>1. /\ agenda[d] # <<>> /\ Dispatched /\ Grown /\ OneUp
      /\ \A e \in Dispatchers \ {d} : agenda[e] = <<>> /\ agenda'[e] = <<>>
  BY OthersIdle, WorkersKeepTask, Kinds DEF NewJobs, Advances, Solo, Serial
<1>2. SoloWorkers'
  <2>1. \A e \in Dispatchers : At(e, "setpid") => agenda'[e] = agenda[e]
    BY <1>1 DEF At
  <2> QED BY <2>1, WorkersStay
<1>3. ASSUME NEW k \in 2..Len(agenda[d]), NEW j, j = agenda[d][k]
      PROVE  SoloJob(j)'
  <2>1. j \in DispatcherJob(Len(runs)) /\ SoloJob(j) /\ j.op # "spawn"
    BY <1>1, <1>3, HeadSolo DEF HeadOnly
  <2>2. \A x \in DispatcherJob(Len(runs)) : SoloJob(x) /\ x.op # "spawn" => SoloJob(x)'
    BY <1>1, JobWaits
  <2> QED BY <2>1, <2>2
<1>4. ASSUME NEW k \in 1..Len(more)
      PROVE  SoloJob(more[k])'
  <2>1. more[k] \in DispatcherJob(Len(runs')) /\ NewJob(d, more[k])
    BY ElementOfSeq DEF NewJobs
  <2> QED BY <1>1, <2>1, NewJobSolo
<1>5. ASSUME NEW i \in 1..Len(agenda'[d])
      PROVE  SoloJob(agenda[d][i])'
  <2>1. CASE \E k \in 1..Len(more) : agenda'[d][i] = more[k]
    BY <1>4, <2>1
  <2>2. CASE \E k \in 2..Len(agenda[d]) : agenda'[d][i] = agenda[d][k]
    <3>1. PICK k \in 2..Len(agenda[d]) : agenda'[d][i] = agenda[d][k]
      BY <2>2
    <3>2. \A j : j = agenda[d][k] => SoloJob(j)'
      BY <1>3
    <3> QED BY <3>1, <3>2
  <2> QED BY <1>1, <2>1, <2>2, NewList
<1> QED BY <1>1, <1>2, <1>5 DEF SoloJobs

\* A claim: nobody worked on the card, and its start is all that is new.
LEMMA ClaimSolo ==
    ASSUME Solo, [Next]_vars, NEW d \in Dispatchers, NEW more, NewJobs(d, more),
           Claim(d), Claimed(Now(d).task, d)
    PROVE  SoloWorkers' /\ SoloJobs'
<1> DEFINE t == Now(d).task
<1>1. /\ agenda[d] # <<>> /\ Dispatched /\ Grown /\ OneUp /\ Sound
      /\ \A e \in Dispatchers \ {d} : agenda[e] = <<>> /\ agenda'[e] = <<>>
  BY OthersIdle, WorkersKeepTask, Kinds DEF NewJobs, Advances, Solo, Serial, Dispatched
<1>2. Now(d).op = "claim" /\ t \in Tasks /\ life[d] = "up" /\ UNCHANGED worker
  BY <1>1, HeadSolo, JobShape DEF Claim, At, Now
<1>3. /\ tasks[t].status = "ready" /\ tasks'[t].status = "running" /\ tasks'[t].run = Len(runs) + 1
      /\ \A x \in Tasks \ {t} : tasks'[x] = tasks[x]
  BY <1>1, <1>2 DEF Claimed, Claimable, Put, Sound, TypeOK, TaskRow
<1>4. Idle(t)
  BY <1>3 DEF Idle, Solo, SoloWorkers
<1>5. \A x : Idle(x) => Idle(x)'
  BY <1>1, <1>2, IdleStays DEF OldTurns
<1>6. SoloWorkers'
  <2>1. ASSUME NEW r \in Workers, worker'[r].st = "working"
        PROVE  /\ tasks'[runs'[r].task].status = "running" /\ tasks'[runs'[r].task].run = r
               /\ tasks'[runs'[r].task].pid = r
    <3>1. worker[r].st = "working" /\ runs'[r].task = Mine(r) /\ Mine(r) \in Tasks \ {t}
      BY <1>1, <1>2, <1>4, <2>1, WorkersKeepTask DEF Idle
    <3>2. tasks[Mine(r)].pid = r
      BY <1>2, <3>1, PidWritten DEF At, Now
    <3> HIDE DEF Mine, t
    <3>3. tasks[Mine(r)].status = "running" /\ tasks[Mine(r)].run = r
      BY <3>1 DEF Solo, SoloWorkers
    <3> QED BY <1>3, <3>1, <3>2, <3>3
  <2> QED BY <2>1 DEF SoloWorkers, Mine, Workers
<1>7. ASSUME NEW k \in 1..Len(more)
      PROVE  SoloJob(more[k])'
  <2> DEFINE j == more[k]
  <2>1. j \in DispatcherJob(Len(runs')) /\ NewJob(d, j)
    BY ElementOfSeq DEF NewJobs
  <2>2. j.op = "spawn"
    BY <1>2, <2>1 DEF NewJob, Successors
  <2>3. /\ j.task \in Tasks /\ j.run \in Workers /\ j.run = Len(runs) + 1
        /\ tasks[j.task].status = "ready" /\ tasks'[j.task].status = "running"
        /\ tasks'[j.task].run = j.run
    BY <2>1, <2>2, JobShape DEF NewJob
  <2> HIDE DEF j
  <2>4. j.task = t
    BY <1>3, <2>3
  <2>5. worker'[j.run].st = "none"
    <3>1. worker[j.run].st = "none"
      <4>1. Len(runs) \in Nat /\ (worker[j.run].st # "none" => j.run <= Len(runs))
        BY <1>1, <2>3 DEF Grown, Dispatched, Processes
      <4> QED BY <2>3, <4>1
    <3> QED BY <1>2, <3>1
  <2>6. Idle(j.task)'
    BY <1>4, <1>5, <2>4
  <2>7. SoloJob(j)'
    BY <2>2, <2>3, <2>5, <2>6 DEF SoloJob
  <2> QED BY <2>7 DEF j
<1>8. ASSUME NEW i \in 1..Len(agenda'[d])
      PROVE  SoloJob(agenda[d][i])'
  <2>1. CASE \E k \in 1..Len(more) : agenda'[d][i] = more[k]
    BY <1>7, <2>1
  <2>2. CASE \E k \in 2..Len(agenda[d]) : agenda'[d][i] = agenda[d][k]
    <3>1. agenda'[d][i].op = "consider"
      BY <1>1, <1>2, <2>2, HeadSolo DEF Late, HeadOnly
    <3> QED BY <3>1 DEF SoloJob
  <2> QED BY <1>1, <2>1, <2>2, NewList
<1> QED BY <1>1, <1>6, <1>8 DEF SoloJobs

\* A start: the new process is the one the row names, and its pid comes next.
LEMMA SpawnSolo ==
    ASSUME Solo, [Next]_vars, NEW d \in Dispatchers, NEW more, NewJobs(d, more), Spawn(d),
           ~OldTurns
    PROVE  SoloWorkers' /\ SoloJobs'
<1> DEFINE h == Now(d)
           jobs == <<[h EXCEPT !.op = "setpid"]>>
<1>1. /\ agenda[d] # <<>> /\ Dispatched /\ Grown /\ OneUp /\ Sound
      /\ \A e \in Dispatchers \ {d} : agenda[e] = <<>> /\ agenda'[e] = <<>>
  BY OthersIdle, WorkersKeepTask, Kinds DEF NewJobs, Advances, Solo, Serial, Dispatched
<1>2. h.op = "spawn" /\ SoloJob(h) /\ h \in DispatcherJob(Len(runs)) /\ life[d] = "up"
  BY <1>1, HeadSolo DEF Spawn, At, Now
<1>3. /\ h.task \in Tasks /\ h.run \in Workers /\ Idle(h.task)
      /\ tasks[h.task].status = "running" /\ tasks[h.task].run = h.run
  BY <1>2, JobShape DEF SoloJob
<1>4. /\ UNCHANGED <<tasks, runs>>
      /\ worker' = [worker EXCEPT ![h.run] = [st |-> "working", parent |-> d, reaped |-> FALSE]]
      /\ Then(d, jobs)
  BY DEF Spawn, OldTurns
<1>5. h.run \in 1..Len(runs) /\ Mine(h.run) = h.task
  BY <1>1, <1>3 DEF Mine, Sound, RunPointers, RunBelongsToTask, RunningHasOpenRun
<1>6. h \in [op: {"spawn", "setpid"}, task: Tasks, run: {r \in Workers : r <= Len(runs)}]
  BY <1>2 DEF DispatcherJob, RowJob, TaskJob, PromoteJob
<1>7. /\ [h EXCEPT !.op = "setpid"].op = "setpid" /\ [h EXCEPT !.op = "setpid"].task = h.task
      /\ [h EXCEPT !.op = "setpid"].run = h.run
  BY <1>6
<1>8. /\ jobs \in Seq({[h EXCEPT !.op = "setpid"]}) /\ Len(jobs) = 1
      /\ jobs[1] = [h EXCEPT !.op = "setpid"]
  OBVIOUS
<1>9. agenda'[d] = jobs \o Tail(agenda[d])
  BY <1>1, <1>4, Kinds DEF Then, Dispatched, Agendas
<1> HIDE DEF h, jobs
<1>10. /\ agenda'[d] # <<>> /\ Head(agenda'[d]) = jobs[1] /\ agenda'[d][1] = jobs[1]
       /\ \A i \in 1..Len(agenda'[d]) : i = 1 \/ \E k \in 2..Len(agenda[d]) : agenda'[d][i] = agenda[d][k]
  <2> DEFINE S == DispatcherJob(Len(runs)) \union {[h EXCEPT !.op = "setpid"]}
             new == jobs \o Tail(agenda[d])
  <2>1. agenda[d] \in Seq(S) /\ jobs \in Seq(S)
    <3>1. agenda[d] \in Seq(DispatcherJob(Len(runs)))
      BY <1>1, Kinds DEF Dispatched, Agendas
    <3>2. jobs \in Seq({[h EXCEPT !.op = "setpid"]})
      BY <1>8
    <3> QED BY <3>1, <3>2, SeqMonotonic
  <2> HIDE DEF S
  <2>2. /\ Len(new) = Len(jobs) + Len(agenda[d]) - 1 /\ new \in Seq(S)
        /\ \A i \in 1..Len(new) :
             \/ i \in 1..Len(jobs) /\ new[i] = jobs[i]
             \/ i - Len(jobs) + 1 \in 2..Len(agenda[d]) /\ new[i] = agenda[d][i - Len(jobs) + 1]
    BY <1>1, <2>1, AfterHead
  <2>3. Len(agenda[d]) \in Nat /\ Len(agenda[d]) > 0
    BY <1>1, <2>1, LenProperties, EmptySeq
  <2> HIDE DEF new
  <2>4. \A i \in 1..Len(new) : i = 1 \/ \E k \in 2..Len(agenda[d]) : new[i] = agenda[d][k]
    BY <1>8, <2>2, <2>3
  <2>5. 1 \in 1..Len(new) /\ ~(1 - Len(jobs) + 1 \in 2..Len(agenda[d]))
    BY <1>8, <2>2, <2>3
  <2>6. new # <<>> /\ Head(new) = new[1]
    BY <2>2, <2>5, LenProperties, EmptySeq, HeadTailProperties
  <2> QED BY <1>9, <2>2, <2>4, <2>5, <2>6 DEF new
<1>11. At(d, "setpid")' /\ Now(d)'.run = h.run /\ Now(d)'.task = h.task
  BY <1>7, <1>8, <1>10 DEF At, Now
<1>12. SoloWorkers'
  <2>1. ASSUME NEW r \in Workers, worker'[r].st = "working"
        PROVE  /\ tasks[Mine(r)].status = "running" /\ tasks[Mine(r)].run = r
               /\ r = h.run \/ tasks[Mine(r)].pid = r
    <3>1. CASE r = h.run
      BY <1>3, <1>5, <3>1
    <3>2. CASE r # h.run
      <4>1. worker[r].st = "working"
        BY <1>1, <1>4, <2>1, <3>2 DEF Dispatched, Processes
      <4>2. ~At(d, "setpid")
        BY <1>2 DEF At, Now, h
      <4> QED BY <1>2, <4>1, <4>2, PidWritten DEF Solo, SoloWorkers
    <3> QED BY <3>1, <3>2
  <2>2. \A r : Mine(r)' = Mine(r)
    BY <1>4 DEF Mine
  <2> QED BY <1>4, <1>11, <2>1, <2>2 DEF SoloWorkers, Workers
<1>13. ASSUME NEW i \in 1..Len(agenda'[d])
       PROVE  SoloJob(agenda[d][i])'
  <2>1. CASE i = 1
    <3>1. agenda'[d][i].op = "setpid" /\ agenda'[d][i].run = h.run /\ agenda'[d][i].task = h.task
      BY <1>7, <1>8, <1>10, <2>1
    <3>2. runs'[h.run].task = h.task
      BY <1>4, <1>5 DEF Mine
    <3>3. ASSUME NEW r \in Workers, worker'[r].st = "working", runs'[r].task = h.task
          PROVE  r = h.run
      <4> SUFFICES ASSUME r # h.run PROVE FALSE
        OBVIOUS
      <4>1. worker[r].st = "working" /\ Mine(r) = h.task
        BY <1>1, <1>4, <3>3 DEF Dispatched, Processes, Mine
      <4> QED BY <1>3, <4>1 DEF Idle
    <3> QED BY <3>1, <3>2, <3>3 DEF SoloJob, Mine, Workers
  <2>2. CASE \E k \in 2..Len(agenda[d]) : agenda'[d][i] = agenda[d][k]
    <3>1. agenda'[d][i].op = "consider"
      BY <1>1, <1>2, <2>2, HeadSolo DEF Late, HeadOnly, h
    <3> QED BY <3>1 DEF SoloJob
  <2> QED BY <1>10, <2>1, <2>2
<1> QED BY <1>1, <1>12, <1>13 DEF SoloJobs

\* _set_worker_pid: the row has the pid of the only process on its task.
LEMMA SetPidSolo ==
    ASSUME Solo, [Next]_vars, NEW d \in Dispatchers, NEW more, NewJobs(d, more), SetPid(d),
           TurnsKept
    PROVE  SoloWorkers' /\ SoloJobs'
<1> DEFINE h == Now(d)
<1>1. /\ agenda[d] # <<>> /\ Dispatched /\ Grown /\ OneUp /\ Sound
      /\ \A e \in Dispatchers \ {d} : agenda[e] = <<>> /\ agenda'[e] = <<>>
  BY OthersIdle, WorkersKeepTask, Kinds DEF NewJobs, Advances, Solo, Serial, Dispatched
<1>2. h.op = "setpid" /\ SoloJob(h) /\ h \in DispatcherJob(Len(runs)) /\ life[d] = "up"
  BY <1>1, HeadSolo DEF SetPid, At, Now
<1>3. /\ h.task \in Tasks /\ UNCHANGED <<worker, runs>>
      /\ \A r \in Workers : worker[r].st = "working" /\ Mine(r) = h.task => r = h.run
  BY <1>2, JobShape DEF SoloJob, SetPid, Attempt, boardVars, SetWorkerPid
<1>4. \/ UNCHANGED tasks /\ ~Present(h.task)
      \/ tasks' = [tasks EXCEPT ![h.task] = [tasks[h.task] EXCEPT !.pid = h.run]]
  BY DEF SetPid, Attempt, boardVars, SetWorkerPid, Put
<1>5. tasks \in [Tasks -> TaskRow]
  BY <1>1 DEF Sound, TypeOK
<1> HIDE DEF h
<1>6. \A x \in Tasks : /\ tasks'[x].status = tasks[x].status /\ tasks'[x].run = tasks[x].run
                       /\ x # h.task => tasks'[x].pid = tasks[x].pid
  BY <1>3, <1>4, <1>5 DEF TaskRow
<1>7. tasks[h.task].status = "running" => tasks'[h.task].pid = h.run
  BY <1>3, <1>4, <1>5 DEF TaskRow, Present
<1>8. SoloWorkers'
  <2>1. ASSUME NEW r \in Workers, worker[r].st = "working"
        PROVE  /\ tasks'[Mine(r)].status = "running" /\ tasks'[Mine(r)].run = r
               /\ tasks'[Mine(r)].pid = r
    <3>1. Mine(r) \in Tasks /\ tasks[Mine(r)].status = "running" /\ tasks[Mine(r)].run = r
      BY <1>1, <2>1, WorkersTask DEF Solo, SoloWorkers
    <3>2. Mine(r) # h.task => tasks[Mine(r)].pid = r
      <4> SUFFICES ASSUME Mine(r) # h.task, tasks[Mine(r)].pid # r PROVE FALSE
        OBVIOUS
      <4>1. PICK e \in Dispatchers : At(e, "setpid") /\ Now(e).run = r
        BY <2>1 DEF Solo, SoloWorkers
      <4>2. e = d
        BY <1>1, <4>1 DEF At
      <4> QED BY <1>2, <4>1, <4>2 DEF SoloJob, Mine, h
    <3> HIDE DEF Mine
    <3> QED BY <1>3, <1>6, <1>7, <2>1, <3>1, <3>2
  <2>2. \A r : Mine(r)' = Mine(r)
    BY <1>3 DEF Mine
  <2> QED BY <1>3, <2>1, <2>2 DEF SoloWorkers, Workers
<1>9. ASSUME NEW i \in 1..Len(agenda'[d])
      PROVE  SoloJob(agenda[d][i])'
  <2>1. \A k \in 1..Len(more) : FALSE
    BY <1>2 DEF NewJobs, NewJob, Successors, h
  <2>2. PICK k \in 2..Len(agenda[d]) : agenda'[d][i] = agenda[d][k]
    BY <1>1, <2>1, NewList
  <2>3. agenda'[d][i].op = "consider"
    BY <1>1, <1>2, <2>2, HeadSolo DEF Late, HeadOnly, h
  <2> QED BY <2>3 DEF SoloJob
<1> QED BY <1>1, <1>8, <1>9 DEF SoloJobs

LEMMA DispatcherSolo ==
    ASSUME Solo, [Next]_vars, NEW d \in Dispatchers, DispatcherStep(d)
    PROVE  SoloWorkers' /\ SoloJobs'
<1>1. Dispatched /\ Grown /\ TurnsKept /\ (OldTurns \/ Spawn(d))
  BY WorkersKeepTask, DispatcherTurns DEF Solo, Serial
<1>2. CASE StartTick(d)
  <2>1. /\ UNCHANGED <<tasks, runs>> /\ life[d] = "up" /\ ~At(d, "setpid")
        /\ \A e \in Dispatchers : agenda'[e] = IF e = d THEN Plan ELSE agenda[e]
        /\ \A r \in Workers : worker'[r].st = worker[r].st
    BY <1>1, <1>2, Kinds DEF StartTick, Dispatched, Agendas, At, Processes, WorkerRow
  <2>2. \A e \in Dispatchers \ {d} : agenda[e] = <<>>
    BY <1>1, <2>1 DEF Solo, Serial, OneUp, Dispatched, Processes
  <2>3. OldTurns /\ ClaimsKept
    BY <2>1, SameTasks DEF OldTurns
  <2>4. SoloWorkers'
    <3>1. \A e \in Dispatchers : At(e, "setpid") => agenda'[e] = agenda[e]
      BY <2>1
    <3> QED BY <1>1, <2>3, <3>1, WorkersStay
  <2>5. \A i \in 1..Len(Plan) : SoloJob(Plan[i])'
    BY PlanOps DEF SoloJob
  <2>6. ASSUME NEW i \in 1..Len(agenda'[d])
        PROVE  SoloJob(agenda[d][i])'
    <3>1. agenda'[d] = Plan
      BY <2>1
    <3>2. agenda'[d][i].op \in {"leases", "beats", "crashes", "runtimes", "recompute", "scan"}
      BY <3>1, PlanOps
    <3> QED BY <3>2 DEF SoloJob
  <2> QED BY <2>1, <2>2, <2>4, <2>6 DEF SoloJobs
<1>3. ASSUME NEW more, NewJobs(d, more)
      PROVE  SoloWorkers' /\ SoloJobs'
  <2>1. CASE SetPid(d)
    BY <1>1, <1>3, <2>1, SetPidSolo
  <2>2. CASE Spawn(d) /\ ~OldTurns
    BY <1>3, <2>2, SpawnSolo
  <2>3. CASE Claim(d) /\ Claimed(Now(d).task, d)
    BY <1>3, <2>3, ClaimSolo
  <2>4. CASE ~SetPid(d) /\ OldTurns /\ ~(Claim(d) /\ Claimed(Now(d).task, d))
    <3>1. ClaimsKept
      BY <2>4, DispatcherClaims DEF Solo, Serial
    <3>2. ~At(d, "setpid")
      BY <1>3, <2>4
         DEF DispatcherStep, StartTick, ListLeases, CheckLease, ReleaseLease, ListBeats, KillSilent,
             YankStale, SweepCrashes, CountFailure, ListOverdue, KillOverdue, YankOverdue, Promote,
             ListReady, Consider, ConsiderLinked, Claim, Spawn, SpawnFailed, At, Now, NewJobs
    <3> QED BY <1>1, <1>3, <2>4, <3>1, <3>2, QuietSolo
  <2> QED BY <1>1, <2>1, <2>2, <2>3, <2>4
<1> QED BY <1>1, <1>2, <1>3, DispatcherAdvances

LEMMA StepSolo ==
    ASSUME Solo, [Next]_vars, "death" \notin Mishaps, Undisturbed
    PROVE  SoloWorkers' /\ SoloJobs'
<1>1. CASE \E d \in Dispatchers : DispatcherStep(d)
  BY <1>1, DispatcherSolo
<1>2. CASE [OperatorMove \/ Tick \/ \/ \E r \in Workers : WorkerStep(r)
                                    \/ \E e \in Dispatchers : Boot(e) \/ Die(e)]_vars
  <2>1. Dispatched /\ \A d \in Dispatchers : agenda'[d] = agenda[d]
    BY <1>2, OthersLeave DEF Solo, Serial, Die
  <2>2. UNCHANGED <<tasks, worker>> => OldTurns /\ TurnOver
    BY DEF OldTurns, TurnOver
  <2>3. OldTurns /\ TurnOver
    BY <1>2, <2>1, <2>2, OperatorSolo, WorkerSolo, TickSolo DEF Boot, Die, vars
  <2>4. ~Does("pull")
    BY DEF Undisturbed, Does
  <2>5. ClaimsKept
    BY <1>2, <2>1, <2>4, WorkerClaims, OperatorClaims, TickClaims, SameTasks
       DEF Boot, Die, vars, Solo, Serial
  <2> QED BY <2>1, <2>3, <2>5, OthersSolo
<1> QED BY <1>1, <1>2 DEF Next

\* Two processes never work on one task, whoever dies or hangs among the
\* workers, as long as one dispatcher runs at a time, does not die in the middle
\* of a call, and no human takes a card away from a worker.  No part of this can
\* be left out: a dispatcher that dies before _set_worker_pid leaves a claim of
\* which no watchdog finds the process.
THEOREM WorkersAlone ==
    ASSUME Concurrent = 1, "death" \notin Mishaps, Undisturbed
    PROVE  Spec => []OneWorkerPerTask
<1>1. Init => Solo
  <2> SUFFICES ASSUME Init PROVE Solo
    OBVIOUS
  <2>1. Serial
    BY InitSerial
  <2>2. /\ \A d \in Dispatchers : agenda[d] = <<>>
        /\ \A r \in Workers : worker[r].st = "none"
    BY Kinds DEF Init, NoWorker
  <2> QED BY <2>1, <2>2 DEF Solo, SoloWorkers, SoloJobs
<1>2. Solo /\ [Next]_vars => Solo'
  <2> SUFFICES ASSUME Solo, [Next]_vars PROVE Solo'
    OBVIOUS
  <2>1. Serial'
    BY StepSerial DEF Solo, Undisturbed
  <2> QED BY <2>1, StepSolo DEF Solo
<1>3. Solo => OneWorkerPerTask
  BY DEF Solo, SoloWorkers, OneWorkerPerTask
<1> QED BY <1>1, <1>2, <1>3, PTL DEF Spec

----------------------------------------------------------------------------
(* The circuit breaker *)

Failings == {"crashed", "timed_out", "spawn_failed", "gave_up"}

\* A list has a failure of x still to count, and each at most once.
Owing(s, x) == \E i \in 1..Len(s) : s[i].op = "fail" /\ s[i].task = x
Once(s) == \A i, k \in 1..Len(s) :
               s[i].op = "fail" /\ s[k].op = "fail" /\ s[i].task = s[k].task => i = k

Owed(x) == \E d \in Dispatchers : Owing(agenda[d], x)
Most(x) == Limit(x, FailureLimit)
Failed(x) == Cardinality(FailedAttempts(x))

\* The failed attempts of a card are counted, or about to be; and the breaker has
\* tripped, or there is room for one more.
Streak(x) ==
    /\ Owed(x) => tasks[x].status = "ready" /\ tasks[x].run = 0
    /\ tasks[x].status = "done" => Failed(x) <= Most(x)
    /\ tasks[x].status # "done" =>
           /\ tasks[x].fails <= Most(x)
           /\ Failed(x) <= tasks[x].fails + (IF Owed(x) THEN 1 ELSE 0)
    /\ tasks[x].status \notin {"done", "blocked"} => tasks[x].fails < Most(x)
Streaks == \A x \in Tasks : Streak(x)

\* No task is to give up before its first attempt; where kanban.failure_limit
\* decides, it is not below the default by which crashes and timeouts are counted;
\* and the model counts as far as any limit.
Tolerant ==
    \A t \in Tasks : /\ MaxRetries[t] # 0
                     /\ MaxRetries[t] < 0 => FailureLimit >= DefaultFailureLimit
                     /\ Most(t) <= MaxFails

LEMMA Limits ==
    ASSUME Tolerant, NEW x \in Tasks
    PROVE  /\ Most(x) \in Nat /\ Most(x) >= 1 /\ Most(x) <= MaxFails /\ MaxFails \in Nat
           /\ \A n \in {1, DefaultFailureLimit, FailureLimit} :
                  Limit(x, n) \in Int /\ Limit(x, n) <= Most(x)
<1>1. /\ MaxRetries[x] \in Int /\ MaxRetries[x] # 0 /\ FailureLimit \in Nat /\ FailureLimit >= 1
      /\ MaxRetries[x] < 0 => FailureLimit >= 2
      /\ MaxFails \in Nat /\ DefaultFailureLimit = 2 /\ Most(x) <= MaxFails
  BY BoardAssumption DEF Tolerant, DefaultFailureLimit
<1>2. Limit(x, FailureLimit) <= MaxFails
  BY <1>1 DEF Most
<1> QED BY <1>1, <1>2 DEF Most, Limit

\* No attempt of x fails; at most one does.
NoNewFailure(x) == FailedAttempts(x)' \subseteq FailedAttempts(x)
OneMore(x) == \E q : FailedAttempts(x)' \subseteq FailedAttempts(x) \union {q}

LEMMA FailedCount ==
    ASSUME Len(runs) \in Nat, NEW x
    PROVE  IsFiniteSet(FailedAttempts(x)) /\ Failed(x) \in Nat
<1>1. IsFiniteSet(1..Len(runs))
  BY FS_Interval
<1>2. FailedAttempts(x) \subseteq 1..Len(runs)
  BY DEF FailedAttempts
<1> QED BY <1>1, <1>2, FS_Subset, FS_CardinalityType DEF Failed

LEMMA FailedGrows ==
    ASSUME Grown, NEW x
    PROVE  /\ Failed(x) \in Nat /\ Failed(x)' \in Nat
           /\ NoNewFailure(x) => Failed(x)' <= Failed(x)
           /\ OneMore(x) => Failed(x)' <= Failed(x) + 1
<1> DEFINE F == FailedAttempts(x)
           G == FailedAttempts(x)'
<1>1. IsFiniteSet(F) /\ Cardinality(F) \in Nat
  BY FailedCount DEF Grown, Failed
<1>2. Len(runs') \in Nat /\ IsFiniteSet(1..Len(runs')) /\ G \subseteq 1..Len(runs')
  BY FS_Interval DEF Grown, FailedAttempts
<1>3. IsFiniteSet(G) /\ Cardinality(G) \in Nat
  BY <1>2, FS_Subset, FS_CardinalityType
<1>4. Failed(x) = Cardinality(F) /\ Failed(x)' = Cardinality(G)
      /\ (NoNewFailure(x) <=> G \subseteq F) /\ (OneMore(x) <=> \E q : G \subseteq F \union {q})
  BY DEF Failed, NoNewFailure, OneMore
<1> HIDE DEF F, G
<1>5. G \subseteq F => Cardinality(G) <= Cardinality(F)
  BY <1>1, FS_Subset
<1>6. ASSUME NEW q, G \subseteq F \union {q}
      PROVE  Cardinality(G) <= Cardinality(F) + 1
  <2>1. IsFiniteSet(F \union {q}) /\ Cardinality(F \union {q}) \in {Cardinality(F), Cardinality(F) + 1}
    BY <1>1, FS_AddElement
  <2>2. Cardinality(G) <= Cardinality(F \union {q})
    BY <1>6, <2>1, FS_Subset
  <2> QED BY <1>1, <1>3, <2>1, <2>2
<1> QED BY <1>1, <1>3, <1>4, <1>5, <1>6

----------------------------------------------------------------------------
(* What a step may do to the streak of a card *)

\* Its counter stays, and its status where the counter matters.
CalmRow(x, old, new) ==
    /\ new.fails = old.fails
    /\ \/ new.status = old.status /\ new.run \in {0, old.run}
       \/ /\ ~Owed(x) /\ old.status # "done" /\ new.status # "done"
          /\ old.status = "blocked" => old.fails < Most(x)

CalmBoard == \A x \in Tasks : NoNewFailure(x) /\ CalmRow(x, tasks[x], tasks'[x])
SameDebt(x) == Owed(x)' <=> Owed(x)

LEMMA FailsAreNat ==
    ASSUME Sound, NEW x \in Tasks
    PROVE  tasks[x].fails \in Nat /\ tasks[x] \in TaskRow
  BY RowsAreRows DEF Sound, TaskRow

LEMMA StreakCalm ==
    ASSUME Sound, Grown, Tolerant, NEW x \in Tasks, Streak(x), NoNewFailure(x),
           CalmRow(x, tasks[x], tasks'[x]), SameDebt(x)
    PROVE  Streak(x)'
<1>1. /\ Failed(x) \in Nat /\ Failed(x)' \in Nat /\ Failed(x)' <= Failed(x)
      /\ tasks[x].fails \in Nat /\ Most(x) \in Nat /\ Most(x)' = Most(x)
  BY FailedGrows, FailsAreNat, Limits DEF Most, Limit
<1>2. CASE tasks'[x].status = tasks[x].status /\ tasks'[x].run \in {0, tasks[x].run}
  BY <1>1, <1>2 DEF Streak, CalmRow, SameDebt
<1>3. CASE /\ ~Owed(x) /\ tasks[x].status # "done" /\ tasks'[x].status # "done"
           /\ tasks[x].status = "blocked" => tasks[x].fails < Most(x)
  <2>1. ~Owed(x)' /\ tasks'[x].fails = tasks[x].fails
    BY <1>3 DEF SameDebt, CalmRow
  <2>2. tasks[x].fails < Most(x) /\ Failed(x) <= tasks[x].fails
    BY <1>1, <1>3 DEF Streak
  <2> QED BY <1>1, <1>3, <2>1, <2>2 DEF Streak
<1> QED BY <1>2, <1>3 DEF CalmRow

\* An attempt fails and its failure is on the list to be counted.
LEMMA StreakPosted ==
    ASSUME Sound, Grown, Tolerant, NEW x \in Tasks, Streak(x), OneMore(x), Owed(x)',
           tasks[x].status = "running", tasks'[x].status = "ready", tasks'[x].run = 0,
           tasks'[x].fails = tasks[x].fails
    PROVE  Streak(x)'
<1>1. /\ Failed(x) \in Nat /\ Failed(x)' \in Nat /\ Failed(x)' <= Failed(x) + 1
      /\ tasks[x].fails \in Nat /\ Most(x) \in Nat /\ Most(x)' = Most(x)
  BY FailedGrows, FailsAreNat, Limits DEF Most, Limit
<1>2. ~Owed(x)
  BY DEF Streak
<1>3. tasks[x].fails < Most(x) /\ Failed(x) <= tasks[x].fails
  BY <1>1, <1>2 DEF Streak
<1>4. tasks'[x].fails < Most(x) /\ tasks'[x].fails <= Most(x) /\ Failed(x)' <= tasks'[x].fails + 1
  BY <1>1, <1>3
<1> QED BY <1>1, <1>4 DEF Streak

\* It is counted, or fails and is counted at once.
LEMMA StreakCounted ==
    ASSUME Sound, Grown, Tolerant, NEW x \in Tasks, Streak(x), ~Owed(x)',
           tasks[x].status \in {"ready", "running"}, tasks'[x].fails = tasks[x].fails + 1,
           \/ tasks'[x].status = "blocked"
           \/ tasks'[x].status \in {"ready", "running"} /\ tasks[x].fails + 1 < Most(x),
           NoNewFailure(x) \/ (OneMore(x) /\ tasks[x].status = "running")
    PROVE  Streak(x)'
<1>1. /\ Failed(x) \in Nat /\ Failed(x)' \in Nat
      /\ NoNewFailure(x) => Failed(x)' <= Failed(x)
      /\ OneMore(x) => Failed(x)' <= Failed(x) + 1
      /\ tasks[x].fails \in Nat /\ Most(x) \in Nat /\ Most(x)' = Most(x)
  BY FailedGrows, FailsAreNat, Limits DEF Most, Limit
<1>2. /\ tasks[x].fails < Most(x)
      /\ Failed(x) <= tasks[x].fails + (IF Owed(x) THEN 1 ELSE 0)
      /\ Owed(x) => tasks[x].status # "running"
  BY DEF Streak
<1>3. Failed(x)' <= tasks[x].fails + 1
  BY <1>1, <1>2
<1> QED BY <1>1, <1>2, <1>3 DEF Streak

\* It is finished; or was, and the counter is cleared.
LEMMA StreakDone ==
    ASSUME Sound, Grown, Tolerant, NEW x \in Tasks, Streak(x), NoNewFailure(x),
           ~Owed(x), ~Owed(x)', tasks'[x].status = "done"
    PROVE  Streak(x)'
<1>1. /\ Failed(x) \in Nat /\ Failed(x)' \in Nat /\ Failed(x)' <= Failed(x)
      /\ tasks[x].fails \in Nat /\ Most(x) \in Nat /\ Most(x)' = Most(x)
  BY FailedGrows, FailsAreNat, Limits DEF Most, Limit
<1>2. Failed(x) <= Most(x)
  BY <1>1 DEF Streak
<1> QED BY <1>1, <1>2 DEF Streak

----------------------------------------------------------------------------
(* Which attempts fail in a step *)

LEMMA EndedRuns ==
    ASSUME Sound, NEW t \in Tasks, NEW o \in Outcomes \ {"open"}
    PROVE  LET list == RunEnded(tasks[t].run, o)
           IN /\ list \in Seq(RunRow) /\ Len(list) = Len(runs)
              /\ \A q \in 1..Len(runs) :
                     /\ list[q].task = runs[q].task
                     /\ list[q].outcome = IF q = tasks[t].run /\ Open(q) THEN o
                                          ELSE runs[q].outcome
<1> DEFINE r == tasks[t].run
           list == RunEnded(r, o)
<1>1. r # 0 => r \in 1..Len(runs)
  BY DEF Sound, RunPointers, RunBelongsToTask
<1>2. /\ Len(list) = Len(runs)
      /\ \A q \in 1..Len(runs) :
            list[q].outcome = IF q = r /\ Open(q) THEN o ELSE runs[q].outcome
  BY EndedOutcome
<1>3. TypeOK
  BY DEF Sound
<1> HIDE DEF r
<1>4. list \in Seq(RunRow) /\ \A q \in 1..Len(runs) : list[q].task = runs[q].task
  BY <1>1, <1>3, RunEndedSeq
<1> QED BY <1>2, <1>4 DEF r

LEMMA EndedFailures ==
    ASSUME Sound, NEW t \in Tasks, NEW o \in Outcomes \ {"open"},
           runs' = RunEnded(tasks[t].run, o)
    PROVE  \A x \in Tasks : OneMore(x) /\ (x # t \/ o \notin Failings => NoNewFailure(x))
<1>1. tasks[t].run # 0 => tasks[t].run \in 1..Len(runs) /\ runs[tasks[t].run].task = t
  BY DEF Sound, RunPointers, RunBelongsToTask
<1>2. /\ Len(runs') = Len(runs)
      /\ \A q \in 1..Len(runs) :
            /\ runs'[q].task = runs[q].task
            /\ runs'[q].outcome = IF q = tasks[t].run /\ Open(q) THEN o ELSE runs[q].outcome
  BY <1>1, EndedRuns
<1>3. ASSUME NEW x \in Tasks, NEW r \in FailedAttempts(x)'
      PROVE  r \in FailedAttempts(x) \/ (r = tasks[t].run /\ x = t /\ o \in Failings)
  <2>1. r \in 1..Len(runs) /\ runs[r].task = x /\ runs'[r].outcome \in Failings
    BY <1>2 DEF FailedAttempts, Failings
  <2>2. CASE r = tasks[t].run /\ Open(r)
    BY <1>1, <1>2, <2>1, <2>2
  <2>3. CASE ~(r = tasks[t].run /\ Open(r))
    BY <1>2, <2>1, <2>3 DEF FailedAttempts, Failings
  <2> QED BY <2>2, <2>3
<1> QED BY <1>3 DEF OneMore, NoNewFailure

LEMMA SameRuns ==
    ASSUME UNCHANGED runs
    PROVE  \A x \in Tasks : NoNewFailure(x)
  BY DEF NoNewFailure, FailedAttempts

\* A run is added that has not failed.
LEMMA AddedFailures ==
    ASSUME Sound, NEW t \in Tasks, NEW o \in Outcomes \ {"open"}, o \notin Failings, NEW new,
           new.outcome \notin Failings,
           \E list \in {runs, RunEnded(tasks[t].run, o)} : runs' = Append(list, new)
    PROVE  \A x \in Tasks : NoNewFailure(x)
<1>1. tasks[t].run # 0 => tasks[t].run \in 1..Len(runs)
  BY DEF Sound, RunPointers, RunBelongsToTask
<1>2. PICK list \in {runs, RunEnded(tasks[t].run, o)} : runs' = Append(list, new)
  OBVIOUS
<1>3. /\ list \in Seq(RunRow) /\ Len(list) = Len(runs)
      /\ \A q \in 1..Len(runs) :
            /\ list[q].task = runs[q].task
            /\ list[q].outcome \in Failings => runs[q].outcome \in Failings
  <2>1. CASE list = runs
    BY <2>1 DEF Sound, TypeOK
  <2>2. CASE list = RunEnded(tasks[t].run, o)
    BY <1>1, <2>2, EndedRuns
  <2> QED BY <2>1, <2>2
<1>4. /\ Len(runs') = Len(runs) + 1 /\ Len(runs) \in Nat
      /\ \A q \in 1..Len(runs) : runs'[q] = list[q]
      /\ runs'[Len(runs) + 1] = new
  BY <1>2, <1>3
<1>5. ASSUME NEW x \in Tasks, NEW r \in FailedAttempts(x)'
      PROVE  r \in FailedAttempts(x)
  <2>1. r \in 1..(Len(runs) + 1) /\ runs'[r].task = x /\ runs'[r].outcome \in Failings
    BY <1>4 DEF FailedAttempts, Failings
  <2>2. r # Len(runs) + 1
    BY <1>4, <2>1
  <2>3. r \in 1..Len(runs)
    BY <1>4, <2>1, <2>2
  <2> QED BY <1>3, <1>4, <2>1, <2>3 DEF FailedAttempts, Failings
<1> QED BY <1>5 DEF NoNewFailure

LEMMA ClaimFailures ==
    ASSUME Sound, NEW t \in Tasks, NEW l, ClaimTask(t, l)
    PROVE  \A x \in Tasks : NoNewFailure(x)
<1>1. "reclaimed" \in Outcomes \ {"open"} /\ "reclaimed" \notin Failings
  BY DEF Outcomes, Failings
<1>2. CASE ClaimRejected(t)
  BY <1>2, SameRuns DEF ClaimRejected
<1>3. CASE ClaimLost(t)
  BY <1>1, <1>3, EndedFailures DEF ClaimLost
<1>4. CASE Claimed(t, l)
  <2> DEFINE new == [task |-> t, outcome |-> "open", age |-> "young"]
  <2>1. new.outcome \notin Failings
    BY DEF Failings
  <2>2. runs' = Append(RunEnded(tasks[t].run, "reclaimed"), new)
    BY <1>4 DEF Claimed
  <2> HIDE DEF new
  <2> QED BY <1>1, <2>1, <2>2, AddedFailures
<1> QED BY <1>2, <1>3, <1>4 DEF ClaimTask

LEMMA FinishFailures ==
    ASSUME Sound, NEW t \in Tasks, NEW r, NEW from, NEW s, NEW o \in {"completed", "blocked"},
           NEW handoff, Finish(t, r, from, s, o, handoff)
    PROVE  \A x \in Tasks : NoNewFailure(x)
<1>1. o \in Outcomes \ {"open"} /\ o \notin Failings
  BY DEF Outcomes, Failings
<1>2. CASE runs' = RunEnded(tasks[t].run, o)
  BY <1>1, <1>2, EndedFailures
<1>3. CASE runs' = Append(runs, [task |-> t, outcome |-> o, age |-> RunAge(o)])
  <2> DEFINE new == [task |-> t, outcome |-> o, age |-> RunAge(o)]
  <2>1. new.outcome \notin Failings /\ runs' = Append(runs, new)
    BY <1>1, <1>3
  <2> HIDE DEF new
  <2> QED BY <1>1, <2>1, AddedFailures
<1> QED BY <1>2, <1>3 DEF Finish, RunEndedOrSynthesized

LEMMA SweepFailures ==
    ASSUME Sound, NEW dead, NEW throttled, DetectCrashed(dead, throttled)
    PROVE  \A x \in Tasks : OneMore(x) /\ (x \notin dead \ throttled => NoNewFailure(x))
<1> DEFINE after(r) == IF Open(r) /\ \E t \in dead : tasks[t].run = r
                       THEN Ended(r, IF runs[r].task \in throttled THEN "rate_limited" ELSE "crashed")
                       ELSE runs[r]
<1>1. runs' = [r \in 1..Len(runs) |-> after(r)] /\ dead \subseteq Tasks /\ Len(runs) \in Nat
  BY DEF DetectCrashed, CrashCandidates, Sound, TypeOK
<1>2. \A r : /\ after(r).task = runs[r].task
             /\ after(r).outcome = IF Open(r) /\ \E t \in dead : tasks[t].run = r
                                   THEN IF runs[r].task \in throttled THEN "rate_limited" ELSE "crashed"
                                   ELSE runs[r].outcome
  BY DEF Ended
<1> HIDE DEF after
<1>3. Len(runs') = Len(runs) /\ \A r \in 1..Len(runs) : runs'[r] = after(r)
  BY <1>1
<1>4. ASSUME NEW x \in Tasks, NEW r \in FailedAttempts(x)'
      PROVE  r \in FailedAttempts(x) \/ (r = tasks[x].run /\ x \in dead \ throttled)
  <2>1. r \in 1..Len(runs) /\ after(r).task = x /\ after(r).outcome \in Failings
    BY <1>3 DEF FailedAttempts, Failings
  <2>2. CASE Open(r) /\ \E t \in dead : tasks[t].run = r
    <3>1. PICK t \in dead : tasks[t].run = r
      BY <2>2
    <3>2. r # 0 /\ t \in Tasks
      BY <1>1, <2>1
    <3>3. runs[r].task = t
      BY <3>1, <3>2 DEF Sound, RunPointers, RunBelongsToTask
    <3>4. x = t /\ t \notin throttled
      BY <1>2, <2>1, <2>2, <3>3 DEF Failings
    <3> QED BY <3>1, <3>4
  <2>3. CASE ~(Open(r) /\ \E t \in dead : tasks[t].run = r)
    BY <1>2, <2>1, <2>3 DEF FailedAttempts, Failings
  <2> QED BY <2>2, <2>3
<1> QED BY <1>4 DEF OneMore, NoNewFailure

LEMMA AgeFailures ==
    ASSUME Sound, NEW r \in 1..Len(runs), RunAges(r)
    PROVE  \A x \in Tasks : NoNewFailure(x)
<1>1. runs \in Seq(RunRow)
  BY DEF Sound, TypeOK
<1>2. Len(runs') = Len(runs) /\ \A q \in 1..Len(runs) : runs'[q].task = runs[q].task
                                                       /\ runs'[q].outcome = runs[q].outcome
  BY <1>1 DEF RunAges
<1> QED BY <1>2 DEF NoNewFailure, FailedAttempts

----------------------------------------------------------------------------
(* What the transactions do to the rows *)

LEMMA PutRow ==
    ASSUME Sound, NEW t \in Tasks, NEW row, Put(t, row)
    PROVE  tasks'[t] = row /\ \A x \in Tasks : x # t => tasks'[x] = tasks[x]
  BY DEF Put, Sound, TypeOK

LEMMA PutCalm ==
    ASSUME Sound, NEW t \in Tasks, NEW row, Put(t, row), CalmRow(t, tasks[t], row),
           \A x \in Tasks : NoNewFailure(x)
    PROVE  CalmBoard
<1>1. tasks'[t] = row /\ \A x \in Tasks : x # t => tasks'[x] = tasks[x]
  BY PutRow
<1>2. \A x \in Tasks : x # t => CalmRow(x, tasks[x], tasks'[x])
  BY <1>1 DEF CalmRow
<1> QED BY <1>1, <1>2 DEF CalmBoard

LEMMA NothingCalm ==
    ASSUME UNCHANGED <<tasks, runs>>
    PROVE  CalmBoard
  BY SameRuns DEF CalmBoard, CalmRow

LEMMA CosmeticCalm ==
    ASSUME Sound, NEW t \in Tasks,
           \/ \E l : ExtendClaim(t, l) \/ HeartbeatClaim(t, l)
           \/ \E r : HeartbeatWorker(t, r) \/ SetWorkerPid(t, r)
           \/ LeaseLapses(t) \/ HeartbeatAges(t) \/ GraceEnds(t)
    PROVE  CalmBoard
<1>1. tasks[t] \in TaskRow
  BY RowsAreRows DEF Sound
<1>2. PICK row : /\ Put(t, row) /\ UNCHANGED runs
                 /\ \/ row \in {[tasks[t] EXCEPT !.expired = FALSE], [tasks[t] EXCEPT !.expired = TRUE],
                                [tasks[t] EXCEPT !.hb = "fresh"], [tasks[t] EXCEPT !.hb = "old"],
                                [tasks[t] EXCEPT !.started = "past"]}
                    \/ \E r : row = [tasks[t] EXCEPT !.pid = r]
  BY DEF ExtendClaim, HeartbeatClaim, HeartbeatWorker, SetWorkerPid, LeaseLapses,
         HeartbeatAges, GraceEnds
<1>3. row.fails = tasks[t].fails /\ row.status = tasks[t].status /\ row.run = tasks[t].run
  BY <1>1, <1>2 DEF TaskRow
<1> QED BY <1>2, <1>3, SameRuns, PutCalm DEF CalmRow

LEMMA RecomputeCalm ==
    ASSUME Sound, Tolerant, Streaks, NEW n \in {DefaultFailureLimit, FailureLimit}, RecomputeReady(n)
    PROVE  CalmBoard
<1>1. ASSUME NEW x \in Tasks
      PROVE  CalmRow(x, tasks[x], tasks'[x])
  <2>1. tasks[x] \in TaskRow /\ tasks[x].fails \in Nat
    BY FailsAreNat
  <2>2. CASE x \notin Promotable(n)
    <3>1. tasks'[x] = tasks[x]
      BY <2>2 DEF RecomputeReady
    <3> QED BY <3>1 DEF CalmRow
  <2>3. CASE x \in Promotable(n)
    <3>1. tasks'[x] = [tasks[x] EXCEPT !.status = "ready"]
      BY <2>3 DEF RecomputeReady
    <3>2. tasks'[x].fails = tasks[x].fails /\ tasks'[x].status = "ready"
      BY <2>1, <3>1 DEF TaskRow
    <3>3. tasks[x].status \in {"todo", "blocked"}
          /\ (tasks[x].status = "blocked" => tasks[x].fails < Limit(x, n))
      BY <2>3 DEF Promotable
    <3>4. ~Owed(x)
      BY <3>3 DEF Streaks, Streak
    <3>5. Limit(x, n) \in Int /\ Limit(x, n) <= Most(x) /\ Most(x) \in Nat
      BY Limits
    <3>6. tasks[x].status = "blocked" => tasks[x].fails < Most(x)
      BY <2>1, <3>3, <3>5
    <3> QED BY <3>2, <3>3, <3>4, <3>6 DEF CalmRow
  <2> QED BY <2>2, <2>3
<1> QED BY <1>1, SameRuns DEF CalmBoard, RecomputeReady

LEMMA YankCalm ==
    ASSUME Sound, Streaks, NEW t \in Tasks,
           YankRunning(t, "stale") \/ \E l : ReleaseStaleClaim(t, l)
    PROVE  CalmBoard
<1>1. tasks[t] \in TaskRow
  BY RowsAreRows DEF Sound
<1>2. PICK row : \E o \in {"stale", "reclaimed"} :
          /\ Put(t, row) /\ runs' = RunEnded(tasks[t].run, o) /\ tasks[t].status = "running"
          /\ row \in {BackToReady(tasks[t]), [BackToReady(tasks[t]) EXCEPT !.hb = "none"]}
  <2>1. CASE YankRunning(t, "stale")
    BY <2>1 DEF YankRunning
  <2>2. CASE \E l : ReleaseStaleClaim(t, l)
    BY <2>2 DEF ReleaseStaleClaim, LeaseExpired
  <2> QED BY <2>1, <2>2
<1>3. row.fails = tasks[t].fails /\ row.status = "ready"
  BY <1>1, <1>2 DEF TaskRow, BackToReady, Released
<1>4. ~Owed(t)
  BY <1>2 DEF Streaks, Streak
<1>5. \A o \in {"stale", "reclaimed"} : o \in Outcomes \ {"open"} /\ o \notin Failings
  BY DEF Outcomes, Failings
<1>6. \A x \in Tasks : NoNewFailure(x)
  BY <1>2, <1>5, EndedFailures
<1>7. CalmRow(t, tasks[t], row)
  BY <1>2, <1>3, <1>4 DEF CalmRow
<1> QED BY <1>2, <1>6, <1>7, PutCalm

LEMMA ClaimCalm ==
    ASSUME Sound, NEW t \in Tasks, NEW l, ClaimTask(t, l), ~Owed(t)
    PROVE  CalmBoard
<1>1. tasks[t] \in TaskRow
  BY RowsAreRows DEF Sound
<1>2. \A x \in Tasks : NoNewFailure(x)
  BY ClaimFailures
<1>3. CASE ClaimLost(t)
  BY <1>2, <1>3 DEF ClaimLost, CalmBoard, CalmRow
<1>4. CASE ClaimRejected(t)
  <2>1. [tasks[t] EXCEPT !.status = "todo"].fails = tasks[t].fails
    BY <1>1 DEF TaskRow
  <2>2. CalmRow(t, tasks[t], [tasks[t] EXCEPT !.status = "todo"])
    BY <1>1, <1>4, <2>1 DEF TaskRow, CalmRow, ClaimRejected
  <2> QED BY <1>2, <1>4, <2>2, PutCalm DEF ClaimRejected
<1>5. CASE Claimed(t, l)
  <2> DEFINE row == [tasks[t] EXCEPT
                       !.status = "running", !.lock = l, !.expired = FALSE,
                       !.started = IF @ = "never" THEN "grace" ELSE @,
                       !.run = Len(runs) + 1]
  <2>1. row.fails = tasks[t].fails /\ row.status = "running"
    BY <1>1 DEF TaskRow
  <2>2. Put(t, row) /\ tasks[t].status = "ready"
    BY <1>5 DEF Claimed, Claimable
  <2> HIDE DEF row
  <2>3. CalmRow(t, tasks[t], row)
    BY <2>1, <2>2 DEF CalmRow
  <2> QED BY <1>2, <2>2, <2>3, PutCalm
<1> QED BY <1>3, <1>4, <1>5 DEF ClaimTask

\* A turn ends: the card is blocked, or done.
LEMMA FinishRow ==
    ASSUME Sound, NEW t \in Tasks, NEW r, NEW from, NEW s, NEW o, NEW handoff,
           Finish(t, r, from, s, o, handoff)
    PROVE  /\ tasks'[t].status = s /\ tasks'[t].fails = tasks[t].fails
           /\ \A x \in Tasks : x # t => tasks'[x] = tasks[x]
           /\ tasks[t].status \in from /\ Expected(t, r)
<1> DEFINE row == [Released(tasks[t]) EXCEPT
                     !.status = s, !.run = 0, !.sticky = @ \/ s = "blocked"]
<1>1. tasks[t] \in TaskRow
  BY RowsAreRows DEF Sound
<1>2. row.status = s /\ row.fails = tasks[t].fails
  BY <1>1 DEF TaskRow, Released
<1>3. Put(t, row) /\ tasks[t].status \in from /\ Expected(t, r)
  BY DEF Finish
<1> HIDE DEF row
<1> QED BY <1>2, <1>3, PutRow

\* A failure is counted: the card is given up, or has attempts left.
LEMMA FailureRow ==
    ASSUME Sound, Tolerant, NEW t \in Tasks, Streak(t),
           NEW n \in {1, DefaultFailureLimit, FailureLimit}, NEW held \in BOOLEAN,
           NEW why, NEW o, RecordFailure(t, n, held, why, o),
           tasks[t].status \in {"ready", "running"}, held => tasks[t].status = "running"
    PROVE  /\ tasks'[t].fails = tasks[t].fails + 1
           /\ \/ tasks'[t].status = "blocked"
              \/ tasks'[t].status \in {"ready", "running"} /\ tasks[t].fails + 1 < Most(t)
           /\ \A x \in Tasks : x # t => tasks'[x] = tasks[x]
<1> DEFINE trips == Trips(t, n)
           status == IF trips THEN "blocked" ELSE IF held THEN "ready" ELSE tasks[t].status
           kept == IF held THEN Released(tasks[t]) ELSE tasks[t]
           counted == [kept EXCEPT !.status = status, !.fails = @ + 1, !.err = why]
           row == [counted EXCEPT !.run = IF held THEN 0 ELSE @]
<1>1. tasks[t] \in TaskRow /\ tasks[t].fails \in Nat
  BY FailsAreNat
<1>2. Matches(t, n, held)
  BY DEF Matches
<1>3. Put(t, row)
  BY <1>2 DEF RecordFailure
<1>4. kept \in TaskRow /\ kept.fails = tasks[t].fails
  BY <1>1, RowsAreRows DEF Sound, TaskRow, Released
<1>5. row.status = status /\ row.fails = tasks[t].fails + 1
  <2> HIDE DEF kept, status
  <2>1. counted.status = status /\ counted.fails = kept.fails + 1
    BY <1>4 DEF TaskRow
  <2>2. row.status = counted.status /\ row.fails = counted.fails
    BY <1>4 DEF TaskRow
  <2> QED BY <1>4, <2>1, <2>2
<1> HIDE DEF row
<1>6. ~trips => tasks[t].fails + 1 < Most(t)
  BY <1>1, Limits DEF Trips
<1>7. tasks'[t] = row /\ \A x \in Tasks : x # t => tasks'[x] = tasks[x]
  BY <1>3, PutRow
<1> QED BY <1>5, <1>6, <1>7

----------------------------------------------------------------------------
(* Lists of failures to count *)

LEMMA OwingJoined ==
    ASSUME NEW S, NEW a \in Seq(S), NEW b \in Seq(S), NEW x
    PROVE  Owing(a \o b, x) <=> Owing(a, x) \/ Owing(b, x)
<1>1. /\ Len(a \o b) = Len(a) + Len(b) /\ Len(a) \in Nat /\ Len(b) \in Nat
      /\ \A i \in 1..Len(a) + Len(b) :
            (a \o b)[i] = IF i <= Len(a) THEN a[i] ELSE b[i - Len(a)]
  BY ConcatProperties, LenProperties
<1> DEFINE c == a \o b
<1>2. Len(c) = Len(a) + Len(b)
      /\ \A i \in 1..Len(a) + Len(b) : c[i] = IF i <= Len(a) THEN a[i] ELSE b[i - Len(a)]
  BY <1>1
<1> HIDE DEF c
<1>3. ASSUME Owing(c, x)
      PROVE  Owing(a, x) \/ Owing(b, x)
  <2>1. PICK i \in 1..Len(c) : c[i].op = "fail" /\ c[i].task = x
    BY <1>3 DEF Owing
  <2>2. CASE i <= Len(a)
    BY <1>1, <1>2, <2>1, <2>2 DEF Owing
  <2>3. CASE i > Len(a)
    <3>1. i - Len(a) \in 1..Len(b) /\ c[i] = b[i - Len(a)]
      BY <1>1, <1>2, <2>3
    <3> QED BY <2>1, <3>1 DEF Owing
  <2> QED BY <1>1, <2>2, <2>3
<1>4. ASSUME Owing(a, x)
      PROVE  Owing(c, x)
  <2>1. PICK i \in 1..Len(a) : a[i].op = "fail" /\ a[i].task = x
    BY <1>4 DEF Owing
  <2>2. i \in 1..Len(c) /\ c[i] = a[i]
    BY <1>1, <1>2
  <2> QED BY <2>1, <2>2 DEF Owing
<1>5. ASSUME Owing(b, x)
      PROVE  Owing(c, x)
  <2>1. PICK i \in 1..Len(b) : b[i].op = "fail" /\ b[i].task = x
    BY <1>5 DEF Owing
  <2>2. i + Len(a) \in 1..Len(c) /\ c[i + Len(a)] = b[i]
    BY <1>1, <1>2
  <2> QED BY <2>1, <2>2 DEF Owing
<1> QED BY <1>3, <1>4, <1>5 DEF c

LEMMA OnceJoined ==
    ASSUME NEW S, NEW a \in Seq(S), NEW b \in Seq(S), Once(a), Once(b),
           \A x : Owing(a, x) => ~Owing(b, x)
    PROVE  Once(a \o b)
<1> DEFINE c == a \o b
<1>1. /\ Len(c) = Len(a) + Len(b) /\ Len(a) \in Nat /\ Len(b) \in Nat
      /\ \A i \in 1..Len(a) + Len(b) : c[i] = IF i <= Len(a) THEN a[i] ELSE b[i - Len(a)]
  BY ConcatProperties, LenProperties
<1> HIDE DEF c
<1>2. ASSUME NEW i \in 1..Len(c)
      PROVE  \/ i \in 1..Len(a) /\ c[i] = a[i]
             \/ i > Len(a) /\ i - Len(a) \in 1..Len(b) /\ c[i] = b[i - Len(a)]
  BY <1>1
<1>3. ASSUME NEW i \in 1..Len(c), NEW k \in 1..Len(c), c[i].op = "fail", c[k].op = "fail",
             c[i].task = c[k].task
      PROVE  i = k
  <2>1. CASE i \in 1..Len(a) /\ c[i] = a[i] /\ k \in 1..Len(a) /\ c[k] = a[k]
    BY <1>3, <2>1 DEF Once
  <2>2. CASE /\ i > Len(a) /\ i - Len(a) \in 1..Len(b) /\ c[i] = b[i - Len(a)]
             /\ k > Len(a) /\ k - Len(a) \in 1..Len(b) /\ c[k] = b[k - Len(a)]
    <3>1. i - Len(a) = k - Len(a)
      BY <1>3, <2>2 DEF Once
    <3> QED BY <1>1, <2>2, <3>1
  <2>3. CASE /\ i \in 1..Len(a) /\ c[i] = a[i]
             /\ k > Len(a) /\ k - Len(a) \in 1..Len(b) /\ c[k] = b[k - Len(a)]
    BY <1>3, <2>3 DEF Owing
  <2>4. CASE /\ k \in 1..Len(a) /\ c[k] = a[k]
             /\ i > Len(a) /\ i - Len(a) \in 1..Len(b) /\ c[i] = b[i - Len(a)]
    BY <1>3, <2>4 DEF Owing
  <2> QED BY <1>2, <2>1, <2>2, <2>3, <2>4
<1>4. Once(c)
  BY <1>3 DEF Once
<1> QED BY <1>4 DEF c

LEMMA OwingTail ==
    ASSUME NEW S, NEW list \in Seq(S), list # <<>>
    PROVE  /\ \A x : Owing(list, x) <=> (Head(list).op = "fail" /\ Head(list).task = x)
                                           \/ Owing(Tail(list), x)
           /\ Once(list) => /\ Once(Tail(list))
                            /\ Head(list).op = "fail" => ~Owing(Tail(list), Head(list).task)
<1> DEFINE rest == Tail(list)
           first == Head(list)
<1>1. /\ Len(list) \in Nat /\ Len(list) >= 1 /\ Len(rest) = Len(list) - 1
      /\ first = list[1] /\ \A i \in 1..Len(rest) : rest[i] = list[i + 1]
  BY HeadTailProperties, LenProperties, EmptySeq
<1> HIDE DEF rest, first
<1>2. \A i \in 1..Len(list) : i = 1 \/ (i - 1 \in 1..Len(rest) /\ list[i] = rest[i - 1])
  BY <1>1
<1>3. \A i \in 1..Len(rest) : i + 1 \in 1..Len(list) /\ i + 1 # 1
  BY <1>1
<1>4. 1 \in 1..Len(list)
  BY <1>1
<1>5. ASSUME NEW x
      PROVE  Owing(list, x) <=> (first.op = "fail" /\ first.task = x) \/ Owing(rest, x)
  BY <1>1, <1>2, <1>3, <1>4 DEF Owing
<1>6. ASSUME Once(list)
      PROVE  Once(rest) /\ (first.op = "fail" => ~Owing(rest, first.task))
  <2>1. ASSUME NEW i \in 1..Len(rest), NEW k \in 1..Len(rest), rest[i].op = "fail",
               rest[k].op = "fail", rest[i].task = rest[k].task
        PROVE  i = k
    <3>1. i + 1 = k + 1
      BY <1>1, <1>3, <1>6, <2>1 DEF Once
    <3> QED BY <3>1
  <2>2. ASSUME first.op = "fail", NEW i \in 1..Len(rest), rest[i].op = "fail",
               rest[i].task = first.task
        PROVE  FALSE
    <3>1. i + 1 = 1
      BY <1>1, <1>3, <1>4, <1>6, <2>2 DEF Once
    <3> QED BY <1>3, <3>1
  <2> QED BY <2>1, <2>2 DEF Once, Owing
<1> QED BY <1>5, <1>6 DEF rest, first

\* What a step of the only dispatcher does to its debts.
LEMMA Debts ==
    ASSUME Dispatched, Grown, OneUp, NEW d \in Dispatchers, agenda[d] # <<>>, Once(agenda[d]),
           NEW more \in Seq(DispatcherJob(Len(runs'))), Advances(d, more), Once(more),
           \A x : Owing(more, x) => ~Owed(x)
    PROVE  /\ \A e \in Dispatchers : Once(agenda'[e])
           /\ \A x : Owing(more, x) => Owed(x)'
           /\ \A x : ~Owing(more, x) /\ ~(Now(d).op = "fail" /\ Now(d).task = x) => SameDebt(x)
           /\ \A x : Now(d).op = "fail" /\ Now(d).task = x /\ ~Owing(more, x)
                     => Owed(x) /\ ~Owed(x)'
<1> DEFINE S == DispatcherJob(Len(runs'))
           rest == Tail(agenda[d])
           h == Now(d)
<1>1. agenda[d] \in Seq(S) /\ more \in Seq(S) /\ h = Head(agenda[d])
  BY Kinds, AgendasGrow DEF Dispatched, Grown, Now
<1>2. \A e \in Dispatchers \ {d} : agenda[e] = <<>> /\ agenda'[e] = <<>>
  BY OthersIdle, Kinds DEF Advances
<1>3. agenda'[d] = more \o rest
  BY DEF Advances
<1> HIDE DEF S
<1>4. rest \in Seq(S)
  BY <1>1, HeadTailProperties
<1>5. /\ \A x : Owing(agenda[d], x) <=> (h.op = "fail" /\ h.task = x) \/ Owing(rest, x)
      /\ Once(rest) /\ (h.op = "fail" => ~Owing(rest, h.task))
  BY <1>1, OwingTail
<1>6. \A x : Owing(more \o rest, x) <=> Owing(more, x) \/ Owing(rest, x)
  BY <1>1, <1>4, OwingJoined
<1> HIDE DEF rest, h
<1>7. \A x : ~Owing(<<>>, x)
  BY DEF Owing
<1>8. \A x : /\ Owed(x) <=> (h.op = "fail" /\ h.task = x) \/ Owing(rest, x)
             /\ Owed(x)' <=> Owing(more, x) \/ Owing(rest, x)
  <2>1. \A x : Owed(x) <=> Owing(agenda[d], x)
    BY <1>2, <1>7 DEF Owed
  <2>2. \A x : Owed(x)' <=> Owing(agenda'[d], x)
    BY <1>2, <1>7 DEF Owed, Owing
  <2> QED BY <1>3, <1>5, <1>6, <2>1, <2>2
<1>9. Once(more \o rest)
  BY <1>1, <1>4, <1>5, <1>8, OnceJoined
<1>10. Once(<<>>)
  BY DEF Once
<1>11. \A e \in Dispatchers : Once(agenda'[e])
  BY <1>2, <1>3, <1>9, <1>10
<1>12. \A x : ~Owing(more, x) /\ ~(h.op = "fail" /\ h.task = x) => SameDebt(x)
  BY <1>8 DEF SameDebt
<1>13. \A x : h.op = "fail" /\ h.task = x /\ ~Owing(more, x) => Owed(x) /\ ~Owed(x)'
  BY <1>5, <1>8
<1> QED BY <1>8, <1>11, <1>12, <1>13 DEF h

----------------------------------------------------------------------------
(* Every step keeps the streaks *)

\* A start that failed is still this attempt's: the card runs, and the run has
\* no process.
Starts ==
    \A d \in Dispatchers : \A i \in 1..Len(agenda[d]) : agenda[d][i].op = "spawnfail" =>
        /\ tasks[agenda[d][i].task].status = "running"
        /\ \A q \in Workers : tasks[agenda[d][i].task].run = q => worker[q].st = "none"

\* A worker clears the counter of a card that it has completed.
Ends ==
    \A r \in Workers : \A i \in 1..Len(agenda[r]) :
        agenda[r][i].op = "clear" => tasks[agenda[r][i].task].status = "done"

Breaker ==
    /\ Solo /\ Streaks /\ Starts /\ Ends
    /\ \A d \in Dispatchers : Once(agenda[d])
    /\ agenda[Operator] = <<>>

LEMMA CalmStreaks ==
    ASSUME Sound, Grown, Tolerant, Streaks, CalmBoard, \A x \in Tasks : SameDebt(x)
    PROVE  Streaks'
  BY StreakCalm DEF Streaks, CalmBoard

\* One card is dealt with, the others are left alone.
LEMMA OneStreak ==
    ASSUME Sound, Grown, Tolerant, Streaks, NEW t \in Tasks, Streak(t)',
           \A x \in Tasks \ {t} : tasks'[x] = tasks[x] /\ NoNewFailure(x) /\ SameDebt(x)
    PROVE  Streaks'
<1>1. ASSUME NEW x \in Tasks \ {t}
      PROVE  Streak(x)'
  <2>1. CalmRow(x, tasks[x], tasks'[x])
    BY DEF CalmRow
  <2> QED BY <2>1, StreakCalm DEF Streaks
<1> QED BY <1>1 DEF Streaks

LEMMA ListsKept ==
    ASSUME \A d \in Dispatchers : agenda'[d] = agenda[d]
    PROVE  \A x : SameDebt(x)
  BY DEF SameDebt, Owed, Owing

\* RecordFailure on a card that is tried or was tried, counted in full.
LEMMA FailureStreak ==
    ASSUME Sound, Grown, Tolerant, Streaks, NEW t \in Tasks,
           NEW n \in {1, DefaultFailureLimit, FailureLimit}, NEW held \in BOOLEAN,
           NEW why, NEW o \in {"crashed", "timed_out", "spawn_failed"},
           RecordFailure(t, n, held, why, o),
           tasks[t].status = (IF held THEN "running" ELSE "ready"),
           ~Owed(t)', \A x \in Tasks \ {t} : SameDebt(x)
    PROVE  Streaks'
<1>1. /\ tasks'[t].fails = tasks[t].fails + 1
      /\ \/ tasks'[t].status = "blocked"
         \/ tasks'[t].status \in {"ready", "running"} /\ tasks[t].fails + 1 < Most(t)
      /\ \A x \in Tasks : x # t => tasks'[x] = tasks[x]
  BY FailureRow DEF Streaks
<1>2. IF held THEN \A x \in Tasks : OneMore(x) /\ (x # t => NoNewFailure(x))
      ELSE \A x \in Tasks : NoNewFailure(x)
  <2>1. CASE held
    <3>1. PICK e \in {"gave_up", o} : runs' = RunEnded(tasks[t].run, e)
      BY <2>1 DEF RecordFailure
    <3>2. e \in Outcomes \ {"open"}
      BY DEF Outcomes
    <3>3. \A x \in Tasks : OneMore(x) /\ (x # t \/ e \notin Failings => NoNewFailure(x))
      BY <3>1, <3>2, EndedFailures
    <3> QED BY <2>1, <3>3
  <2>2. CASE ~held
    BY <2>2, SameRuns DEF RecordFailure
  <2> QED BY <2>1, <2>2
<1>3. NoNewFailure(t) \/ (OneMore(t) /\ tasks[t].status = "running")
  BY <1>2
<1>4. Streak(t) /\ tasks[t].status \in {"ready", "running"}
  BY DEF Streaks
<1>5. Streak(t)'
  BY <1>1, <1>3, <1>4, StreakCounted
<1>6. \A x \in Tasks \ {t} : tasks'[x] = tasks[x] /\ NoNewFailure(x) /\ SameDebt(x)
  BY <1>1, <1>2
<1> QED BY <1>5, <1>6, OneStreak

LEMMA WorkerStreaks ==
    ASSUME Breaker, Tolerant, [Next]_vars, NEW r \in Workers, WorkerStep(r), "death" \notin Mishaps
    PROVE  Streaks'
<1> USE DEF Attempt
<1>1. Dispatched /\ Sound /\ Agendas /\ Processes /\ Grown /\ Streaks /\ SoloWorkers /\ Ends
  BY WorkersKeepTask DEF Breaker, Solo, Serial, Dispatched
<1>2. \A d \in Dispatchers : agenda'[d] = agenda[d]
  BY <1>1, OthersLeave DEF Die
<1>3. \A x : SameDebt(x)
  BY <1>2, ListsKept
<1>4. CalmBoard => Streaks'
  BY <1>1, <1>3, CalmStreaks
<1>5. UNCHANGED boardVars => Streaks'
  BY <1>4, NothingCalm DEF boardVars
<1>6. CASE Exit(r)
  BY <1>5, <1>6 DEF Exit, boardVars
<1>7. CASE Promote(r)
  <2>1. Now(r).limit \in {DefaultFailureLimit, FailureLimit}
    BY <1>1, <1>7, NowTyped, WorkerShape, Kinds DEF Promote, At, Now
  <2>2. CalmBoard
    BY <1>1, <1>7, <2>1, RecomputeCalm DEF Promote
  <2> QED BY <1>4, <2>2
<1>8. CASE Clear(r)
  <2>1. PICK t \in Tasks : t = Now(r).task /\ tasks[t].status = "done"
    <3>1. agenda[r] # <<>> /\ Now(r).op = "clear" /\ agenda[r] \in Seq(WorkerMay)
      BY <1>1, <1>8, Kinds DEF Clear, At, Now, Agendas
    <3>2. Now(r) \in WorkerMay /\ 1 \in 1..Len(agenda[r]) /\ agenda[r][1] = Now(r)
      BY <3>1, LenProperties, EmptySeq, HeadTailProperties DEF Now
    <3> QED BY <1>1, <3>1, <3>2, WorkerShape DEF Ends
  <2>2. UNCHANGED boardVars \/ ClearFailureCounter(t)
    BY <1>8, <2>1 DEF Clear
  <2>3. CASE ClearFailureCounter(t)
    <3> DEFINE row == [tasks[t] EXCEPT !.fails = 0, !.err = "none"]
    <3>1. tasks[t] \in TaskRow
      BY <1>1, <2>1, RowsAreRows DEF Sound
    <3>2. Put(t, row) /\ UNCHANGED runs /\ row.status = "done"
      BY <2>1, <2>3, <3>1 DEF ClearFailureCounter, TaskRow
    <3> HIDE DEF row
    <3>3. tasks'[t].status = "done" /\ \A x \in Tasks : x # t => tasks'[x] = tasks[x]
      BY <1>1, <2>1, <3>2, PutRow
    <3>4. \A x \in Tasks : NoNewFailure(x)
      BY <3>2, SameRuns
    <3>5. Streak(t) /\ ~Owed(t) /\ ~Owed(t)'
      BY <1>1, <1>3, <2>1 DEF Streaks, Streak, SameDebt
    <3>6. Streak(t)'
      BY <1>1, <2>1, <3>3, <3>4, <3>5, StreakDone
    <3> QED BY <1>1, <1>3, <2>1, <3>3, <3>4, <3>6, OneStreak
  <2> QED BY <1>5, <2>2, <2>3
<1>9. Alive(r) => Mine(r) \in Tasks
  BY <1>1, WorkersTask DEF Alive
<1>10. CASE BeatLease(r) \/ BeatRow(r)
  <2>1. Mine(r) \in Tasks
    BY <1>1, <1>9, <1>10, Kinds DEF BeatLease, BeatRow, Active, At, Processes
  <2> HIDE DEF Mine
  <2>2. \/ UNCHANGED boardVars
        \/ HeartbeatClaim(Mine(r), worker[r].parent) \/ HeartbeatWorker(Mine(r), r)
    BY <1>10 DEF BeatLease, BeatRow
  <2>3. UNCHANGED boardVars \/ CalmBoard
    BY <1>1, <2>1, <2>2, CosmeticCalm
  <2> QED BY <1>4, <1>5, <2>3
<1>11. ASSUME NEW from, NEW s \in {"done", "blocked"}, NEW o \in {"completed", "blocked"}, Alive(r),
              "done" \notin from, s = "blocked" => "blocked" \notin from,
              Finish(Mine(r), r, from, s, o, TRUE)
       PROVE  Streaks'
  <2>1. PICK t \in Tasks : t = Mine(r)
    BY <1>9, <1>11
  <2> HIDE DEF Mine
  <2>2. Finish(t, r, from, s, o, TRUE)
    BY <1>11, <2>1
  <2>3. /\ tasks'[t].status = s /\ tasks'[t].fails = tasks[t].fails
        /\ \A x \in Tasks : x # t => tasks'[x] = tasks[x]
        /\ tasks[t].status \in from /\ Expected(t, r)
    BY <1>1, <2>1, <2>2, FinishRow
  <2>4. \A x \in Tasks : NoNewFailure(x)
    BY <1>1, <1>11, <2>1, <2>2, FinishFailures
  <2>5. tasks[t].run # 0
    BY <2>3, BoardAssumption DEF Expected, Workers
  <2>6. Streak(t) /\ ~Owed(t) /\ ~Owed(t)'
    BY <1>1, <1>3, <2>1, <2>5 DEF Streaks, Streak, SameDebt
  <2>7. Streak(t)'
    <3>1. CASE s = "done"
      BY <1>1, <2>1, <2>3, <2>4, <2>6, <3>1, StreakDone
    <3>2. CASE s = "blocked"
      <4>1. CalmRow(t, tasks[t], tasks'[t])
        BY <1>11, <2>3, <2>6, <3>2 DEF CalmRow
      <4> QED BY <1>1, <1>3, <2>1, <2>4, <2>6, <4>1, StreakCalm
    <3> QED BY <3>1, <3>2
  <2> QED BY <1>1, <1>3, <2>1, <2>3, <2>4, <2>7, OneStreak
<1>12. CASE Complete(r)
  <2>1. Finish(Mine(r), r, {"running", "ready", "blocked"}, "done", "completed", TRUE) /\ Alive(r)
    BY <1>12 DEF Complete, CompleteTask, Active
  <2> QED BY <1>11, <2>1
<1>13. CASE Block(r)
  <2>1. Finish(Mine(r), r, {"running", "ready"}, "blocked", "blocked", TRUE) /\ Alive(r)
    BY <1>13 DEF Block, BlockTask, Active
  <2> QED BY <1>11, <2>1
<1>14. CASE ExhaustBudget(r)
  <2>1. PICK t \in Tasks : t = Mine(r) /\ tasks[t].status = "running"
    BY <1>1, <1>9, <1>14 DEF ExhaustBudget, Active, SoloWorkers
  <2> HIDE DEF Mine
  <2>2. UNCHANGED boardVars \/ RecordFailure(t, DefaultFailureLimit, TRUE, "plain", "timed_out")
    BY <1>14, <2>1 DEF ExhaustBudget
  <2>3. ~Owed(t)'
    BY <1>1, <1>3, <2>1 DEF Streaks, Streak, SameDebt
  <2>4. CASE RecordFailure(t, DefaultFailureLimit, TRUE, "plain", "timed_out")
    <3>1. tasks[t].status = (IF TRUE THEN "running" ELSE "ready")
      BY <2>1
    <3> QED BY <1>1, <1>3, <2>1, <2>3, <2>4, <3>1, FailureStreak
  <2> QED BY <1>5, <2>2, <2>4
<1> QED BY <1>6, <1>7, <1>8, <1>10, <1>12, <1>13, <1>14 DEF WorkerStep

\* The other steps that are not a dispatcher's leave the streaks as they are.
LEMMA OtherStreaks ==
    ASSUME Breaker, Tolerant, [Next]_vars, "death" \notin Mishaps,
           Tick \/ UNCHANGED vars \/ \E e \in Dispatchers : Boot(e) \/ Die(e)
    PROVE  Streaks'
<1>1. Dispatched /\ Sound /\ Grown /\ Streaks
  BY WorkersKeepTask DEF Breaker, Solo, Serial, Dispatched
<1>2. \A d \in Dispatchers : agenda'[d] = agenda[d]
  BY <1>1, OthersLeave DEF Die
<1>3. \A x : SameDebt(x)
  BY <1>2, ListsKept
<1>4. CalmBoard
  <2>1. CASE Tick
    <3>1. CASE \E t \in Tasks : LeaseLapses(t) \/ GraceEnds(t) \/ HeartbeatAges(t)
      BY <1>1, <3>1, CosmeticCalm
    <3>2. CASE \E r \in 1..Len(runs) : RunAges(r)
      <4>1. \A x \in Tasks : NoNewFailure(x)
        BY <1>1, <3>2, AgeFailures
      <4>2. UNCHANGED tasks
        BY <3>2 DEF RunAges
      <4> QED BY <4>1, <4>2 DEF CalmBoard, CalmRow
    <3> QED BY <2>1, <3>1, <3>2 DEF Tick
  <2>2. CASE UNCHANGED vars \/ \E e \in Dispatchers : Boot(e)
    BY <2>2, NothingCalm DEF vars, Boot
  <2> QED BY <2>1, <2>2 DEF Die
<1> QED BY <1>1, <1>3, <1>4, CalmStreaks

----------------------------------------------------------------------------
(* The dispatcher's steps *)

LEMMA ListBijection ==
    ASSUME NEW S, IsFiniteSet(S)
    PROVE  SetToSeq(S) \in Bijection(1..Cardinality(S), S)
<1> DEFINE n == Cardinality(S)
           list == SetToSeq(S)
<1>1. ExistsBijection(1..n, S) /\ n \in Nat
  BY FS_CardinalityType
<1>2. PICK g : g \in Bijection(1..n, S)
  BY <1>1 DEF ExistsBijection
<1>3. g \in [1..n -> S] /\ IsInjective(g)
  BY <1>2 DEF Bijection, Injection, IsInjective
<1>4. list \in [1..n -> S] /\ IsInjective(list)
  BY <1>3 DEF SetToSeq
<1>5. list \in Injection(1..n, S)
  BY <1>4 DEF Injection, IsInjective
<1>6. Cardinality(1..n) = n
  BY <1>1, FS_Interval
<1>7. list \in Surjection(1..n, S)
  BY <1>5, <1>6, FS_Injection
<1> QED BY <1>5, <1>7 DEF Bijection

\* The sweep for dead workers leaves each crashed card's failure to be counted once.
LEMMA SweepPosts ==
    ASSUME Dispatched, NEW d \in Dispatchers, SweepCrashes(d)
    PROVE  \E dead \in SUBSET CrashCandidates : \E throttled \in SUBSET dead :
           \E more \in Seq(DispatcherJob(Len(runs'))) :
               /\ Then(d, more) /\ Attempt(dead # {}, DetectCrashed(dead, throttled))
               /\ Once(more)
               /\ \A x : Owing(more, x) <=> x \in dead \ throttled
<1> DEFINE dead == {t \in CrashCandidates : ~Alive(tasks[t].pid)}
           exit == [t \in dead |-> ExitSeenBy(d, tasks[t].pid)]
           throttled == {t \in dead : exit[t] = "limited"}
           crashed == dead \ throttled
           systemic(t) == Cardinality({u \in crashed : exit[u] = exit[t]}) >= 3
           limit(t) == IF exit[t] = "clean" \/ systemic(t) THEN 1 ELSE DefaultFailureLimit
           fail(t) == [op |-> "fail", task |-> t, limit |-> limit(t)]
           n == Cardinality(crashed)
           more == [i \in 1..n |-> fail(SetToSeq(crashed)[i])]
           S == DispatcherJob(Len(runs'))
<1>1. Then(d, more) /\ Attempt(dead # {}, DetectCrashed(dead, throttled))
  BY DEF SweepCrashes
<1>2. crashed \subseteq Tasks /\ dead \subseteq CrashCandidates /\ throttled \subseteq dead
  BY DEF CrashCandidates
<1>3. \A t : limit(t) \in {1, DefaultFailureLimit}
  OBVIOUS
<1> HIDE DEF limit
<1>4. \A t \in Tasks : fail(t) \in S
  BY <1>3 DEF DispatcherJob
<1>5. \A t : fail(t).op = "fail" /\ fail(t).task = t
  OBVIOUS
<1>6. crashed = dead \ throttled
  OBVIOUS
<1> HIDE DEF crashed
<1>7. n \in Nat /\ SetToSeq(crashed) \in Bijection(1..n, crashed) /\ SetToSeq(crashed) \in [1..n -> crashed]
  BY <1>2, ListOfSet, ListBijection, FS_Subset, DispatchAssumption
<1>8. /\ \A i, k \in 1..n : SetToSeq(crashed)[i] = SetToSeq(crashed)[k] => i = k
      /\ \A t \in crashed : \E i \in 1..n : SetToSeq(crashed)[i] = t
  BY <1>7 DEF Bijection, Injection, Surjection, IsInjective
<1> HIDE DEF fail, n, S, dead, throttled
<1>9. more \in Seq(S) /\ Len(more) = n /\ \A i \in 1..n : more[i] = fail(SetToSeq(crashed)[i])
  <2>1. \A i \in 1..n : fail(SetToSeq(crashed)[i]) \in S
    BY <1>2, <1>4, <1>7
  <2> QED BY <1>7, <2>1, FunctionIsSeq
<1> HIDE DEF more
<1>10. \A i \in 1..n : more[i].op = "fail" /\ more[i].task = SetToSeq(crashed)[i]
  BY <1>5, <1>9
<1>11. Once(more) /\ \A x : Owing(more, x) <=> x \in crashed
  BY <1>7, <1>8, <1>9, <1>10 DEF Once, Owing
<1> QED BY <1>1, <1>2, <1>6, <1>9, <1>11 DEF S

LEMMA RowsBack ==
    ASSUME Sound, NEW t \in Tasks, NEW row,
           row \in {BackToReady(tasks[t]), [BackToReady(tasks[t]) EXCEPT !.err = "blocker"],
                    [BackToReady(tasks[t]) EXCEPT !.hb = "none"]}
    PROVE  row.status = "ready" /\ row.run = 0 /\ row.fails = tasks[t].fails
<1>1. tasks[t] \in TaskRow
  BY RowsAreRows DEF Sound
<1> QED BY <1>1 DEF TaskRow, BackToReady, Released

\* In the second half of a call nothing is owed; a running card's failures are
\* all counted.
LEMMA NothingOwed ==
    ASSUME Breaker, NEW d \in Dispatchers, agenda[d] # <<>>, Now(d).op \in Late
    PROVE  \A x : ~Owed(x)
<1>1. \A e \in Dispatchers \ {d} : agenda[e] = <<>>
  BY OthersIdle DEF Breaker, Solo, Serial
<1>2. agenda[d][1] = Now(d) /\ Len(agenda[d]) \in Nat
  BY HeadJob DEF Breaker, Solo, Serial
<1>3. \A k \in 2..Len(agenda[d]) : agenda[d][k].op \in Late
  BY HeadSolo DEF Breaker
<1>4. \A k \in 1..Len(agenda[d]) : agenda[d][k].op # "fail"
  BY <1>2, <1>3 DEF Late
<1> QED BY <1>1, <1>4 DEF Owed, Owing

LEMMA QuietDebts ==
    ASSUME Breaker, [Next]_vars, NEW d \in Dispatchers, agenda[d] # <<>>, DispatcherStep(d),
           Now(d).op \notin {"crashes", "timeout", "fail"}
    PROVE  (\A x : SameDebt(x)) /\ \A e \in Dispatchers : Once(agenda'[e])
<1>1. Dispatched /\ Grown /\ OneUp /\ Once(agenda[d])
  BY WorkersKeepTask DEF Breaker, Solo, Serial
<1>2. PICK more : NewJobs(d, more)
  BY <1>1, DispatcherAdvances DEF StartTick
<1>3. more \in Seq(DispatcherJob(Len(runs'))) /\ Advances(d, more)
  BY <1>2 DEF NewJobs
<1>4. \A k \in 1..Len(more) : more[k].op # "fail"
  <2>1. "fail" \notin Successors(Now(d).op)
    BY DEF Successors
  <2> QED BY <1>2, <2>1 DEF NewJobs, NewJob
<1>5. Once(more) /\ \A x : ~Owing(more, x)
  BY <1>4 DEF Once, Owing
<1> QED BY <1>1, <1>3, <1>5, Debts

LEMMA DispatcherStreaks ==
    ASSUME Breaker, Tolerant, [Next]_vars, NEW d \in Dispatchers, DispatcherStep(d)
    PROVE  Streaks' /\ \A e \in Dispatchers : Once(agenda'[e])
<1> USE DEF Attempt
<1> DEFINE Kept == Streaks' /\ \A e \in Dispatchers : Once(agenda'[e])
           S == DispatcherJob(Len(runs'))
<1>1. /\ Dispatched /\ Sound /\ Grown /\ OneUp /\ Agendas /\ Streaks /\ Starts /\ Solo
      /\ d \in Procs /\ \A e \in Dispatchers : Once(agenda[e])
  BY WorkersKeepTask, Kinds DEF Breaker, Solo, Serial, Dispatched
<1>2. agenda[d] # <<>> => SoloJob(Now(d)) /\ Now(d) \in DispatcherJob(Len(runs))
  BY <1>1, HeadSolo
<1>3. /\ \A s \in {<<>>} : Once(s) /\ (\A x : ~Owing(s, x)) /\ s \in Seq(S)
      /\ \A j : j.op = "fail" => Once(<<j>>) /\ \A x : Owing(<<j>>, x) <=> x = j.task
  <2>1. <<>> \in Seq(S) /\ \A k \in 1..Len(<<>>) : FALSE
    BY EmptySeq
  <2>2. \A j : Len(<<j>>) = 1 /\ <<j>>[1] = j
    OBVIOUS
  <2>3. 1..1 = {1}
    OBVIOUS
  <2> QED BY <2>1, <2>2, <2>3 DEF Once, Owing
<1>4. CASE StartTick(d)
  <2>1. /\ UNCHANGED <<tasks, runs>> /\ life[d] = "up" /\ agenda[d] = <<>>
        /\ \A e \in Dispatchers : agenda'[e] = IF e = d THEN Plan ELSE agenda[e]
    BY <1>1, <1>4, Kinds DEF StartTick, Agendas
  <2>2. \A e \in Dispatchers : agenda[e] = <<>>
    BY <1>1, <2>1 DEF OneUp, Dispatched, Processes
  <2>3. Once(Plan) /\ \A x : ~Owing(Plan, x)
    BY PlanOps DEF Once, Owing
  <2>4. \A x : ~Owed(x)
    BY <1>3, <2>2 DEF Owed
  <2>5. \A x : ~Owed(x)'
    <3>1. \A x : \A e \in Dispatchers : ~Owing(agenda'[e], x)
      BY <1>3, <2>1, <2>2, <2>3
    <3> QED BY <3>1 DEF Owed, Owing
  <2>6. Streaks'
    BY <1>1, <2>1, <2>4, <2>5, NothingCalm, CalmStreaks DEF SameDebt
  <2> QED BY <1>1, <2>1, <2>3, <2>6
<1>5. ASSUME agenda[d] # <<>>, Now(d).op \notin {"crashes", "timeout", "fail"}, CalmBoard
      PROVE  Kept
  BY <1>1, <1>5, QuietDebts, CalmStreaks
<1>6. \A more : Then(d, more) => Advances(d, more)
  BY <1>1, ThenAdvances
<1>7. CASE \/ ListLeases(d) \/ ListBeats(d) \/ KillSilent(d) \/ ListOverdue(d) \/ KillOverdue(d)
           \/ ListReady(d) \/ Consider(d) \/ Spawn(d)
  <2>1. /\ UNCHANGED <<tasks, runs>> /\ agenda[d] # <<>>
        /\ Now(d).op \in {"leases", "beats", "beat", "runtimes", "overdue", "scan", "consider", "spawn"}
    BY <1>7 DEF ListLeases, ListBeats, KillSilent, ListOverdue, KillOverdue, ListReady, Consider,
                ConsiderLinked, Spawn, At, Now
  <2> QED BY <1>5, <2>1, NothingCalm
<1>8. CASE CheckLease(d) \/ SetPid(d)
  <2>1. PICK t \in Tasks : t = Now(d).task /\ agenda[d] # <<>> /\ Now(d).op \in {"lease", "setpid"}
    BY <1>2, <1>8, JobShape DEF CheckLease, SetPid, At, Now
  <2>2. \/ UNCHANGED <<tasks, runs>>
        \/ \E l : ExtendClaim(t, l)
        \/ \E r : SetWorkerPid(t, r)
    BY <1>8, <2>1 DEF CheckLease, SetPid, boardVars
  <2> QED BY <1>1, <1>5, <2>1, <2>2, NothingCalm, CosmeticCalm
<1>9. CASE ReleaseLease(d) \/ YankStale(d)
  <2>1. PICK t \in Tasks : t = Now(d).task /\ agenda[d] # <<>> /\ Now(d).op \in {"release", "stale"}
    BY <1>2, <1>9, JobShape DEF ReleaseLease, YankStale, At, Now
  <2>2. \/ UNCHANGED <<tasks, runs>>
        \/ YankRunning(t, "stale") \/ \E l : ReleaseStaleClaim(t, l)
    BY <1>9, <2>1 DEF ReleaseLease, YankStale, boardVars
  <2> QED BY <1>1, <1>5, <2>1, <2>2, NothingCalm, YankCalm
<1>10. CASE Promote(d)
  <2>1. agenda[d] # <<>> /\ Now(d).op = "recompute" /\ RecomputeReady(Now(d).limit)
    BY <1>10 DEF Promote, At, Now
  <2>2. Now(d).limit \in {DefaultFailureLimit, FailureLimit}
    BY <1>2, <2>1, JobShape
  <2> QED BY <1>1, <1>5, <2>1, <2>2, RecomputeCalm
<1>11. CASE Claim(d)
  <2>1. PICK t \in Tasks : t = Now(d).task /\ agenda[d] # <<>> /\ Now(d).op = "claim"
    BY <1>2, <1>11, JobShape DEF Claim, At, Now
  <2>2. UNCHANGED <<tasks, runs>> \/ ClaimTask(t, d)
    BY <1>11, <2>1 DEF Claim, boardVars
  <2>3. ~Owed(t)
    BY <2>1, NothingOwed DEF Late
  <2> QED BY <1>1, <1>5, <2>1, <2>2, <2>3, NothingCalm, ClaimCalm
<1>12. CASE SpawnFailed(d)
  <2>1. PICK t \in Tasks : /\ t = Now(d).task /\ agenda[d] # <<>> /\ Now(d).op = "spawnfail"
                           /\ Now(d).why \in {"plain", "blocker"}
    BY <1>2, <1>12, JobShape DEF SpawnFailed, At, Now
  <2>2. \/ UNCHANGED <<tasks, runs>>
        \/ RecordFailure(t, FailureLimit, TRUE, Now(d).why, "spawn_failed")
    BY <1>12, <2>1 DEF SpawnFailed, boardVars
  <2>3. tasks[t].status = (IF TRUE THEN "running" ELSE "ready")
    BY <1>1, <2>1, HeadJob DEF Starts
  <2>4. (\A x : SameDebt(x)) /\ \A e \in Dispatchers : Once(agenda'[e])
    BY <2>1, QuietDebts
  <2>5. \A x : ~Owed(x)
    BY <2>1, NothingOwed DEF Late
  <2>6. ~Owed(t)'
    BY <2>4, <2>5 DEF SameDebt
  <2>7. CASE RecordFailure(t, FailureLimit, TRUE, Now(d).why, "spawn_failed")
    BY <1>1, <2>3, <2>4, <2>6, <2>7, FailureStreak
  <2> QED BY <1>5, <2>1, <2>2, <2>4, <2>7, NothingCalm
<1>13. CASE CountFailure(d)
  <2>1. PICK t \in Tasks : /\ t = Now(d).task /\ agenda[d] # <<>> /\ Now(d).op = "fail"
                           /\ Now(d).limit \in {1, DefaultFailureLimit}
    BY <1>2, <1>13, JobShape DEF CountFailure, At, Now
  <2>2. Then(d, <<>>) /\ Advances(d, <<>>)
    BY <1>6, <1>13 DEF CountFailure
  <2>3. /\ \A e \in Dispatchers : Once(agenda'[e])
        /\ \A x : x # t => SameDebt(x)
        /\ Owed(t) /\ ~Owed(t)'
    <3> DEFINE none == <<>>
    <3>1. none \in Seq(S) /\ Advances(d, none) /\ Once(none) /\ \A x : ~Owing(none, x)
      BY <1>3, <2>2
    <3> HIDE DEF none
    <3>2. /\ \A e \in Dispatchers : Once(agenda'[e])
          /\ \A x : ~Owing(none, x) /\ ~(Now(d).op = "fail" /\ Now(d).task = x) => SameDebt(x)
          /\ \A x : Now(d).op = "fail" /\ Now(d).task = x /\ ~Owing(none, x) => Owed(x) /\ ~Owed(x)'
      BY <1>1, <2>1, <3>1, Debts
    <3> QED BY <2>1, <3>1, <3>2
  <2>4. tasks[t].status = (IF FALSE THEN "running" ELSE "ready") /\ tasks[t].fails < Most(t)
    BY <1>1, <2>3 DEF Streaks, Streak
  <2>5. Present(t) /\ tasks[t].fails < MaxFails
    BY <1>1, <2>4, FailsAreNat, Limits DEF Present
  <2>6. RecordFailure(t, Now(d).limit, FALSE, "plain", "crashed")
    BY <1>13, <2>1, <2>5 DEF CountFailure
  <2> QED BY <1>1, <2>1, <2>3, <2>4, <2>6, FailureStreak
<1>14. CASE YankOverdue(d)
  <2>1. PICK t \in Tasks : t = Now(d).task /\ agenda[d] # <<>> /\ Now(d).op = "timeout"
    BY <1>2, <1>14, JobShape DEF YankOverdue, At, Now
  <2>2. CASE tasks[t].status = "running"
    <3> DEFINE j == [op |-> "fail", task |-> t, limit |-> DefaultFailureLimit]
               more == <<j>>
    <3>1. YankRunning(t, "timed_out") /\ Then(d, more)
      BY <1>14, <2>1, <2>2 DEF YankOverdue
    <3>2. j.op = "fail" /\ j.task = t /\ more \in Seq(S)
      <4>1. j \in S
        BY <1>1, DispatcherJobs DEF Sound
      <4>2. j.op = "fail" /\ j.task = t
        OBVIOUS
      <4> HIDE DEF j
      <4> QED BY <4>1, <4>2
    <3> HIDE DEF j
    <3>3. Once(more) /\ \A x : Owing(more, x) <=> x = t
      BY <1>3, <3>2
    <3> HIDE DEF more
    <3>4. ~Owed(t)
      BY <1>1, <2>2 DEF Streaks, Streak
    <3>5. Advances(d, more)
      BY <1>6, <3>1
    <3>6. /\ \A e \in Dispatchers : Once(agenda'[e])
          /\ Owed(t)' /\ \A x : x # t => SameDebt(x)
      BY <1>1, <2>1, <3>2, <3>3, <3>4, <3>5, Debts
    <3> DEFINE row == [BackToReady(tasks[t]) EXCEPT !.hb = "none"]
    <3>7. Put(t, row) /\ runs' = RunEnded(tasks[t].run, "timed_out")
      BY <3>1 DEF YankRunning
    <3>8. row.status = "ready" /\ row.run = 0 /\ row.fails = tasks[t].fails
      BY <1>1, RowsBack
    <3> HIDE DEF row
    <3>9. tasks'[t] = row /\ \A x \in Tasks : x # t => tasks'[x] = tasks[x]
      BY <1>1, <3>7, PutRow
    <3>10. \A x \in Tasks : OneMore(x) /\ (x # t => NoNewFailure(x))
      <4>1. "timed_out" \in Outcomes \ {"open"}
        BY DEF Outcomes
      <4> QED BY <1>1, <3>7, <4>1, EndedFailures
    <3>11. Streak(t)'
      BY <1>1, <2>2, <3>6, <3>8, <3>9, <3>10, StreakPosted DEF Streaks
    <3>12. Streaks'
      BY <1>1, <3>6, <3>9, <3>10, <3>11, OneStreak
    <3> QED BY <3>6, <3>12
  <2>3. CASE tasks[t].status # "running"
    <3> DEFINE none == <<>>
    <3>1. UNCHANGED <<tasks, runs>> /\ Then(d, none)
      BY <1>14, <2>1, <2>3 DEF YankOverdue, boardVars
    <3>2. none \in Seq(S) /\ Advances(d, none) /\ Once(none) /\ \A x : ~Owing(none, x)
      BY <1>3, <1>6, <3>1
    <3> HIDE DEF none
    <3>3. (\A e \in Dispatchers : Once(agenda'[e])) /\ \A x : SameDebt(x)
      BY <1>1, <2>1, <3>2, Debts
    <3> QED BY <1>1, <3>1, <3>3, NothingCalm, CalmStreaks
  <2> QED BY <2>2, <2>3
<1>15. CASE SweepCrashes(d)
  <2>1. PICK dead \in SUBSET CrashCandidates, throttled \in SUBSET CrashCandidates, more \in Seq(S) :
            /\ throttled \subseteq dead /\ Then(d, more) /\ (dead # {} => DetectCrashed(dead, throttled))
            /\ (dead = {} => UNCHANGED boardVars) /\ Once(more)
            /\ \A x : Owing(more, x) <=> x \in dead \ throttled
    BY <1>1, <1>15, SweepPosts
  <2>2. Advances(d, more) /\ agenda[d] # <<>> /\ Now(d).op = "crashes"
    BY <1>6, <1>15, <2>1 DEF SweepCrashes, At, Now
  <2>3. \A x \in dead : x \in Tasks /\ tasks[x].status = "running" /\ ~Owed(x)
    BY <1>1 DEF CrashCandidates, Streaks, Streak
  <2>4. /\ \A e \in Dispatchers : Once(agenda'[e])
        /\ \A x \in dead \ throttled : Owed(x)'
        /\ \A x : x \notin dead \ throttled => SameDebt(x)
    BY <1>1, <2>1, <2>2, <2>3, Debts
  <2>5. CASE dead = {}
    BY <1>1, <2>1, <2>4, <2>5, NothingCalm, CalmStreaks DEF boardVars
  <2>6. CASE dead # {}
    <3>1. DetectCrashed(dead, throttled)
      BY <2>1, <2>6
    <3>2. \A x \in Tasks : OneMore(x) /\ (x \notin dead \ throttled => NoNewFailure(x))
      BY <1>1, <3>1, SweepFailures
    <3>3. ASSUME NEW x \in Tasks
          PROVE  IF x \in dead THEN /\ tasks'[x].status = "ready" /\ tasks'[x].run = 0
                                    /\ tasks'[x].fails = tasks[x].fails
                 ELSE tasks'[x] = tasks[x]
      <4>1. x \notin dead => tasks'[x] = tasks[x]
        BY <3>1 DEF DetectCrashed
      <4>2. x \in dead => tasks'[x] \in {BackToReady(tasks[x]),
                                         [BackToReady(tasks[x]) EXCEPT !.err = "blocker"]}
        BY <3>1 DEF DetectCrashed
      <4> QED BY <1>1, <4>1, <4>2, RowsBack
    <3>4. ASSUME NEW x \in Tasks
          PROVE  Streak(x)'
      <4>1. CASE x \in dead \ throttled
        BY <1>1, <2>3, <2>4, <3>2, <3>3, <4>1, StreakPosted DEF Streaks
      <4>2. CASE x \notin dead \ throttled
        <5>1. CalmRow(x, tasks[x], tasks'[x])
          BY <2>3, <3>3 DEF CalmRow
        <5> QED BY <1>1, <2>4, <3>2, <4>2, <5>1, StreakCalm DEF Streaks
      <4> QED BY <4>1, <4>2
    <3> QED BY <2>4, <3>4 DEF Streaks
  <2> QED BY <2>5, <2>6
<1> QED BY <1>4, <1>7, <1>8, <1>9, <1>10, <1>11, <1>12, <1>13, <1>14, <1>15 DEF DispatcherStep

\* A start that failed is dealt with before anything else is done.
LEMMA DispatcherStarts ==
    ASSUME Breaker, [Next]_vars, NEW d \in Dispatchers, DispatcherStep(d)
    PROVE  Starts'
<1>1. Dispatched /\ Grown /\ OneUp /\ Starts /\ Solo
  BY WorkersKeepTask DEF Breaker, Solo, Serial
<1>2. CASE StartTick(d)
  <2>1. /\ life[d] = "up"
        /\ \A e \in Dispatchers : agenda'[e] = IF e = d THEN Plan ELSE agenda[e]
    BY <1>1, <1>2, Kinds DEF StartTick, Dispatched, Agendas
  <2>2. \A e \in Dispatchers \ {d} : agenda'[e] = <<>>
    BY <1>1, <2>1 DEF OneUp, Dispatched, Processes
  <2>3. \A i \in 1..Len(Plan) : Plan[i].op # "spawnfail"
    BY PlanOps
  <2> QED BY <2>1, <2>2, <2>3 DEF Starts
<1>3. ASSUME NEW more, NewJobs(d, more)
      PROVE  Starts'
  <2> DEFINE h == Now(d)
  <2>1. /\ agenda[d] # <<>>
        /\ \A e \in Dispatchers \ {d} : agenda'[e] = <<>>
    BY <1>1, <1>3, OthersIdle, Kinds DEF NewJobs, Advances
  <2>2. SoloJob(h) /\ h \in DispatcherJob(Len(runs))
    BY <1>1, <2>1, HeadSolo
  <2>3. ASSUME NEW i \in 1..Len(agenda'[d]), agenda'[d][i].op = "spawnfail"
        PROVE  /\ tasks'[agenda'[d][i].task].status = "running"
               /\ \A q \in Workers : tasks'[agenda'[d][i].task].run = q => worker'[q].st = "none"
    <3>1. PICK k \in 1..Len(more) : agenda'[d][i] = more[k]
      <4>1. ~\E k \in 2..Len(agenda[d]) : agenda'[d][i] = agenda[d][k]
        BY <1>1, <2>1, <2>3, HeadSolo DEF HeadOnly
      <4> QED BY <1>1, <1>3, <4>1, NewList
    <3>2. h.op = "spawn" /\ more[k].task = h.task /\ worker' = worker
      BY <1>3, <2>3, <3>1 DEF NewJobs, NewJob
    <3>3. Spawn(d)
      BY <2>1, <3>2 DEF DispatcherStep, StartTick, ListLeases, CheckLease, ReleaseLease, ListBeats,
             KillSilent, YankStale, SweepCrashes, CountFailure, ListOverdue, KillOverdue, YankOverdue,
             Promote, ListReady, Consider,
             ConsiderLinked, Claim, Spawn, SetPid, SpawnFailed, At, Now
    <3>4. UNCHANGED tasks
      BY <3>3 DEF Spawn
    <3>5. /\ tasks[h.task].status = "running" /\ tasks[h.task].run = h.run
          /\ worker[h.run].st = "none"
      BY <2>2, <3>2 DEF SoloJob
    <3> HIDE DEF h
    <3> QED BY <3>1, <3>2, <3>4, <3>5
  <2> QED BY <2>1, <2>3 DEF Starts
<1> QED BY <1>2, <1>3, DispatcherAdvances, <1>1

LEMMA OtherStarts ==
    ASSUME Breaker, [Next]_vars, "death" \notin Mishaps,
           [Tick \/ \/ \E r \in Workers : WorkerStep(r)
                    \/ \E e \in Dispatchers : Boot(e) \/ Die(e)]_vars
    PROVE  Starts'
<1>1. Dispatched /\ Starts /\ Solo /\ SoloJobs
  BY DEF Breaker, Solo, Serial
<1>2. \A d \in Dispatchers : agenda'[d] = agenda[d]
  BY <1>1, OthersLeave DEF Die
<1>3. UNCHANGED <<tasks, worker>> => OldTurns /\ TurnOver
  BY DEF OldTurns, TurnOver
<1>4. OldTurns /\ TurnOver
  BY <1>1, <1>3, WorkerSolo, TickSolo DEF Boot, Die, vars
<1>5. ClaimsKept
  BY <1>1, WorkerClaims, TickClaims, SameTasks DEF Boot, Die, vars
<1>6. ASSUME NEW d \in Dispatchers, NEW i \in 1..Len(agenda[d]), NEW j, j = agenda[d][i],
             j.op = "spawnfail"
      PROVE  /\ tasks'[j.task].status = "running"
             /\ \A q \in Workers : tasks'[j.task].run = q => worker'[q].st = "none"
  <2>1. /\ j \in DispatcherJob(Len(runs)) /\ SoloJob(j)
        /\ tasks[j.task].status = "running"
        /\ \A q \in Workers : tasks[j.task].run = q => worker[q].st = "none"
    BY <1>1, <1>6, Kinds, ElementOfSeq DEF Dispatched, Agendas, SoloJobs, Starts
  <2>2. j.task \in Tasks /\ Idle(j.task)
    BY <1>6, <2>1, JobShape DEF SoloJob
  <2>3. ~\E q \in Workers : LeftBy(q, j.task)
    BY <2>1, <2>2 DEF LeftBy, Idle
  <2>4. tasks'[j.task].status = "running"
    BY <1>4, <2>1, <2>2, <2>3 DEF TurnOver
  <2>5. tasks'[j.task].run = tasks[j.task].run
    BY <1>5, <2>2, <2>4 DEF ClaimsKept, ClaimKept
  <2> QED BY <1>4, <2>1, <2>4, <2>5 DEF OldTurns
<1> QED BY <1>2, <1>6 DEF Starts

\* The instances in which there is no operator.
LEMMA NoOperator ==
    ASSUME Breaker, Verbs \subseteq EngineVerbs, [Next]_vars
    PROVE  ~OperatorMove \/ UNCHANGED vars
<1>1. \A v \in {"unblock", "hold", "pull", "archive", "close", "move", "reclaim", "promote"} : ~Does(v)
  BY DEF Does, EngineVerbs
<1>2. ~At(Operator, "drop") /\ \A op : ~At(Operator, op)
  BY DEF Breaker, At
<1> QED BY <1>1, <1>2 DEF OperatorMove, Unblock, Hold, Pull, Archive, Close, Drag, BeginReclaim,
        BeginPromote, Drop, DropUnblock, Reclaim, FinishPromote, Terminate, Clear, Promote

\* A card that a worker completed stays done until it has cleared its counter.
LEMMA StepEnds ==
    ASSUME Breaker, Verbs \subseteq EngineVerbs, [Next]_vars
    PROVE  Ends' /\ agenda'[Operator] = <<>>
<1>1. Dispatched /\ Sound /\ Agendas /\ Processes /\ Ends /\ agenda[Operator] = <<>> /\ Grown
  BY WorkersKeepTask DEF Breaker, Solo, Serial, Dispatched
<1>2. \A t \in Tasks : tasks[t].status = "done" => tasks'[t].status = "done"
  <2>1. ~Does("archive") /\ ~Does("move") /\ ~Does("delete")
    BY DEF Does, EngineVerbs
  <2> QED BY <1>1, <2>1, NextBoard, StepStatus DEF StatusStep, StatusChange
<1>3. ASSUME NEW r \in Workers, NEW i \in 1..Len(agenda[r]), agenda[r][i].op = "clear"
      PROVE  tasks'[agenda[r][i].task].status = "done"
  <2>1. agenda[r][i] \in WorkerMay
    BY <1>1, Kinds, ElementOfSeq DEF Agendas
  <2> QED BY <1>1, <1>2, <1>3, <2>1, WorkerShape DEF Ends
<1>4. CASE /\ \A r \in Workers : agenda'[r] \in {agenda[r], <<>>}
           /\ agenda'[Operator] \in {agenda[Operator], <<>>}
  BY <1>1, <1>3, <1>4 DEF Ends
<1>5. ASSUME NEW d \in Dispatchers, DispatcherStep(d)
      PROVE  Ends' /\ agenda'[Operator] = <<>>
  <2>1. CASE StartTick(d)
    BY <1>1, <1>4, <2>1, Kinds DEF StartTick, Agendas
  <2>2. CASE \E more : NewJobs(d, more)
    BY <1>4, <2>2, Kinds DEF NewJobs, Advances
  <2> QED BY <1>1, <1>5, <2>1, <2>2, DispatcherAdvances
<1>6. CASE UNCHANGED vars \/ Tick \/ \E e \in Dispatchers : Boot(e) \/ Die(e)
  BY <1>1, <1>4, <1>6, Kinds DEF Tick, Boot, Die, vars, Agendas
<1>7. ASSUME NEW r \in Workers, WorkerStep(r)
      PROVE  Ends' /\ agenda'[Operator] = <<>>
  <2>1. ASSUME NEW list, agenda' = [agenda EXCEPT ![r] = list],
               \A i \in 1..Len(list) : list[i].op = "clear" => tasks'[list[i].task].status = "done"
        PROVE  Ends' /\ agenda'[Operator] = <<>>
    <3>1. agenda'[r] = list /\ \A q \in Procs \ {r} : agenda'[q] = agenda[q]
      BY <1>1, <2>1, Kinds DEF Agendas
    <3>2. \A q \in Workers : q \in Procs
      BY Kinds
    <3> QED BY <1>1, <1>3, <2>1, <3>1, <3>2, Kinds DEF Ends
  <2>2. CASE UNCHANGED agenda
    BY <1>1, <1>4, <2>2
  <2>3. CASE BeatLease(r)
    <3> DEFINE list == <<[op |-> "touch"]>>
    <3>1. agenda' = [agenda EXCEPT ![r] = list]
      BY <2>3 DEF BeatLease
    <3>2. \A i \in 1..Len(list) : list[i].op # "clear"
      OBVIOUS
    <3> HIDE DEF list
    <3> QED BY <2>1, <3>1, <3>2
  <2>4. CASE BeatRow(r) \/ Clear(r) \/ Promote(r)
    <3> DEFINE list == <<>> \o Tail(agenda[r])
    <3>1. agenda[r] # <<>> /\ agenda' = [agenda EXCEPT ![r] = list]
      BY <2>4 DEF BeatRow, Clear, Promote, At, Then
    <3>2. agenda[r] \in Seq(WorkerMay) /\ list = Tail(agenda[r])
      <4>1. agenda[r] \in Seq(WorkerMay)
        BY <1>1, Kinds DEF Agendas
      <4>2. Tail(agenda[r]) \in Seq(WorkerMay)
        BY <3>1, <4>1, HeadTailProperties
      <4> QED BY <4>1, <4>2, ConcatEmptySeq
    <3> HIDE DEF list
    <3>3. \A i \in 1..Len(list) : i + 1 \in 1..Len(agenda[r]) /\ list[i] = agenda[r][i + 1]
      BY <3>1, <3>2, HeadTailProperties, LenProperties, EmptySeq
    <3> QED BY <1>3, <2>1, <3>1, <3>3
  <2>5. CASE Complete(r)
    <3> DEFINE list == <<Job("clear", Mine(r)), Recompute(DefaultFailureLimit)>>
    <3>1. agenda' = [agenda EXCEPT ![r] = list] /\ Alive(r)
          /\ Finish(Mine(r), r, {"running", "ready", "blocked"}, "done", "completed", TRUE)
      BY <2>5 DEF Complete, CompleteTask, Active
    <3>2. PICK t \in Tasks : t = Mine(r)
      BY <1>1, <3>1, WorkersTask DEF Alive
    <3>3. Finish(t, r, {"running", "ready", "blocked"}, "done", "completed", TRUE)
      BY <3>1, <3>2
    <3>4. tasks'[t].status = "done"
      BY <1>1, <3>3, FinishRow
    <3>5. \A i \in 1..Len(list) : list[i].op = "clear" => list[i].task = t
      BY <3>2 DEF Job, Recompute
    <3> HIDE DEF list
    <3> QED BY <2>1, <3>1, <3>4, <3>5
  <2> QED BY <1>7, <2>2, <2>3, <2>4, <2>5 DEF WorkerStep, Block, ExhaustBudget, Exit
<1>8. CASE OperatorMove
  BY <1>6, <1>8, NoOperator
<1> QED BY <1>5, <1>6, <1>7, <1>8 DEF Next

LEMMA InitBreaker ==
    ASSUME Tolerant, Init
    PROVE  Breaker
<1>1. Serial /\ runs = <<>>
  BY InitSerial DEF Init, BoardInit
<1>2. /\ \A d \in Dispatchers : agenda[d] = <<>>
      /\ \A r \in Workers : worker[r].st = "none" /\ agenda[r] = <<>>
      /\ agenda[Operator] = <<>>
  BY Kinds DEF Init, NoWorker
<1>3. Solo
  BY <1>1, <1>2 DEF Solo, SoloWorkers, SoloJobs
<1>4. \A x : ~Owed(x)
  BY <1>2 DEF Owed, Owing
<1>5. \A x : Failed(x) = 0
  <2>1. \A x : FailedAttempts(x) = {}
    BY <1>1 DEF FailedAttempts
  <2> QED BY <2>1, FS_EmptySet DEF Failed
<1>6. \A x \in Tasks : tasks[x].status \notin {"done", "blocked"} /\ tasks[x].fails = 0
  BY DEF Init, BoardInit, NewRow
<1>7. Streaks
  <2> SUFFICES ASSUME NEW x \in Tasks PROVE Streak(x)
    BY DEF Streaks
  <2>1. Most(x) \in Nat /\ Most(x) >= 1
    BY Limits
  <2> QED BY <1>4, <1>5, <1>6, <2>1 DEF Streak
<1> QED BY <1>2, <1>3, <1>7 DEF Breaker, Starts, Ends, Once

LEMMA StepBreaker ==
    ASSUME Concurrent = 1, "death" \notin Mishaps, Verbs \subseteq EngineVerbs, Tolerant,
           Breaker, [Next]_vars
    PROVE  Breaker'
<1>1. "pull" \notin Verbs /\ Undisturbed
  BY DEF EngineVerbs, Undisturbed
<1>2. Solo'
  BY <1>1, StepSerial, StepSolo DEF Breaker, Solo
<1>3. Ends' /\ agenda'[Operator] = <<>>
  BY StepEnds
<1>4. CASE \E d \in Dispatchers : DispatcherStep(d)
  BY <1>2, <1>3, <1>4, DispatcherStreaks, DispatcherStarts DEF Breaker, Once
<1>5. CASE [Tick \/ \/ \E r \in Workers : WorkerStep(r)
                    \/ \E e \in Dispatchers : Boot(e) \/ Die(e)]_vars
  <2>1. Streaks'
    BY <1>5, WorkerStreaks, OtherStreaks
  <2>2. Starts'
    BY <1>5, OtherStarts
  <2>3. \A d \in Dispatchers : agenda'[d] = agenda[d]
    BY <1>5, OthersLeave DEF Die, Breaker, Solo, Serial
  <2>4. \A d \in Dispatchers : Once(agenda[d])'
    BY <2>3 DEF Breaker, Once
  <2> QED BY <1>2, <1>3, <2>1, <2>2, <2>4 DEF Breaker
<1> QED BY <1>4, <1>5, NoOperator DEF Next

\* No card is attempted again after failing as often as its limit allows, counting
\* every way to fail, whatever its workers do: an attempt that fails leaves its card
\* at once, its failure waits in the dispatcher's list, once, and is counted before
\* the dispatcher claims anything.  Assumed: one dispatcher that does not die in the
\* middle of a call, no operator, and limits with which every failure is counted
\* (a kanban.failure_limit of 1 is not one: crashes and timeouts get the default).
THEOREM FailuresBounded ==
    ASSUME Concurrent = 1, "death" \notin Mishaps, Verbs \subseteq EngineVerbs, Tolerant
    PROVE  Spec => []BoundedFailures
<1>1. Init => Breaker
  BY InitBreaker
<1>2. Breaker /\ [Next]_vars => Breaker'
  BY StepBreaker
<1>3. Breaker => BoundedFailures
  <2> SUFFICES ASSUME Breaker, NEW t \in Tasks PROVE Failed(t) <= Most(t)
    BY DEF BoundedFailures, Failed, Most
  <2>1. Sound /\ Streak(t) /\ Len(runs) \in Nat
    BY DEF Breaker, Solo, Serial, Dispatched, Streaks, Sound, TypeOK
  <2>2. Failed(t) \in Nat /\ Most(t) \in Nat /\ tasks[t].fails \in Nat
    BY <2>1, FailedCount, Limits, FailsAreNat
  <2>3. CASE tasks[t].status = "done"
    BY <2>1, <2>3 DEF Streak
  <2>4. CASE Owed(t)
    BY <2>1, <2>2, <2>4 DEF Streak
  <2>5. CASE tasks[t].status # "done" /\ ~Owed(t)
    BY <2>1, <2>2, <2>5 DEF Streak
  <2> QED BY <2>3, <2>4, <2>5
<1> QED BY <1>1, <1>2, <1>3, PTL DEF Spec

=============================================================================
