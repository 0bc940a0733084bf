------------------------- MODULE KanbanBoardProofs -------------------------
(***************************************************************************)
(* Theorems about the board, for any set of tasks, any claimers, any limit *)
(* and any selection of operations.                                        *)
(*                                                                         *)
(* RunPointers alone is not inductive: it takes the types to know that a   *)
(* write to one row leaves the others alone, and a word on the rows that   *)
(* do not exist yet.  Nearly every transaction ends the turns of some      *)
(* tasks S (often one task, often none, several for the crash sweep), so   *)
(* that effect is stated once, as TurnsEnd, and each action is shown to    *)
(* have it; only claiming and recording a run after the fact append a row. *)
(***************************************************************************)
EXTENDS KanbanBoard, SequenceTheorems, TLAPS

\* A task that was not created yet has no run.
AbsentIsIdle == \A t \in Tasks : tasks[t].status = "absent" => tasks[t].run = 0

Sound == TypeOK /\ RunPointers /\ AbsentIsIdle

\* The turns of the tasks in S end: their runs are closed, every other open run
\* stays open, and no task starts to run.
TurnsEnd(S) ==
    /\ Len(runs') = Len(runs)
    /\ \A r \in 1..Len(runs) : runs'[r].task = runs[r].task
    /\ \A r \in 1..Len(runs) :
           runs'[r].outcome = "open" <=> Open(r) /\ \A x \in S : tasks[x].run # r
    /\ \A x \in Tasks \ S :
           /\ tasks'[x].run = tasks[x].run
           /\ tasks'[x].status = "running" => tasks[x].status = "running"
    /\ \A x \in S :
           tasks'[x].status # "running" /\ tasks'[x].run \in {0, tasks[x].run}
    /\ \A x \in Tasks : tasks'[x].status = "absent" => tasks[x].status = "absent"

LEMMA RunRows ==
    ASSUME TypeOK, NEW r \in 1..Len(runs)
    PROVE  runs[r] \in RunRow /\ runs[r].task \in Tasks
<1>1. runs[r] \in RunRow
  BY ElementOfSeq DEF TypeOK
<1> QED BY <1>1 DEF RunRow

LEMMA TurnsEndSound ==
    ASSUME Sound, TypeOK', NEW S \in SUBSET Tasks, TurnsEnd(S)
    PROVE  Sound'
<1>1. Len(runs) \in Nat /\ Len(runs') \in Nat
  BY LenProperties DEF Sound, TypeOK
<1>2. \A r \in 1..Len(runs) : runs[r].task \in Tasks
  BY RunRows DEF Sound
<1>3. OpenRunIsCurrent'
  <2> SUFFICES ASSUME NEW r \in 1..Len(runs), runs'[r].outcome = "open"
               PROVE  tasks'[runs'[r].task].run = r
    BY DEF OpenRunIsCurrent, Open, TurnsEnd
  <2>1. Open(r) /\ (\A x \in S : tasks[x].run # r) /\ runs'[r].task = runs[r].task
    BY DEF TurnsEnd
  <2>2. tasks[runs[r].task].run = r
    BY <2>1 DEF Sound, RunPointers, OpenRunIsCurrent
  <2>3. runs[r].task \in Tasks \ S
    BY <1>2, <2>1, <2>2
  <2> QED BY <2>1, <2>2, <2>3 DEF TurnsEnd
<1>4. RunningHasOpenRun'
  <2> SUFFICES ASSUME NEW t \in Tasks, tasks'[t].status = "running"
               PROVE  tasks'[t].run \in 1..Len(runs) /\ runs'[tasks'[t].run].outcome = "open"
    BY DEF RunningHasOpenRun, Open, TurnsEnd
  <2>1. t \in Tasks \ S /\ tasks[t].status = "running" /\ tasks'[t].run = tasks[t].run
    BY DEF TurnsEnd
  <2>2. tasks[t].run \in 1..Len(runs) /\ Open(tasks[t].run)
    BY <2>1 DEF Sound, RunPointers, RunningHasOpenRun
  <2>3. \A x \in S : tasks[x].run # tasks[t].run
    BY <2>1, <2>2, <1>1 DEF Sound, RunPointers, RunBelongsToTask
  <2> QED BY <2>1, <2>2, <2>3 DEF TurnsEnd
<1>5. RunBelongsToTask'
  <2> SUFFICES ASSUME NEW t \in Tasks, tasks'[t].run # 0
               PROVE  tasks'[t].run \in 1..Len(runs) /\ runs'[tasks'[t].run].task = t
    BY DEF RunBelongsToTask, TurnsEnd
  <2>1. tasks'[t].run = tasks[t].run
    BY DEF TurnsEnd
  <2> QED BY <2>1 DEF Sound, RunPointers, RunBelongsToTask, TurnsEnd
<1>6. AbsentIsIdle'
  BY DEF AbsentIsIdle, Sound, TurnsEnd
<1> QED BY <1>3, <1>4, <1>5, <1>6 DEF Sound, RunPointers

----------------------------------------------------------------------------
(* What the row operations of the model return. *)

LEMMA FunctionIsSeq ==
    ASSUME NEW S, NEW n \in Nat, NEW f \in [1..n -> S]
    PROVE  f \in Seq(S) /\ Len(f) = n
  OBVIOUS

LEMMA EndedRow ==
    ASSUME TypeOK, NEW r \in 1..Len(runs), NEW o \in Outcomes
    PROVE  /\ Ended(r, o) \in RunRow
           /\ Ended(r, o).task = runs[r].task
           /\ Ended(r, o).outcome = o
  BY ElementOfSeq DEF TypeOK, RunRow, Ended, RunAge

LEMMA RunEndedSeq ==
    ASSUME TypeOK, NEW r, r # 0 => r \in 1..Len(runs), NEW o \in Outcomes \ {"open"}
    PROVE  /\ RunEnded(r, o) \in Seq(RunRow)
           /\ Len(RunEnded(r, o)) = Len(runs)
           /\ \A q \in 1..Len(runs) :
                  /\ RunEnded(r, o)[q].task = runs[q].task
                  /\ RunEnded(r, o)[q].outcome = "open" <=> Open(q) /\ q # r
<1>1. CASE r # 0 /\ Open(r)
  <2>1. RunEnded(r, o) = [runs EXCEPT ![r] = Ended(r, o)]
    BY <1>1 DEF RunEnded
  <2>2. r \in 1..Len(runs)
    BY <1>1
  <2>3. Ended(r, o) \in RunRow /\ Ended(r, o).task = runs[r].task /\ Ended(r, o).outcome = o
    BY <2>2, EndedRow
  <2> QED BY <2>1, <2>2, <2>3, ExceptSeq DEF TypeOK, Open
<1>2. CASE ~(r # 0 /\ Open(r))
  <2>1. RunEnded(r, o) = runs
    BY <1>2 DEF RunEnded
  <2>2. \A q \in 1..Len(runs) : Open(q) => q # r
    BY <1>2, LenProperties DEF TypeOK
  <2> QED BY <2>1, <2>2 DEF TypeOK, Open
<1> QED BY <1>1, <1>2

----------------------------------------------------------------------------
(* Two shapes of transaction: one row of tasks is written and runs is left
   alone, or the run of that row is ended. *)

LEMMA RowWritten ==
    ASSUME Sound, NEW t \in Tasks, NEW row \in TaskRow, Put(t, row),
           UNCHANGED runs, links' \subseteq Tasks \X Tasks,
           row.run = tasks[t].run,
           row.status = "running" => tasks[t].status = "running",
           row.status = "absent" => tasks[t].status = "absent"
    PROVE  Sound'
<1>1. TypeOK'
  BY DEF Sound, TypeOK, Put
<1>2. TurnsEnd({})
  BY DEF TurnsEnd, Sound, TypeOK, Put, Open
<1> QED BY <1>1, <1>2, TurnsEndSound

LEMMA TurnEnded ==
    ASSUME Sound, NEW t \in Tasks, NEW row \in TaskRow, Put(t, row),
           NEW o \in Outcomes \ {"open"}, runs' = RunEnded(tasks[t].run, o),
           links' \subseteq Tasks \X Tasks,
           row.run \in {0, tasks[t].run}, row.status \notin {"running", "absent"}
    PROVE  Sound'
<1>1. tasks[t].run # 0 => tasks[t].run \in 1..Len(runs)
  BY DEF Sound, RunPointers, RunBelongsToTask
<1>2. /\ runs' \in Seq(RunRow)
      /\ Len(runs') = Len(runs)
      /\ \A q \in 1..Len(runs) :
             /\ runs'[q].task = runs[q].task
             /\ runs'[q].outcome = "open" <=> Open(q) /\ q # tasks[t].run
  BY <1>1, RunEndedSeq DEF Sound
<1>3. TypeOK'
  BY <1>2 DEF Sound, TypeOK, Put
<1>4. TurnsEnd({t})
  BY <1>2 DEF TurnsEnd, Sound, TypeOK, Put, Open
<1> QED BY <1>3, <1>4, TurnsEndSound

LEMMA RowsAreRows ==
    ASSUME TypeOK, NEW t \in Tasks
    PROVE  /\ tasks[t] \in TaskRow
           /\ tasks[t].run \in Nat
           /\ Released(tasks[t]) \in TaskRow
           /\ Released(tasks[t]).run = tasks[t].run
           /\ Released(tasks[t]).status = tasks[t].status
           /\ BackToReady(tasks[t]) \in TaskRow
           /\ BackToReady(tasks[t]).run = 0
           /\ BackToReady(tasks[t]).status = "ready"
  BY DEF TypeOK, TaskRow, Released, BackToReady, Statuses

LEMMA NewRows ==
    ASSUME NEW s \in Statuses
    PROVE  NewRow(s) \in TaskRow /\ NewRow(s).run = 0 /\ NewRow(s).status = s
  BY DEF TaskRow, NewRow, Errors

----------------------------------------------------------------------------
(* The actions *)

LEMMA CreateSound ==
    ASSUME Sound, NEW t \in Tasks, NEW how \in {"", "triage", "park"},
           NEW P \in SUBSET Tasks, CreateTask(t, how, P)
    PROVE  Sound'
<1>1. PICK s \in {"blocked", "triage", "todo", "ready"} : Put(t, NewRow(s))
  BY DEF CreateTask
<1>2. UNCHANGED runs /\ links' = links \union {<<p, t>> : p \in P} /\ tasks[t].run = 0
  BY DEF CreateTask, Sound, AbsentIsIdle
<1>3. links' \subseteq Tasks \X Tasks
  <2>1. \A p \in P : <<p, t>> \in Tasks \X Tasks
    OBVIOUS
  <2> QED BY <1>2, <2>1 DEF Sound, TypeOK
<1>4. NewRow(s) \in TaskRow /\ NewRow(s).run = 0 /\ NewRow(s).status \notin {"running", "absent"}
  BY NewRows DEF Statuses
<1> QED BY <1>1, <1>2, <1>3, <1>4, RowWritten

LEMMA LinkSound ==
    ASSUME Sound, NEW p \in Tasks, NEW c \in Tasks, LinkTasks(p, c)
    PROVE  Sound'
<1> DEFINE row == IF tasks[p].status # "done" /\ tasks[c].status = "ready"
                  THEN [tasks[c] EXCEPT !.status = "todo"] ELSE tasks[c]
<1>1. Put(c, row) /\ UNCHANGED runs /\ links' = links \union {<<p, c>>}
  BY DEF LinkTasks
<1>2. links' \subseteq Tasks \X Tasks
  BY <1>1 DEF Sound, TypeOK
<1>3. row \in TaskRow /\ row.run = tasks[c].run
      /\ (row.status = "running" => tasks[c].status = "running")
      /\ (row.status = "absent" => tasks[c].status = "absent")
  BY RowsAreRows DEF Sound, TaskRow, Statuses
<1> HIDE DEF row
<1> QED BY <1>1, <1>2, <1>3, RowWritten

LEMMA DecomposeSound ==
    ASSUME Sound, NEW t \in Tasks, NEW C \in SUBSET Tasks,
           NEW L \in SUBSET (C \X C), DecomposeTriage(t, C, L)
    PROVE  Sound'
<1>1. /\ tasks[t].status = "triage" /\ \A c \in C : tasks[c].status = "absent"
      /\ tasks' = [x \in Tasks |->
                      IF x \in C THEN NewRow("todo")
                      ELSE IF x = t THEN [tasks[t] EXCEPT !.status = "todo"]
                      ELSE tasks[x]]
      /\ links' = links \union L \union {<<c, t>> : c \in C}
      /\ UNCHANGED runs
  BY DEF DecomposeTriage
<1>2. links' \subseteq Tasks \X Tasks
  <2>1. \A c \in C : <<c, t>> \in Tasks \X Tasks
    OBVIOUS
  <2> QED BY <1>1, <2>1 DEF Sound, TypeOK
<1>3. NewRow("todo") \in TaskRow /\ NewRow("todo").run = 0 /\ NewRow("todo").status = "todo"
  BY NewRows DEF Statuses
<1>4. \A x \in Tasks : [tasks[x] EXCEPT !.status = "todo"] \in TaskRow
  BY RowsAreRows DEF Sound, TaskRow, Statuses
<1>5. TypeOK'
  BY <1>1, <1>2, <1>3, <1>4 DEF Sound, TypeOK
<1>6. TurnsEnd({})
  BY <1>1, <1>3, RowsAreRows DEF TurnsEnd, Sound, TaskRow, Open, AbsentIsIdle
<1> QED BY <1>5, <1>6, TurnsEndSound

\* The writes to one row that leave its run and the runs alone.
KeepsTurn(old, row) ==
    /\ row \in TaskRow /\ row.run = old.run
    /\ row.status = "running" => old.status = "running"
    /\ row.status = "absent" => old.status = "absent"

LEMMA KeptTurn ==
    ASSUME Sound, NEW t \in Tasks, NEW row, Put(t, row), KeepsTurn(tasks[t], row),
           UNCHANGED <<runs, links>>
    PROVE  Sound'
  BY RowWritten DEF KeepsTurn, Sound, TypeOK

\* Fields a transaction writes, and what it writes to them.
LEMMA FieldsWritten ==
    ASSUME NEW row \in TaskRow
    PROVE  /\ \A s \in Statuses \ {"running", "absent"} :
                  KeepsTurn(row, [row EXCEPT !.status = s])
           /\ \A b \in BOOLEAN : KeepsTurn(row, [row EXCEPT !.expired = b])
           /\ \A n \in Nat : KeepsTurn(row, [row EXCEPT !.pid = n])
           /\ \A h \in {"fresh", "old"} : KeepsTurn(row, [row EXCEPT !.hb = h])
           /\ KeepsTurn(row, [row EXCEPT !.started = "past"])
           /\ KeepsTurn(row, [row EXCEPT !.fails = 0, !.err = "none"])
  BY DEF KeepsTurn, TaskRow, Errors

LEMMA FieldSound ==
    ASSUME Sound, NEW t \in Tasks,
           \/ SpecifyTriage(t) \/ AssignTask(t) \/ ClaimRejected(t)
           \/ \E r \in 1..MaxRuns : SetWorkerPid(t, r) \/ HeartbeatWorker(t, r)
           \/ \E l \in Claimers : HeartbeatClaim(t, l) \/ ExtendClaim(t, l)
           \/ ClearFailureCounter(t) \/ PromoteTask(t)
           \/ LeaseLapses(t) \/ HeartbeatAges(t) \/ GraceEnds(t)
    PROVE  Sound'
<1>1. tasks[t] \in TaskRow
  BY RowsAreRows DEF Sound
<1>2. PICK row : Put(t, row) /\ KeepsTurn(tasks[t], row) /\ UNCHANGED <<runs, links>>
  <2>1. CASE SpecifyTriage(t) \/ ClaimRejected(t) \/ PromoteTask(t)
    BY <1>1, <2>1, FieldsWritten DEF SpecifyTriage, ClaimRejected, PromoteTask, Statuses
  <2>2. CASE AssignTask(t) \/ ClearFailureCounter(t)
    BY <1>1, <2>2, FieldsWritten DEF AssignTask, ClearFailureCounter
  <2>3. ASSUME NEW r \in 1..MaxRuns, SetWorkerPid(t, r) \/ HeartbeatWorker(t, r)
        PROVE  \E row : Put(t, row) /\ KeepsTurn(tasks[t], row) /\ UNCHANGED <<runs, links>>
    <3>1. r \in Nat
      BY BoardAssumption
    <3>2. CASE SetWorkerPid(t, r)
      BY <1>1, <3>1, <3>2, FieldsWritten DEF SetWorkerPid
    <3>3. CASE HeartbeatWorker(t, r)
      BY <1>1, <3>3, FieldsWritten DEF HeartbeatWorker
    <3> QED BY <2>3, <3>2, <3>3
  <2>4. CASE (\E l \in Claimers : HeartbeatClaim(t, l) \/ ExtendClaim(t, l)) \/ LeaseLapses(t)
    BY <1>1, <2>4, FieldsWritten DEF HeartbeatClaim, ExtendClaim, LeaseLapses
  <2>5. CASE HeartbeatAges(t) \/ GraceEnds(t)
    BY <1>1, <2>5, FieldsWritten DEF HeartbeatAges, GraceEnds
  <2> QED BY <2>1, <2>2, <2>3, <2>4, <2>5
<1> QED BY <1>2, KeptTurn

LEMMA ClaimSound ==
    ASSUME Sound, NEW t \in Tasks, NEW l \in Claimers, Claimed(t, l)
    PROVE  Sound'
<1> DEFINE closed == RunEnded(tasks[t].run, "reclaimed")
           n == Len(runs) + 1
           row == [tasks[t] EXCEPT
                     !.status = "running", !.lock = l, !.expired = FALSE,
                     !.started = IF @ = "never" THEN "grace" ELSE @, !.run = n]
           run == [task |-> t, outcome |-> "open", age |-> "young"]
<1>1. tasks' = [tasks EXCEPT ![t] = row] /\ runs' = Append(closed, run) /\ UNCHANGED links
      /\ tasks[t].status = "ready"
  BY DEF Claimed, Put, Claimable
<1>2. /\ closed \in Seq(RunRow) /\ Len(closed) = Len(runs)
      /\ \A q \in 1..Len(runs) :
             /\ closed[q].task = runs[q].task
             /\ closed[q].outcome = "open" <=> Open(q) /\ q # tasks[t].run
  <2>1. tasks[t].run # 0 => tasks[t].run \in 1..Len(runs)
    BY DEF Sound, RunPointers, RunBelongsToTask
  <2> QED BY <2>1, RunEndedSeq DEF Outcomes, Sound
<1> HIDE DEF closed
<1>3. run \in RunRow
  BY DEF RunRow, Outcomes
<1>4. /\ runs' \in Seq(RunRow) /\ Len(runs') = n /\ Len(runs) \in Nat
      /\ \A q \in 1..Len(runs) : runs'[q] = closed[q]
      /\ runs'[n] = run
  BY <1>1, <1>2, <1>3 DEF Sound, TypeOK
<1>5. row \in TaskRow /\ row.run = n /\ row.status = "running"
  <2>1. tasks[t] \in TaskRow /\ n \in Nat
    BY <1>4, RowsAreRows DEF Sound
  <2> HIDE DEF n
  <2> QED BY <2>1 DEF TaskRow, Statuses
<1> HIDE DEF row
<1>6. TypeOK'
  BY <1>1, <1>4, <1>5 DEF Sound, TypeOK
<1>7. tasks'[t] = row /\ \A x \in Tasks \ {t} : tasks'[x] = tasks[x]
  BY <1>1 DEF Sound, TypeOK
<1>8. OpenRunIsCurrent'
  <2> SUFFICES ASSUME NEW q \in 1..n, runs'[q].outcome = "open"
               PROVE  tasks'[runs'[q].task].run = q
    BY <1>4 DEF OpenRunIsCurrent, Open
  <2>1. CASE q = n
    BY <2>1, <1>4, <1>5, <1>7
  <2>2. CASE q # n
    <3>1. q \in 1..Len(runs) /\ Open(q) /\ q # tasks[t].run /\ runs'[q].task = runs[q].task
      BY <1>2, <1>4, <2>2
    <3>2. tasks[runs[q].task].run = q /\ runs[q].task \in Tasks
      BY <3>1, RunRows DEF Sound, RunPointers, OpenRunIsCurrent
    <3> QED BY <3>1, <3>2, <1>7
  <2> QED BY <2>1, <2>2
<1>9. RunningHasOpenRun' /\ RunBelongsToTask'
  <2>1. ASSUME NEW x \in Tasks \ {t}, tasks[x].run # 0
        PROVE  /\ tasks[x].run \in 1..Len(runs) /\ runs'[tasks[x].run].task = x
               /\ Open(tasks[x].run) => runs'[tasks[x].run].outcome = "open"
    <3>1. tasks[x].run \in 1..Len(runs) /\ runs[tasks[x].run].task = x /\ tasks[x].run # tasks[t].run
      BY <2>1 DEF Sound, RunPointers, RunBelongsToTask
    <3> QED BY <3>1, <1>2, <1>4
  <2>2. \A x \in Tasks \ {t} : tasks[x].status = "running" =>
            tasks[x].run \in 1..Len(runs) /\ Open(tasks[x].run)
    BY DEF Sound, RunPointers, RunningHasOpenRun
  <2> QED BY <2>1, <2>2, <1>4, <1>5, <1>7 DEF RunningHasOpenRun, RunBelongsToTask, Open
<1>10. AbsentIsIdle'
  BY <1>5, <1>7 DEF AbsentIsIdle, Sound
<1> QED BY <1>6, <1>8, <1>9, <1>10 DEF Sound, RunPointers

\* The transactions that end the run of one row.
LEMMA TurnEndSound ==
    ASSUME Sound, NEW t \in Tasks,
           \/ ClaimLost(t) \/ ArchiveTask(t) \/ UnblockTask(t)
           \/ \E l \in Claimers : ReleaseStaleClaim(t, l) \/ ReclaimTask(t, l)
           \/ YankRunning(t, "stale") \/ YankRunning(t, "timed_out")
    PROVE  Sound'
<1> USE DEF Outcomes
<1>1. tasks[t] \in TaskRow /\ Released(tasks[t]) \in TaskRow
  BY RowsAreRows DEF Sound
<1>2. PICK row \in TaskRow, o \in Outcomes \ {"open"} :
          /\ Put(t, row) /\ row.run \in {0, tasks[t].run} /\ row.status \notin {"running", "absent"}
          /\ runs' = RunEnded(tasks[t].run, o) /\ UNCHANGED links
  <2>1. CASE ClaimLost(t)
    <3>1. Put(t, tasks[t]) /\ tasks[t].status = "ready"
      BY <2>1 DEF ClaimLost, Put, Sound, TypeOK
    <3> QED BY <1>1, <2>1, <3>1 DEF ClaimLost
  <2>2. CASE ArchiveTask(t)
    <3> DEFINE row == [Released(tasks[t]) EXCEPT !.status = "archived", !.run = 0]
    <3>1. row \in TaskRow /\ row.run = 0 /\ row.status = "archived"
      BY <1>1 DEF TaskRow, Statuses
    <3>2. Put(t, row) /\ runs' = RunEnded(tasks[t].run, "reclaimed") /\ UNCHANGED links
      BY <2>2 DEF ArchiveTask
    <3> QED BY <3>1, <3>2
  <2>3. CASE UnblockTask(t)
    <3> DEFINE row == [tasks[t] EXCEPT
                         !.status = IF ParentsDone(t) THEN "ready" ELSE "todo",
                         !.run = 0, !.fails = 0, !.err = "none", !.sticky = FALSE]
    <3>1. row \in TaskRow /\ row.run = 0 /\ row.status \in {"ready", "todo"}
      BY <1>1 DEF TaskRow, Statuses, Errors
    <3>2. Put(t, row) /\ runs' = RunEnded(tasks[t].run, "reclaimed") /\ UNCHANGED links
      BY <2>3 DEF UnblockTask
    <3> QED BY <3>1, <3>2
  <2>4. CASE \E l \in Claimers : ReleaseStaleClaim(t, l) \/ ReclaimTask(t, l)
    BY <2>4, RowsAreRows DEF ReleaseStaleClaim, ReclaimTask, Sound
  <2>5. CASE YankRunning(t, "stale") \/ YankRunning(t, "timed_out")
    <3> DEFINE row == [BackToReady(tasks[t]) EXCEPT !.hb = "none"]
    <3>1. row \in TaskRow /\ row.run = 0 /\ row.status = "ready"
      BY RowsAreRows DEF TaskRow, Sound
    <3>2. Put(t, row) /\ UNCHANGED links
      BY <2>5 DEF YankRunning
    <3>3. PICK o \in {"stale", "timed_out"} : runs' = RunEnded(tasks[t].run, o)
      BY <2>5 DEF YankRunning
    <3> HIDE DEF row
    <3> QED BY <3>1, <3>2, <3>3
  <2> QED BY <2>1, <2>2, <2>3, <2>4, <2>5
<1>3. links' \subseteq Tasks \X Tasks
  BY <1>2 DEF Sound, TypeOK
<1> QED BY <1>2, <1>3, TurnEnded

\* A run that is recorded after the fact is closed from the start.
LEMMA RecordedSound ==
    ASSUME Sound, NEW t \in Tasks, NEW row \in TaskRow, Put(t, row),
           NEW o \in Outcomes \ {"open"}, NEW age \in {"young", "old"},
           runs' = Append(runs, [task |-> t, outcome |-> o, age |-> age]),
           tasks[t].run = 0, row.run = 0, row.status \notin {"running", "absent"},
           UNCHANGED links
    PROVE  Sound'
<1> DEFINE run == [task |-> t, outcome |-> o, age |-> age]
<1>1. run \in RunRow /\ run.outcome # "open"
  BY DEF RunRow
<1>2. /\ runs' \in Seq(RunRow) /\ Len(runs) \in Nat /\ Len(runs') = Len(runs) + 1
      /\ \A q \in 1..Len(runs) : runs'[q] = runs[q]
      /\ runs'[Len(runs) + 1] = run
  BY <1>1 DEF Sound, TypeOK
<1>3. TypeOK'
  BY <1>2 DEF Sound, TypeOK, Put
<1>4. tasks'[t] = row /\ \A x \in Tasks \ {t} : tasks'[x] = tasks[x]
  BY DEF Sound, TypeOK, Put
<1>5. OpenRunIsCurrent'
  <2> SUFFICES ASSUME NEW q \in 1..(Len(runs) + 1), runs'[q].outcome = "open"
               PROVE  tasks'[runs'[q].task].run = q
    BY <1>2 DEF OpenRunIsCurrent, Open
  <2>1. q \in 1..Len(runs) /\ runs'[q] = runs[q]
    BY <1>1, <1>2
  <2>2. tasks[runs[q].task].run = q /\ runs[q].task \in Tasks
    BY <2>1, RunRows DEF Sound, RunPointers, OpenRunIsCurrent, Open
  <2>3. runs[q].task # t
    BY <2>1, <2>2, <1>2
  <2> QED BY <2>1, <2>2, <2>3, <1>4
<1>6. RunningHasOpenRun' /\ RunBelongsToTask'
  <2>1. \A x \in Tasks \ {t} : tasks[x].run # 0 =>
            tasks[x].run \in 1..Len(runs) /\ runs[tasks[x].run].task = x
    BY DEF Sound, RunPointers, RunBelongsToTask
  <2>2. \A x \in Tasks \ {t} : tasks[x].status = "running" =>
            tasks[x].run \in 1..Len(runs) /\ runs[tasks[x].run].outcome = "open"
    BY DEF Sound, RunPointers, RunningHasOpenRun, Open
  <2> QED BY <2>1, <2>2, <1>2, <1>4 DEF RunningHasOpenRun, RunBelongsToTask, Open
<1>7. AbsentIsIdle'
  BY <1>4 DEF AbsentIsIdle, Sound
<1> QED BY <1>3, <1>5, <1>6, <1>7 DEF Sound, RunPointers

LEMMA FinishedRow ==
    ASSUME NEW row \in TaskRow, NEW s \in Statuses, NEW b \in BOOLEAN
    PROVE  LET end == [row EXCEPT !.status = s, !.run = 0, !.sticky = b]
           IN end \in TaskRow /\ end.run = 0 /\ end.status = s
  BY DEF TaskRow

LEMMA FinishSound ==
    ASSUME Sound, NEW t \in Tasks, NEW r, NEW from,
           NEW s \in {"done", "blocked", "scheduled"},
           NEW o \in {"completed", "blocked", "scheduled"},
           NEW handoff \in BOOLEAN, Finish(t, r, from, s, o, handoff)
    PROVE  Sound'
<1> DEFINE sticky == Released(tasks[t]).sticky \/ s = "blocked"
           row == [Released(tasks[t]) EXCEPT !.status = s, !.run = 0, !.sticky = sticky]
<1>1. Put(t, row) /\ runs' = RunEndedOrSynthesized(t, o, handoff) /\ UNCHANGED links
  BY DEF Finish
<1>2. row \in TaskRow /\ row.run = 0 /\ row.status = s
  <2>1. sticky \in BOOLEAN
    OBVIOUS
  <2>2. Released(tasks[t]) \in TaskRow /\ s \in Statuses
    BY RowsAreRows DEF Sound, Statuses
  <2> HIDE DEF sticky
  <2> QED BY <2>1, <2>2, FinishedRow, Zenon
<1>3. o \in Outcomes \ {"open"} /\ row.status \notin {"running", "absent"}
  BY <1>2 DEF Outcomes
<1> HIDE DEF row
<1>4. CASE tasks[t].run = 0 /\ handoff
  <2>1. runs' = Append(runs, [task |-> t, outcome |-> o, age |-> RunAge(o)])
    BY <1>1, <1>4 DEF RunEndedOrSynthesized
  <2>2. RunAge(o) \in {"young", "old"}
    BY DEF RunAge
  <2> QED BY <1>1, <1>2, <1>3, <1>4, <2>1, <2>2, RecordedSound
<1>5. CASE ~(tasks[t].run = 0 /\ handoff)
  <2>1. runs' = RunEnded(tasks[t].run, o)
    BY <1>1, <1>5 DEF RunEndedOrSynthesized
  <2>2. links' \subseteq Tasks \X Tasks
    BY <1>1 DEF Sound, TypeOK
  <2> QED BY <1>1, <1>2, <1>3, <2>1, <2>2, TurnEnded
<1> QED BY <1>4, <1>5

LEMMA FailedRow ==
    ASSUME NEW row \in TaskRow, NEW s \in Statuses, NEW why \in Errors
    PROVE  LET failed == [row EXCEPT !.status = s, !.fails = @ + 1, !.err = why]
           IN failed \in TaskRow /\ failed.run = row.run /\ failed.status = s
<1>1. row.fails + 1 \in Nat
  BY DEF TaskRow
<1>2. [row EXCEPT !.status = s, !.fails = row.fails + 1, !.err = why] \in TaskRow
  BY <1>1 DEF TaskRow
<1> QED BY <1>2 DEF TaskRow

LEMMA RecordFailureSound ==
    ASSUME Sound, NEW t \in Tasks, NEW n \in Int, NEW held \in BOOLEAN,
           NEW why \in Errors, NEW o \in Outcomes \ {"open"},
           RecordFailure(t, n, held, why, o)
    PROVE  Sound'
<1> DEFINE old == tasks[t]
           kept == IF held THEN Released(old) ELSE old
           status == IF Trips(t, n) THEN "blocked" ELSE IF held THEN "ready" ELSE old.status
           counted == IF Matches(t, n, held)
                      THEN [kept EXCEPT !.status = status, !.fails = @ + 1, !.err = why]
                      ELSE old
           row == [counted EXCEPT !.run = IF held THEN 0 ELSE @]
           verdict == IF Trips(t, n) THEN "gave_up" ELSE o
<1>1. /\ Put(t, row) /\ UNCHANGED links /\ Present(t)
      /\ runs' = IF held THEN RunEnded(old.run, verdict) ELSE runs
  BY DEF RecordFailure
<1>2. old \in TaskRow /\ kept \in TaskRow /\ kept.run = old.run
  BY RowsAreRows DEF Sound
<1>3. status \in Statuses
  BY <1>2 DEF Statuses, TaskRow
<1>4. counted \in TaskRow /\ counted.run = old.run
      /\ counted.status = IF Matches(t, n, held) THEN status ELSE old.status
  <2>1. CASE Matches(t, n, held)
    <3> DEFINE failed == [kept EXCEPT !.status = status, !.fails = @ + 1, !.err = why]
    <3>1. counted = failed
      BY <2>1
    <3> HIDE DEF counted, kept, status, old
    <3>2. failed \in TaskRow /\ failed.run = kept.run /\ failed.status = status
      BY <1>2, <1>3, FailedRow
    <3> HIDE DEF failed
    <3> QED BY <1>2, <2>1, <3>1, <3>2
  <2>2. CASE ~Matches(t, n, held)
    BY <1>2, <2>2
  <2> QED BY <2>1, <2>2
<1>5. row \in TaskRow /\ row.run = (IF held THEN 0 ELSE old.run) /\ row.status = counted.status
  <2> HIDE DEF counted, old
  <2> QED BY <1>2, <1>4 DEF TaskRow
<1>6. links' \subseteq Tasks \X Tasks
  BY <1>1 DEF Sound, TypeOK
<1>7. CASE held
  <2>1. row.status \notin {"running", "absent"}
    BY <1>1, <1>4, <1>5, <1>7 DEF Matches, Present
  <2>2. runs' = RunEnded(tasks[t].run, verdict) /\ verdict \in Outcomes \ {"open"}
    BY <1>1, <1>7 DEF Outcomes
  <2> HIDE DEF row, verdict
  <2> QED BY <1>1, <1>5, <1>6, <1>7, <2>1, <2>2, TurnEnded
<1>8. CASE ~held
  <2>1. (row.status = "running" => old.status = "running") /\ row.status # "absent"
    BY <1>1, <1>4, <1>5, <1>8 DEF Present
  <2> HIDE DEF row
  <2> QED BY <1>1, <1>5, <1>6, <1>8, <2>1, RowWritten
<1> QED BY <1>7, <1>8

LEMMA DetectCrashedSound ==
    ASSUME Sound, NEW dead, NEW throttled, DetectCrashed(dead, throttled)
    PROVE  Sound'
<1> DEFINE Hit(r) == Open(r) /\ \E t \in dead : tasks[t].run = r
           after(r) == IF Hit(r)
                       THEN Ended(r, IF runs[r].task \in throttled
                                     THEN "rate_limited" ELSE "crashed")
                       ELSE runs[r]
           row(t) == IF t \in throttled THEN [BackToReady(tasks[t]) EXCEPT !.err = "blocker"]
                     ELSE IF t \in dead THEN BackToReady(tasks[t]) ELSE tasks[t]
<1>1. /\ dead \subseteq Tasks /\ throttled \subseteq dead
      /\ tasks' = [t \in Tasks |-> row(t)] /\ runs' = [r \in 1..Len(runs) |-> after(r)]
      /\ UNCHANGED links
  BY DEF DetectCrashed, CrashCandidates
<1>2. \A r \in 1..Len(runs) :
          /\ after(r) \in RunRow /\ after(r).task = runs[r].task
          /\ after(r).outcome = "open" <=> Open(r) /\ ~Hit(r)
  <2> TAKE r \in 1..Len(runs)
  <2>1. CASE Hit(r)
    <3>1. PICK o \in {"rate_limited", "crashed"} : after(r) = Ended(r, o)
      BY <2>1
    <3> QED BY <2>1, <3>1, EndedRow DEF Sound, Outcomes
  <2>2. CASE ~Hit(r)
    BY <2>2, RunRows DEF Sound, Open
  <2> QED BY <2>1, <2>2
<1>3. \A t \in Tasks :
          /\ row(t) \in TaskRow
          /\ t \in dead => row(t).run = 0 /\ row(t).status = "ready"
          /\ t \notin dead => row(t) = tasks[t]
  <2> TAKE t \in Tasks
  <2>1. /\ tasks[t] \in TaskRow /\ BackToReady(tasks[t]) \in TaskRow
        /\ BackToReady(tasks[t]).run = 0 /\ BackToReady(tasks[t]).status = "ready"
    BY RowsAreRows DEF Sound
  <2> QED BY <1>1, <2>1 DEF TaskRow, Errors
<1> HIDE DEF after, row
<1>4. Len(runs) \in Nat /\ runs' \in Seq(RunRow) /\ Len(runs') = Len(runs)
  <2>1. Len(runs) \in Nat
    BY DEF Sound, TypeOK
  <2>2. runs' \in [1..Len(runs) -> RunRow]
    BY <1>1, <1>2
  <2> QED BY <2>1, <2>2, FunctionIsSeq
<1>5. TypeOK'
  BY <1>1, <1>3, <1>4 DEF Sound, TypeOK
<1>6. TurnsEnd(dead)
  BY <1>1, <1>2, <1>3, <1>4 DEF TurnsEnd, Open
<1> QED BY <1>1, <1>5, <1>6, TurnsEndSound

LEMMA DeleteSound ==
    ASSUME Sound, NEW t \in Tasks, DeleteTask(t)
    PROVE  Sound'
<1> DEFINE after(r) == IF runs[r].task = t THEN Ended(r, "deleted") ELSE runs[r]
<1>1. /\ Put(t, NewRow("deleted")) /\ runs' = [r \in 1..Len(runs) |-> after(r)]
      /\ links' \subseteq links
  BY DEF DeleteTask
<1>2. NewRow("deleted") \in TaskRow /\ NewRow("deleted").run = 0
      /\ NewRow("deleted").status = "deleted"
  BY NewRows DEF Statuses
<1>3. \A r \in 1..Len(runs) :
          /\ after(r) \in RunRow /\ after(r).task = runs[r].task
          /\ after(r).outcome = "open" <=> Open(r) /\ runs[r].task # t
  <2> TAKE r \in 1..Len(runs)
  <2>1. CASE runs[r].task = t
    BY <2>1, EndedRow DEF Sound, Outcomes
  <2>2. CASE runs[r].task # t
    BY <2>2, RunRows DEF Sound, Open
  <2> QED BY <2>1, <2>2
<1>4. \A r \in 1..Len(runs) : Open(r) => (runs[r].task # t <=> tasks[t].run # r)
  <2> SUFFICES ASSUME NEW r \in 1..Len(runs), Open(r)
               PROVE  runs[r].task # t <=> tasks[t].run # r
    OBVIOUS
  <2>1. tasks[runs[r].task].run = r
    BY DEF Sound, RunPointers, OpenRunIsCurrent
  <2>2. r # 0
    BY DEF Sound, TypeOK
  <2> QED BY <2>1, <2>2 DEF Sound, RunPointers, RunBelongsToTask
<1> HIDE DEF after
<1>5. Len(runs) \in Nat /\ runs' \in Seq(RunRow) /\ Len(runs') = Len(runs)
  <2>1. Len(runs) \in Nat
    BY DEF Sound, TypeOK
  <2>2. runs' \in [1..Len(runs) -> RunRow]
    BY <1>1, <1>3
  <2> QED BY <2>1, <2>2, FunctionIsSeq
<1>6. TypeOK'
  BY <1>1, <1>2, <1>5 DEF Sound, TypeOK, Put
<1>7. TurnsEnd({t})
  BY <1>1, <1>2, <1>3, <1>4, <1>5 DEF TurnsEnd, Open, Put, Sound, TypeOK
<1> QED BY <1>6, <1>7, TurnsEndSound

\* Rows of several tasks are written, none of their runs and no run.
LEMMA RowsWritten ==
    ASSUME Sound, UNCHANGED runs, links' \subseteq Tasks \X Tasks,
           tasks' \in [Tasks -> TaskRow],
           \A x \in Tasks : KeepsTurn(tasks[x], tasks'[x])
    PROVE  Sound'
<1>1. TypeOK'
  BY DEF Sound, TypeOK
<1>2. TurnsEnd({})
  BY DEF TurnsEnd, Sound, TypeOK, Open, KeepsTurn
<1> QED BY <1>1, <1>2, TurnsEndSound

LEMMA RowKept ==
    ASSUME Sound, NEW x \in Tasks
    PROVE  /\ KeepsTurn(tasks[x], tasks[x])
           /\ \A s \in {"todo", "ready"} : KeepsTurn(tasks[x], [tasks[x] EXCEPT !.status = s])
<1>1. tasks[x] \in TaskRow
  BY RowsAreRows DEF Sound
<1>2. \A s \in Statuses \ {"running", "absent"} :
          KeepsTurn(tasks[x], [tasks[x] EXCEPT !.status = s])
  BY <1>1, FieldsWritten
<1> QED BY <1>1, <1>2 DEF KeepsTurn, Statuses

LEMMA RecomputeSound ==
    ASSUME Sound, NEW n \in Int, RecomputeReady(n)
    PROVE  Sound'
<1>1. \A x \in Tasks : KeepsTurn(tasks[x], tasks'[x])
  BY RowKept DEF RecomputeReady
<1>2. tasks' \in [Tasks -> TaskRow]
  BY <1>1 DEF RecomputeReady, KeepsTurn
<1> QED BY <1>1, <1>2, RowsWritten DEF RecomputeReady, Sound, TypeOK

LEMMA MoveSound ==
    ASSUME Sound, NEW t \in Tasks, NEW s \in {"triage", "todo", "ready"}, MoveCard(t, s)
    PROVE  Sound'
<1> DEFINE leaves == tasks[t].status = "running"
           reopened == tasks[t].status \in {"done", "archived"}
           moved == [Released(tasks[t]) EXCEPT !.status = s, !.run = IF leaves THEN 0 ELSE @]
           row(x) == IF x = t THEN moved
                     ELSE IF reopened /\ <<t, x>> \in links /\ tasks[x].status = "ready"
                     THEN [tasks[x] EXCEPT !.status = "todo"] ELSE tasks[x]
<1>1. /\ tasks' = [x \in Tasks |-> row(x)] /\ UNCHANGED links
      /\ runs' = IF leaves THEN RunEnded(tasks[t].run, "reclaimed") ELSE runs
  BY DEF MoveCard
<1>2. moved \in TaskRow /\ moved.run = (IF leaves THEN 0 ELSE tasks[t].run) /\ moved.status = s
  <2>1. Released(tasks[t]) \in TaskRow /\ Released(tasks[t]).run = tasks[t].run
    BY RowsAreRows DEF Sound
  <2>2. CASE leaves
    BY <2>1, <2>2 DEF TaskRow, Statuses
  <2>3. CASE ~leaves
    BY <2>1, <2>3 DEF TaskRow, Statuses
  <2> QED BY <2>2, <2>3
<1> HIDE DEF moved
<1>3. \A x \in Tasks \ {t} : KeepsTurn(tasks[x], row(x))
  BY RowKept
<1>4. \A x \in Tasks : row(x) \in TaskRow
  BY <1>2, <1>3 DEF KeepsTurn
<1>5. CASE ~leaves
  <2>1. KeepsTurn(tasks[t], row(t))
    BY <1>2, <1>5 DEF KeepsTurn
  <2> HIDE DEF row
  <2> QED BY <1>1, <1>3, <1>4, <1>5, <2>1, RowsWritten DEF Sound, TypeOK
<1>6. CASE leaves
  <2>1. /\ runs' \in Seq(RunRow) /\ Len(runs') = Len(runs)
        /\ \A q \in 1..Len(runs) :
               /\ runs'[q].task = runs[q].task
               /\ runs'[q].outcome = "open" <=> Open(q) /\ q # tasks[t].run
    <3>1. tasks[t].run # 0 => tasks[t].run \in 1..Len(runs)
      BY DEF Sound, RunPointers, RunBelongsToTask
    <3> QED BY <1>1, <1>6, <3>1, RunEndedSeq DEF Sound, Outcomes
  <2>2. row(t) = moved
    OBVIOUS
  <2> HIDE DEF row
  <2>3. TypeOK'
    BY <1>1, <1>4, <2>1 DEF Sound, TypeOK
  <2>4. TurnsEnd({t})
    BY <1>1, <1>2, <1>3, <1>6, <2>1, <2>2 DEF TurnsEnd, Open, KeepsTurn
  <2> QED BY <2>3, <2>4, TurnsEndSound
<1> QED BY <1>5, <1>6

LEMMA RunAgesSound ==
    ASSUME Sound, NEW r \in 1..Len(runs), RunAges(r)
    PROVE  Sound'
<1> DEFINE run == [runs[r] EXCEPT !.age = "old"]
<1>1. runs' = [runs EXCEPT ![r] = run] /\ UNCHANGED <<tasks, links>>
  BY DEF RunAges
<1>2. run \in RunRow /\ run.task = runs[r].task /\ run.outcome = runs[r].outcome
  BY RunRows DEF Sound, RunRow
<1> HIDE DEF run
<1>3. /\ runs' \in Seq(RunRow) /\ Len(runs') = Len(runs)
      /\ \A q \in 1..Len(runs) : runs'[q] = IF q = r THEN run ELSE runs[q]
  BY <1>1, <1>2, ExceptSeq DEF Sound, TypeOK
<1>4. TypeOK'
  BY <1>1, <1>3 DEF Sound, TypeOK
<1>5. TurnsEnd({})
  BY <1>1, <1>2, <1>3 DEF TurnsEnd, Open
<1> QED BY <1>4, <1>5, TurnsEndSound

LEMMA UnlinkSound ==
    ASSUME Sound, NEW p \in Tasks, NEW c \in Tasks, UnlinkTasks(p, c)
    PROVE  Sound'
<1>1. \A x \in Tasks : KeepsTurn(tasks[x], tasks'[x])
  BY RowKept DEF UnlinkTasks
<1> QED BY <1>1, RowsWritten DEF UnlinkTasks, Sound, TypeOK

----------------------------------------------------------------------------
(* The specification *)

LEMMA InitSound == BoardInit => Sound
<1> SUFFICES ASSUME BoardInit PROVE Sound
  OBVIOUS
<1>1. runs = <<>> /\ links = InitialLinks
      /\ tasks = [t \in Tasks |->
                     IF t \notin Initial THEN NewRow("absent")
                     ELSE IF \E p \in Tasks : <<p, t>> \in InitialLinks
                     THEN NewRow("todo") ELSE NewRow("ready")]
  BY DEF BoardInit
<1>2. \A s \in {"absent", "todo", "ready"} :
          NewRow(s) \in TaskRow /\ NewRow(s).run = 0 /\ NewRow(s).status = s
  BY NewRows DEF Statuses
<1>3. TypeOK
  BY <1>1, <1>2, BoardAssumption DEF TypeOK
<1>4. \A t \in Tasks : tasks[t].run = 0 /\ tasks[t].status # "running"
  BY <1>1, <1>2
<1>5. OpenRunIsCurrent
  <2>1. 1..Len(runs) = {}
    BY <1>1
  <2> QED BY <2>1 DEF OpenRunIsCurrent
<1> QED BY <1>3, <1>4, <1>5
  DEF Sound, RunPointers, RunningHasOpenRun, RunBelongsToTask, AbsentIsIdle

\* The two ways _record_task_failure is called.
LEMMA FailureSound ==
    ASSUME Sound, NEW t \in Tasks, NEW n \in Int, NEW why \in Errors,
           NEW o \in Outcomes \ {"open"},
           RecordFailure(t, n, TRUE, why, o) \/ RecordFailure(t, n, FALSE, why, o)
    PROVE  Sound'
  BY RecordFailureSound, Zenon

LEMMA EngineSound ==
    ASSUME Sound, NEW t \in Tasks, EngineStep(t)
    PROVE  Sound'
<1>1. CASE \E l \in Claimers : ClaimTask(t, l)
  BY <1>1, FieldSound, ClaimSound, TurnEndSound DEF ClaimTask
<1>2. CASE \E r \in 1..MaxRuns : SetWorkerPid(t, r) \/ HeartbeatWorker(t, r)
  BY <1>2, FieldSound
<1>3. CASE \E why \in {"plain", "blocker"} :
               RecordFailure(t, FailureLimit, TRUE, why, "spawn_failed")
  <2>1. FailureLimit \in Int /\ "spawn_failed" \in Outcomes \ {"open"}
    BY BoardAssumption DEF Outcomes
  <2>2. \A why \in {"plain", "blocker"} : why \in Errors
    BY DEF Errors
  <2> QED BY <1>3, <2>1, <2>2, FailureSound, Zenon
<1>4. CASE \E l \in Claimers : HeartbeatClaim(t, l) \/ ExtendClaim(t, l)
  BY <1>4, FieldSound
<1>5. CASE \E l \in Claimers : ReleaseStaleClaim(t, l)
  BY <1>5, TurnEndSound
<1>6. CASE YankRunning(t, "stale") \/ YankRunning(t, "timed_out")
  BY <1>6, TurnEndSound
<1>7. CASE \E n \in {1, DefaultFailureLimit} : RecordFailure(t, n, FALSE, "plain", "crashed")
  <2>1. \A n \in {1, DefaultFailureLimit} : n \in Int
    BY DEF DefaultFailureLimit
  <2>2. "plain" \in Errors /\ "crashed" \in Outcomes \ {"open"}
    BY DEF Errors, Outcomes
  <2> QED BY <1>7, <2>1, <2>2, FailureSound, Zenon
<1>8. CASE RecordFailure(t, DefaultFailureLimit, TRUE, "plain", "timed_out")
  <2>1. DefaultFailureLimit \in Int /\ "plain" \in Errors /\ "timed_out" \in Outcomes \ {"open"}
    BY DEF DefaultFailureLimit, Errors, Outcomes
  <2> QED BY <1>8, <2>1, FailureSound, Zenon
<1>9. CASE \E r \in 1..MaxRuns, handoff \in BOOLEAN :
               CompleteTask(t, r, handoff) \/ BlockTask(t, r, handoff)
  BY <1>9, FinishSound DEF CompleteTask, BlockTask
<1> QED BY <1>1, <1>2, <1>3, <1>4, <1>5, <1>6, <1>7, <1>8, <1>9 DEF EngineStep

LEMMA OperatorSound ==
    ASSUME Sound, NEW t \in Tasks, OperatorStep(t)
    PROVE  Sound'
<1>1. CASE \E P \in SUBSET Tasks, how \in {"", "triage", "park"} : CreateTask(t, how, P)
  BY <1>1, CreateSound
<1>2. CASE \E c \in Tasks : LinkTasks(t, c) \/ UnlinkTasks(t, c)
  BY <1>2, LinkSound, UnlinkSound
<1>3. CASE AssignTask(t) \/ PromoteTask(t) \/ SpecifyTriage(t) \/ ClearFailureCounter(t)
  BY <1>3, FieldSound
<1>4. CASE UnblockTask(t) \/ ArchiveTask(t) \/ \E l \in Claimers : ReclaimTask(t, l)
  BY <1>4, TurnEndSound
<1>5. CASE \E C \in SUBSET Tasks : \E L \in SUBSET (C \X C) : DecomposeTriage(t, C, L)
  BY <1>5, DecomposeSound
<1>6. CASE DeleteArchivedTask(t) \/ DeleteTask(t)
  BY <1>6, DeleteSound DEF DeleteArchivedTask
<1>7. CASE \E s \in {"triage", "todo", "ready"} : MoveCard(t, s)
  BY <1>7, MoveSound
<1>8. CASE \E handoff \in BOOLEAN :
               ScheduleTask(t, handoff) \/ CompleteTask(t, 0, handoff) \/ BlockTask(t, 0, handoff)
  BY <1>8, FinishSound DEF ScheduleTask, CompleteTask, BlockTask
<1> QED BY <1>1, <1>2, <1>3, <1>4, <1>5, <1>6, <1>7, <1>8 DEF OperatorStep

LEMMA StepSound == Sound /\ [BoardNext]_boardVars => Sound'
<1> SUFFICES ASSUME Sound, [BoardNext]_boardVars PROVE Sound'
  OBVIOUS
<1>1. CASE \E t \in Tasks : EngineStep(t) \/ OperatorStep(t)
  BY <1>1, EngineSound, OperatorSound
<1>2. CASE BoardStep
  BY <1>2, DetectCrashedSound, RecomputeSound, BoardAssumption DEF BoardStep, DefaultFailureLimit
<1>3. CASE Clock
  BY <1>3, FieldSound, RunAgesSound DEF Clock
<1>4. CASE UNCHANGED boardVars
  BY <1>4 DEF boardVars, Sound, TypeOK, RunPointers, OpenRunIsCurrent, Open,
              RunningHasOpenRun, RunBelongsToTask, AbsentIsIdle
<1> QED BY <1>1, <1>2, <1>3, <1>4 DEF BoardNext

\* The inductive invariant: on every board, whatever the operations and their
\* order, the rows are well formed and no attempt is lost or shared.
THEOREM BoardSound == BoardSpec => []Sound
<1> QED BY InitSound, StepSound, PTL DEF BoardSpec

\* Every transaction writes rows of the schema's types.
THEOREM BoardTypes == BoardSpec => []TypeOK
<1>1. Sound => TypeOK
  BY DEF Sound
<1> QED BY <1>1, BoardSound, PTL

\* current_run_id and task_runs agree: an open run is its task's current one, a
\* running task has one, and no pointer names the run of another task.
THEOREM BoardRunPointers == BoardSpec => []RunPointers
<1>1. Sound => RunPointers
  BY DEF Sound
<1> QED BY <1>1, BoardSound, PTL

=============================================================================
