------------------------ MODULE KanbanLedgerProofs ------------------------
(***************************************************************************)
(* The board implements RunLedger: whatever the order of the transactions, *)
(* attempts are started, closed, recorded and erased as the ledger allows. *)
(*                                                                         *)
(* The ledger speaks of all open attempts of a task, the code only of the  *)
(* one current_run_id points at.  RunPointers is what makes them the same, *)
(* so the step theorem is proved under the inductive invariant Sound.      *)
(***************************************************************************)
EXTENDS KanbanBoardProofs

Verdicts == Outcomes \ {"open", "deleted"}

AttemptOf(run) == [task |-> run.task, outcome |-> run.outcome]

AttemptsOf(rows) == [r \in 1..Len(rows) |-> AttemptOf(rows[r])]

LEMMA AttemptFields ==
    ASSUME NEW run
    PROVE  AttemptOf(run).task = run.task /\ AttemptOf(run).outcome = run.outcome
  BY DEF AttemptOf

LEMMA SameAttempt ==
    ASSUME NEW run, NEW run2, run.task = run2.task, run.outcome = run2.outcome
    PROVE  AttemptOf(run) = AttemptOf(run2)
  BY DEF AttemptOf

LEMMA AttemptRows ==
    ASSUME NEW rows \in Seq(RunRow)
    PROVE  /\ AttemptsOf(rows) \in Seq(Ledger!Attempt) /\ Len(AttemptsOf(rows)) = Len(rows)
           /\ Len(rows) \in Nat
           /\ \A r \in 1..Len(rows) : AttemptsOf(rows)[r] = AttemptOf(rows[r])
<1>1. Len(rows) \in Nat
  BY LenProperties
<1>2. \A r \in 1..Len(rows) : AttemptOf(rows[r]) \in Ledger!Attempt
  <2> TAKE r \in 1..Len(rows)
  <2>1. rows[r] \in RunRow
    BY ElementOfSeq
  <2> QED BY <2>1 DEF RunRow, AttemptOf, Ledger!Attempt
<1>3. AttemptsOf(rows) \in [1..Len(rows) -> Ledger!Attempt]
  BY <1>2 DEF AttemptsOf
<1> QED BY <1>1, <1>3, FunctionIsSeq DEF AttemptsOf

LEMMA AttemptsAre == Attempts = AttemptsOf(runs)
  BY DEF Attempts, AttemptsOf, AttemptOf

LEMMA AttemptsBecome == Attempts' = AttemptsOf(runs')
  BY DEF Attempts, AttemptsOf, AttemptOf

\* Runs are closed with a verdict, and nothing else happens to them.
RunsClosed(new) ==
    /\ Len(new) = Len(runs)
    /\ \A r \in 1..Len(runs) :
           /\ new[r].task = runs[r].task
           /\ \/ new[r].outcome = runs[r].outcome
              \/ Open(r) /\ new[r].outcome \in Verdicts

\* Then the ledger closes the attempts that are no longer open.
LEMMA ClosedInLedger ==
    ASSUME TypeOK, TypeOK', RunsClosed(runs')
    PROVE  Ledger!Close
<1> DEFINE A == {r \in 1..Len(runs) : Open(r) /\ runs'[r].outcome # "open"}
<1>1. /\ Attempts \in Seq(Ledger!Attempt) /\ Len(Attempts) = Len(runs)
      /\ \A r \in 1..Len(runs) : Attempts[r] = AttemptOf(runs[r])
  BY AttemptRows, AttemptsAre DEF TypeOK
<1>2. /\ Attempts' \in Seq(Ledger!Attempt) /\ Len(Attempts') = Len(runs)
      /\ \A r \in 1..Len(runs) : Attempts'[r] = AttemptOf(runs'[r])
  BY AttemptRows, AttemptsBecome DEF TypeOK, RunsClosed
<1>3. A \subseteq {r \in 1..Len(Attempts) : Ledger!IsOpen(r)}
  BY <1>1, AttemptFields DEF Ledger!IsOpen, Open
<1>4. ASSUME NEW r \in 1..Len(runs)
      PROVE  /\ Attempts'[r].task = Attempts[r].task
             /\ r \in A => Attempts'[r].outcome \in Verdicts
             /\ r \notin A => Attempts'[r] = Attempts[r]
  <2>1. Attempts[r] = AttemptOf(runs[r]) /\ Attempts'[r] = AttemptOf(runs'[r])
    BY <1>1, <1>2
  <2>2. runs'[r].task = runs[r].task
    BY DEF RunsClosed
  <2>3. r \in A => runs'[r].outcome \in Verdicts
    BY DEF RunsClosed, Open
  <2>4. r \notin A => runs'[r].outcome = runs[r].outcome
    BY DEF RunsClosed, Open, Verdicts
  <2> QED BY <2>1, <2>2, <2>3, <2>4, AttemptFields, SameAttempt
<1> HIDE DEF A
<1>5. Ledger!Closed(A, Attempts')
  BY <1>1, <1>2, <1>3, <1>4 DEF Ledger!Closed, Verdicts
<1> QED BY <1>1, <1>3, <1>5 DEF Ledger!Close

----------------------------------------------------------------------------
(* Transactions that leave the runs alone or close some of them *)

LEMMA RunEndedCloses ==
    ASSUME Sound, NEW t \in Tasks, NEW o \in Verdicts
    PROVE  RunsClosed(RunEnded(tasks[t].run, o))
<1> DEFINE r == tasks[t].run
<1>1. CASE r # 0 /\ Open(r)
  <2>1. RunEnded(r, o) = [runs EXCEPT ![r] = Ended(r, o)]
    BY <1>1 DEF RunEnded
  <2>2. r \in 1..Len(runs)
    BY <1>1 DEF Sound, RunPointers, RunBelongsToTask
  <2>3. o \in Outcomes
    BY DEF Verdicts
  <2>4. Ended(r, o) \in RunRow /\ Ended(r, o).task = runs[r].task /\ Ended(r, o).outcome = o
    BY <2>2, <2>3, EndedRow DEF Sound
  <2> HIDE DEF r
  <2>5. /\ Len(RunEnded(r, o)) = Len(runs)
        /\ \A q \in 1..Len(runs) :
               RunEnded(r, o)[q] = IF q = r THEN Ended(r, o) ELSE runs[q]
    BY <2>1, <2>2, <2>4, ExceptSeq DEF Sound, TypeOK
  <2>6. RunsClosed(RunEnded(r, o))
    BY <1>1, <2>4, <2>5 DEF RunsClosed
  <2> QED BY <2>6 DEF r
<1>2. CASE ~(r # 0 /\ Open(r))
  BY <1>2 DEF RunEnded, RunsClosed
<1> QED BY <1>1, <1>2

\* What most transactions do to the runs.
Closing == RunsClosed(runs')

LEMMA SameRunsClosing ==
    ASSUME UNCHANGED runs
    PROVE  Closing
  BY DEF Closing, RunsClosed

LEMMA TurnEndClosing ==
    ASSUME Sound, NEW t \in Tasks, NEW o \in Verdicts,
           runs' = RunEnded(tasks[t].run, o)
    PROVE  Closing
  BY RunEndedCloses DEF Closing

LEMMA DetectCrashedClosing ==
    ASSUME Sound, NEW dead, NEW throttled, DetectCrashed(dead, throttled)
    PROVE  Closing
<1> DEFINE Hit(r) == Open(r) /\ \E t \in dead : tasks[t].run = r
           after(r) == IF Hit(r)
                       THEN Ended(r, IF runs[r].task \in throttled
                                     THEN "rate_limited" ELSE "crashed")
                       ELSE runs[r]
<1>1. runs' = [r \in 1..Len(runs) |-> after(r)]
  BY DEF DetectCrashed
<1>2. \A r \in 1..Len(runs) :
          /\ after(r) \in RunRow /\ after(r).task = runs[r].task
          /\ \/ after(r).outcome = runs[r].outcome
             \/ Open(r) /\ after(r).outcome \in Verdicts
  <2> TAKE r \in 1..Len(runs)
  <2>1. CASE Hit(r)
    <3>1. PICK o \in {"rate_limited", "crashed"} : after(r) = Ended(r, o)
      BY <2>1
    <3>2. o \in Outcomes /\ o \in Verdicts
      BY DEF Outcomes, Verdicts
    <3> HIDE DEF after
    <3> QED BY <2>1, <3>1, <3>2, EndedRow DEF Sound
  <2>2. CASE ~Hit(r)
    BY <2>2, RunRows DEF Sound
  <2> QED BY <2>1, <2>2
<1> HIDE DEF after
<1>3. Len(runs) \in Nat /\ runs' \in [1..Len(runs) -> RunRow]
  BY <1>1, <1>2 DEF Sound, TypeOK
<1>4. Len(runs') = Len(runs)
  BY <1>3, FunctionIsSeq
<1> QED BY <1>1, <1>2, <1>4 DEF Closing, RunsClosed

LEMMA RunAgesClosing ==
    ASSUME Sound, NEW r \in 1..Len(runs), RunAges(r)
    PROVE  Closing
<1> DEFINE run == [runs[r] EXCEPT !.age = "old"]
<1>1. runs' = [runs EXCEPT ![r] = run]
  BY DEF RunAges
<1>2. run \in RunRow /\ run.task = runs[r].task /\ run.outcome = runs[r].outcome
  BY RunRows DEF Sound, RunRow
<1> HIDE DEF run
<1>3. Len(runs') = Len(runs) /\ \A q \in 1..Len(runs) : runs'[q] = IF q = r THEN run ELSE runs[q]
  BY <1>1, <1>2, ExceptSeq DEF Sound, TypeOK
<1> QED BY <1>2, <1>3 DEF Closing, RunsClosed

----------------------------------------------------------------------------
(* Transactions that append a run or erase a task's runs *)

LEMMA ClaimedStarts ==
    ASSUME Sound, NEW t \in Tasks, NEW l \in Claimers, Claimed(t, l)
    PROVE  Ledger!Start(t)
<1> DEFINE n == Len(runs)
           closed == RunEnded(tasks[t].run, "reclaimed")
           new == [task |-> t, outcome |-> "open", age |-> "young"]
           L == AttemptsOf(closed)
           A == {a \in 1..n : runs[a].task = t /\ Open(a)}
<1>1. runs' = Append(closed, new)
  BY DEF Claimed
<1>2. RunsClosed(closed) /\ closed \in Seq(RunRow)
  <2>1. "reclaimed" \in Verdicts
    BY DEF Verdicts, Outcomes
  <2>2. tasks[t].run # 0 => tasks[t].run \in 1..n
    BY DEF Sound, RunPointers, RunBelongsToTask
  <2> QED BY <2>1, <2>2, RunEndedCloses, RunEndedSeq DEF Sound, Verdicts
<1>3. \A a \in 1..n : runs[a].task = t => closed[a].outcome # "open"
  <2> SUFFICES ASSUME NEW a \in 1..n, runs[a].task = t, closed[a].outcome = "open"
               PROVE  FALSE
    OBVIOUS
  <2>1. tasks[t].run # 0 => tasks[t].run \in 1..n
    BY DEF Sound, RunPointers, RunBelongsToTask
  <2>2. Open(a) /\ a # tasks[t].run
    BY <2>1, RunEndedSeq DEF Sound, Outcomes
  <2> QED BY <2>2 DEF Sound, RunPointers, OpenRunIsCurrent
<1>4. \A a \in 1..n : closed[a].outcome = runs[a].outcome \/ a \in A
  <2> SUFFICES ASSUME NEW a \in 1..n, closed[a].outcome # runs[a].outcome
               PROVE  runs[a].task = t /\ Open(a)
    OBVIOUS
  <2>1. tasks[t].run # 0 => tasks[t].run \in 1..n
    BY DEF Sound, RunPointers, RunBelongsToTask
  <2>2. Open(a)
    BY <1>2 DEF RunsClosed
  <2>3. a = tasks[t].run
    BY <1>2, <2>1, <2>2, RunEndedSeq DEF Sound, Outcomes, RunsClosed, Open, Verdicts
  <2>4. a # 0
    BY DEF Sound, TypeOK
  <2> QED BY <2>2, <2>3, <2>4 DEF Sound, RunPointers, RunBelongsToTask
<1> HIDE DEF closed
<1>5. new \in RunRow /\ n \in Nat /\ Len(closed) = n
  BY <1>2 DEF RunRow, Outcomes, Sound, TypeOK, RunsClosed
<1>6. /\ runs' \in Seq(RunRow) /\ Len(runs') = n + 1 /\ runs'[n + 1] = new
      /\ \A a \in 1..n : runs'[a] = closed[a]
  BY <1>1, <1>2, <1>5
<1>7. /\ L \in Seq(Ledger!Attempt) /\ Len(L) = n
      /\ \A a \in 1..n : L[a] = AttemptOf(closed[a])
  BY <1>2, <1>5, AttemptRows
<1>8. /\ Attempts \in Seq(Ledger!Attempt) /\ Len(Attempts) = n
      /\ \A a \in 1..n : Attempts[a] = AttemptOf(runs[a])
  BY AttemptRows, AttemptsAre DEF Sound, TypeOK
<1>9. /\ Attempts' \in Seq(Ledger!Attempt) /\ Len(Attempts') = n + 1
      /\ \A a \in 1..(n + 1) : Attempts'[a] = AttemptOf(runs'[a])
  BY <1>6, AttemptRows, AttemptsBecome
<1> HIDE DEF L, n
<1>10. Attempts' = Append(L, [task |-> t, outcome |-> "open"])
  <2>1. AttemptOf(new) = [task |-> t, outcome |-> "open"]
    BY DEF AttemptOf
  <2>2. \A a \in 1..n : Attempts'[a] = L[a]
    BY <1>5, <1>6, <1>7, <1>9
  <2>3. Attempts'[n + 1] = [task |-> t, outcome |-> "open"]
    BY <1>5, <1>6, <1>9, <2>1
  <2> QED BY <1>5, <1>7, <1>9, <2>2, <2>3
<1>11. SubSeq(Attempts', 1, n) = L
  BY <1>5, <1>7, <1>9, <1>10
<1>12. A \in SUBSET {a \in 1..Len(Attempts) : Attempts[a].task = t}
  BY <1>8, AttemptFields
<1>13. Ledger!Closed(A, L)
  <2>1. A \subseteq {a \in 1..Len(Attempts) : Ledger!IsOpen(a)}
    BY <1>8, AttemptFields DEF Ledger!IsOpen, Open
  <2>2. ASSUME NEW a \in 1..n
        PROVE  /\ L[a].task = Attempts[a].task
               /\ a \in A => L[a].outcome \in Verdicts
               /\ a \notin A => L[a] = Attempts[a]
    <3>1. L[a] = AttemptOf(closed[a]) /\ Attempts[a] = AttemptOf(runs[a])
      BY <1>7, <1>8
    <3>2. closed[a].task = runs[a].task
      BY <1>2 DEF RunsClosed, n
    <3>3. a \in A => closed[a].outcome \in Verdicts
      BY <1>2, <1>3 DEF RunsClosed, Open, n
    <3>4. a \notin A => closed[a].outcome = runs[a].outcome
      BY <1>4
    <3> QED BY <3>1, <3>2, <3>3, <3>4, AttemptFields, SameAttempt
  <2> HIDE DEF A
  <2> QED BY <1>7, <1>8, <2>1, <2>2 DEF Ledger!Closed, Verdicts
<1>14. \A a \in 1..Len(Attempts) : Attempts[a].task = t => L[a].outcome # "open"
  BY <1>3, <1>7, <1>8, AttemptFields
<1> HIDE DEF A
<1> QED BY <1>8, <1>10, <1>11, <1>12, <1>13, <1>14 DEF Ledger!Start

LEMMA AppendedRecords ==
    ASSUME Sound, NEW t \in Tasks, tasks[t].run = 0,
           NEW o \in Verdicts, NEW age \in {"young", "old"},
           runs' = Append(runs, [task |-> t, outcome |-> o, age |-> age])
    PROVE  Ledger!Record(t, o)
<1> DEFINE n == Len(runs)
           new == [task |-> t, outcome |-> o, age |-> age]
<1>1. new \in RunRow /\ n \in Nat
  BY DEF RunRow, Verdicts, Sound, TypeOK
<1>2. /\ runs' \in Seq(RunRow) /\ Len(runs') = n + 1 /\ runs'[n + 1] = new
      /\ \A a \in 1..n : runs'[a] = runs[a]
  BY <1>1 DEF Sound, TypeOK
<1>3. /\ Attempts \in Seq(Ledger!Attempt) /\ Len(Attempts) = n
      /\ \A a \in 1..n : Attempts[a] = AttemptOf(runs[a])
  BY AttemptRows, AttemptsAre DEF Sound, TypeOK
<1>4. /\ Attempts' \in Seq(Ledger!Attempt) /\ Len(Attempts') = n + 1
      /\ \A a \in 1..(n + 1) : Attempts'[a] = AttemptOf(runs'[a])
  BY <1>2, AttemptRows, AttemptsBecome
<1>5. Attempts' = Append(Attempts, [task |-> t, outcome |-> o])
  <2>1. AttemptOf(new) = [task |-> t, outcome |-> o]
    BY DEF AttemptOf
  <2>2. Attempts'[n + 1] = [task |-> t, outcome |-> o]
    BY <1>1, <1>2, <1>4, <2>1
  <2>3. \A a \in 1..n : Attempts'[a] = Attempts[a]
    BY <1>1, <1>2, <1>3, <1>4
  <2> HIDE DEF n
  <2> QED BY <1>1, <1>3, <1>4, <2>2, <2>3
<1>6. \A a \in 1..n : runs[a].task = t => ~Open(a)
  BY DEF Sound, RunPointers, OpenRunIsCurrent, TypeOK
<1>7. \A a \in 1..Len(Attempts) : Attempts[a].task = t => ~Ledger!IsOpen(a)
  BY <1>3, <1>6, AttemptFields DEF Ledger!IsOpen, Open
<1> QED BY <1>5, <1>7 DEF Ledger!Record

LEMMA DeleteErases ==
    ASSUME Sound, NEW t \in Tasks, DeleteTask(t)
    PROVE  Ledger!Erase(t)
<1> DEFINE n == Len(runs)
           after(r) == IF runs[r].task = t THEN Ended(r, "deleted") ELSE runs[r]
           erased(a) == IF Attempts[a].task = t THEN [task |-> t, outcome |-> "deleted"]
                        ELSE Attempts[a]
<1>1. runs' = [r \in 1..n |-> after(r)]
  BY DEF DeleteTask
<1>2. ASSUME NEW r \in 1..n
      PROVE  /\ after(r) \in RunRow
             /\ AttemptOf(after(r)) = IF runs[r].task = t
                                      THEN [task |-> t, outcome |-> "deleted"]
                                      ELSE AttemptOf(runs[r])
  <2>1. CASE runs[r].task = t
    <3>1. "deleted" \in Outcomes
      BY DEF Outcomes
    <3>2. after(r) \in RunRow /\ after(r).task = t /\ after(r).outcome = "deleted"
      BY <2>1, <3>1, EndedRow DEF Sound
    <3> QED BY <2>1, <3>2 DEF AttemptOf
  <2>2. CASE runs[r].task # t
    BY <2>2, RunRows DEF Sound
  <2> QED BY <2>1, <2>2
<1> HIDE DEF after
<1>3. n \in Nat /\ runs' \in Seq(RunRow) /\ Len(runs') = n
  <2>1. n \in Nat
    BY DEF Sound, TypeOK
  <2>2. runs' \in [1..n -> RunRow]
    BY <1>1, <1>2
  <2> QED BY <2>1, <2>2, FunctionIsSeq
<1>4. /\ Len(Attempts) = n
      /\ \A a \in 1..n : Attempts[a] = AttemptOf(runs[a])
  BY AttemptRows, AttemptsAre DEF Sound, TypeOK
<1>5. \A a \in 1..n : erased(a) = AttemptOf(runs'[a])
  BY <1>1, <1>2, <1>4, AttemptFields
<1>6. Attempts' = [a \in 1..n |-> AttemptOf(runs'[a])]
  BY <1>3, AttemptsBecome DEF AttemptsOf
<1> QED BY <1>4, <1>5, <1>6 DEF Ledger!Erase

----------------------------------------------------------------------------
(* The actions *)

LEMMA FinishLedger ==
    ASSUME Sound, NEW t \in Tasks, NEW r, NEW from, NEW s,
           NEW o \in {"completed", "blocked", "scheduled"},
           NEW handoff \in BOOLEAN, Finish(t, r, from, s, o, handoff)
    PROVE  Closing \/ Ledger!Record(t, o)
<1>1. runs' = RunEndedOrSynthesized(t, o, handoff)
  BY DEF Finish
<1>2. o \in Verdicts
  BY DEF Verdicts, Outcomes
<1>3. CASE tasks[t].run = 0 /\ handoff
  <2>1. runs' = Append(runs, [task |-> t, outcome |-> o, age |-> RunAge(o)])
    BY <1>1, <1>3 DEF RunEndedOrSynthesized
  <2>2. RunAge(o) \in {"young", "old"}
    BY DEF RunAge
  <2> QED BY <1>2, <1>3, <2>1, <2>2, AppendedRecords
<1>4. CASE ~(tasks[t].run = 0 /\ handoff)
  <2>1. runs' = RunEnded(tasks[t].run, o)
    BY <1>1, <1>4 DEF RunEndedOrSynthesized
  <2> QED BY <1>2, <2>1, TurnEndClosing
<1> QED BY <1>3, <1>4

LEMMA RecordFailureClosing ==
    ASSUME Sound, NEW t \in Tasks, NEW n, NEW held \in BOOLEAN, NEW why,
           NEW o \in Verdicts, RecordFailure(t, n, held, why, o)
    PROVE  Closing
<1>1. CASE held
  <2>1. PICK v \in {"gave_up", o} : runs' = RunEnded(tasks[t].run, v)
    BY <1>1 DEF RecordFailure
  <2>2. v \in Verdicts
    BY <2>1 DEF Verdicts, Outcomes
  <2> QED BY <2>1, <2>2, TurnEndClosing
<1>2. CASE ~held
  <2>1. UNCHANGED runs
    BY <1>2 DEF RecordFailure
  <2> QED BY <2>1, SameRunsClosing
<1> QED BY <1>1, <1>2

LEMMA MoveClosing ==
    ASSUME Sound, NEW t \in Tasks, NEW s, MoveCard(t, s)
    PROVE  Closing
<1>1. "reclaimed" \in Verdicts
  BY DEF Verdicts, Outcomes
<1>2. runs' = RunEnded(tasks[t].run, "reclaimed") \/ UNCHANGED runs
  BY DEF MoveCard
<1> QED BY <1>1, <1>2, TurnEndClosing, SameRunsClosing

LEMMA EngineLedger ==
    ASSUME Sound, NEW t \in Tasks, EngineStep(t)
    PROVE  Closing \/ \E x \in Tasks : Ledger!Start(x)
                   \/ \E v \in Verdicts : Ledger!Record(x, v)
<1> USE DEF Verdicts, Outcomes
<1>1. CASE \E l \in Claimers : ClaimTask(t, l)
  <2>1. CASE \E l \in Claimers : Claimed(t, l)
    BY <2>1, ClaimedStarts
  <2>2. CASE ClaimRejected(t)
    BY <2>2, SameRunsClosing DEF ClaimRejected
  <2>3. CASE ClaimLost(t)
    BY <2>3, TurnEndClosing DEF ClaimLost
  <2> QED BY <1>1, <2>1, <2>2, <2>3 DEF ClaimTask
<1>2. CASE \E r \in 1..MaxRuns : SetWorkerPid(t, r) \/ HeartbeatWorker(t, r)
  BY <1>2, SameRunsClosing DEF SetWorkerPid, HeartbeatWorker
<1>3. CASE \E l \in Claimers : HeartbeatClaim(t, l) \/ ExtendClaim(t, l)
  BY <1>3, SameRunsClosing DEF HeartbeatClaim, ExtendClaim
<1>4. CASE \E l \in Claimers : ReleaseStaleClaim(t, l)
  BY <1>4, TurnEndClosing DEF ReleaseStaleClaim
<1>5. CASE YankRunning(t, "stale") \/ YankRunning(t, "timed_out")
  BY <1>5, TurnEndClosing DEF YankRunning
<1>6. CASE \/ \E why \in {"plain", "blocker"} :
                  RecordFailure(t, FailureLimit, TRUE, why, "spawn_failed")
           \/ \E n \in {1, DefaultFailureLimit} : RecordFailure(t, n, FALSE, "plain", "crashed")
           \/ RecordFailure(t, DefaultFailureLimit, TRUE, "plain", "timed_out")
  BY <1>6, RecordFailureClosing, Zenon
<1>7. CASE \E r \in 1..MaxRuns, handoff \in BOOLEAN :
               CompleteTask(t, r, handoff) \/ BlockTask(t, r, handoff)
  BY <1>7, FinishLedger DEF CompleteTask, BlockTask
<1> QED BY <1>1, <1>2, <1>3, <1>4, <1>5, <1>6, <1>7 DEF EngineStep

LEMMA OperatorLedger ==
    ASSUME Sound, NEW t \in Tasks, OperatorStep(t)
    PROVE  Closing \/ \E x \in Tasks : Ledger!Erase(x)
                   \/ \E v \in Verdicts : Ledger!Record(x, v)
<1> USE DEF Verdicts, Outcomes
<1>1. CASE \/ \E P \in SUBSET Tasks, how \in {"", "triage", "park"} : CreateTask(t, how, P)
           \/ \E C \in SUBSET Tasks : \E L \in SUBSET (C \X C) : DecomposeTriage(t, C, L)
  BY <1>1, SameRunsClosing DEF CreateTask, DecomposeTriage
<1>2. CASE \E c \in Tasks : LinkTasks(t, c) \/ UnlinkTasks(t, c)
  BY <1>2, SameRunsClosing DEF LinkTasks, UnlinkTasks
<1>3. CASE AssignTask(t) \/ PromoteTask(t) \/ SpecifyTriage(t) \/ ClearFailureCounter(t)
  BY <1>3, SameRunsClosing DEF AssignTask, PromoteTask, SpecifyTriage, ClearFailureCounter
<1>4. CASE UnblockTask(t) \/ ArchiveTask(t) \/ \E l \in Claimers : ReclaimTask(t, l)
  BY <1>4, TurnEndClosing DEF UnblockTask, ArchiveTask, ReclaimTask
<1>5. CASE DeleteArchivedTask(t) \/ DeleteTask(t)
  BY <1>5, DeleteErases DEF DeleteArchivedTask
<1>6. CASE \E s \in {"triage", "todo", "ready"} : MoveCard(t, s)
  BY <1>6, MoveClosing
<1>7. CASE \E handoff \in BOOLEAN :
               ScheduleTask(t, handoff) \/ CompleteTask(t, 0, handoff) \/ BlockTask(t, 0, handoff)
  BY <1>7, FinishLedger DEF ScheduleTask, CompleteTask, BlockTask
<1> QED BY <1>1, <1>2, <1>3, <1>4, <1>5, <1>6, <1>7 DEF OperatorStep

LEMMA StepLedger ==
    ASSUME Sound, TypeOK', [BoardNext]_boardVars
    PROVE  Ledger!Next
<1>1. Closing => Ledger!Next
  BY ClosedInLedger DEF Closing, Sound, Ledger!Next
<1>2. \A v \in Verdicts : v \in Outcomes \ {"open"}
  BY DEF Verdicts
<1>3. CASE \E t \in Tasks : EngineStep(t) \/ OperatorStep(t)
  BY <1>1, <1>2, <1>3, EngineLedger, OperatorLedger DEF Ledger!Next
<1>4. CASE BoardStep
  <2>1. CASE \E n \in {DefaultFailureLimit, FailureLimit} : RecomputeReady(n)
    BY <1>1, <2>1, SameRunsClosing DEF RecomputeReady
  <2>2. CASE \E dead \in SUBSET CrashCandidates : \E throttled \in SUBSET dead :
                 DetectCrashed(dead, throttled)
    BY <1>1, <2>2, DetectCrashedClosing
  <2> QED BY <1>4, <2>1, <2>2 DEF BoardStep
<1>5. CASE Clock
  <2>1. CASE \E t \in Tasks : LeaseLapses(t) \/ HeartbeatAges(t) \/ GraceEnds(t)
    BY <1>1, <2>1, SameRunsClosing DEF LeaseLapses, HeartbeatAges, GraceEnds
  <2>2. CASE \E r \in 1..Len(runs) : RunAges(r)
    BY <1>1, <2>2, RunAgesClosing
  <2> QED BY <1>5, <2>1, <2>2 DEF Clock
<1>6. CASE UNCHANGED boardVars
  BY <1>1, <1>6, SameRunsClosing DEF boardVars
<1> QED BY <1>3, <1>4, <1>5, <1>6 DEF BoardNext

LEMMA InitLedger == BoardInit => Ledger!Init
<1> SUFFICES ASSUME BoardInit PROVE Attempts = <<>>
  BY DEF Ledger!Init
<1>1. runs = <<>>
  BY DEF BoardInit
<1> QED BY <1>1 DEF Attempts

\* Whatever transactions run, in whatever order and by whichever process, the
\* history in task_runs is a ledger: at most one attempt of a task is open, each
\* outcome is written once, and only deleting a task erases its attempts.
THEOREM BoardImplementsLedger == BoardSpec => ImplementsLedger
<1>1. Sound /\ Sound' /\ [BoardNext]_boardVars => Ledger!Next
  BY StepLedger DEF Sound
<1> QED BY <1>1, InitLedger, BoardSound, PTL
  DEF BoardSpec, ImplementsLedger, Ledger!Spec

\* Two processes that race for a card never both hold an attempt of it: at most
\* one run of a task is open.
THEOREM BoardOneOpenAttempt == BoardSpec => []Ledger!OneOpenAttempt
<1>1. Sound => Ledger!OneOpenAttempt
  <2> SUFFICES ASSUME Sound PROVE Ledger!OneOpenAttempt
    OBVIOUS
  <2>1. /\ Len(Attempts) = Len(runs)
        /\ \A r \in 1..Len(runs) : Attempts[r] = AttemptOf(runs[r])
    BY AttemptRows, AttemptsAre DEF Sound, TypeOK
  <2>2. \A r \in 1..Len(runs) : Open(r) => tasks[runs[r].task].run = r
    BY DEF Sound, RunPointers, OpenRunIsCurrent
  <2>3. \A a, b \in 1..Len(runs) :
            Open(a) /\ Open(b) /\ runs[a].task = runs[b].task => a = b
    BY <2>2
  <2> QED BY <2>1, <2>3, AttemptFields DEF Ledger!OneOpenAttempt, Ledger!IsOpen, Open
<1> QED BY <1>1, BoardSound, PTL

=============================================================================
