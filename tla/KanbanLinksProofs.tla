------------------------- MODULE KanbanLinksProofs -------------------------
(***************************************************************************)
(* Theorems about dependencies: the graph of task_links stays acyclic, and *)
(* no attempt starts over an unfinished parent.                            *)
(*                                                                         *)
(* Acyclic is not inductive: create_task adds links to a task that must    *)
(* not have children yet.  The strengthening is that links only join tasks *)
(* that were created, and it rests on the fact that no transaction takes a *)
(* row back to "absent".                                                   *)
(*                                                                         *)
(* StatusStep says that and three more things of every transaction: only a *)
(* claim makes a card run, and a running card keeps its claim; only three  *)
(* verbs take a card out of "done"; a row that is gone has no run.  The    *)
(* theorems about the dispatcher need to know this of the board.           *)
(***************************************************************************)
EXTENDS KanbanBoardProofs

LinksOfCreated ==
    \A p, c \in Tasks : <<p, c>> \in links =>
        tasks[p].status # "absent" /\ tasks[c].status # "absent"

WellLinked == Sound /\ Acyclic /\ LinksOfCreated

\* A row that does not exist, yet or any more, has no run.
IdleIfGone(row) == row.status \in {"absent", "deleted"} => row.run = 0

\* What may happen to the status of a task, and to the claim of a running one:
\* only claiming makes it run, only three verbs take it out of "done".
StatusChange(x, old, new) ==
    /\ new.status = "absent" => old.status = "absent"
    /\ IdleIfGone(old) => IdleIfGone(new)
    /\ new.status = "running" =>
           IF old.status = "running" THEN new.lock = old.lock
           ELSE ParentsTerminal(x) /\ new.lock \in Claimers
    /\ old.status = "done" /\ new.status # "done" =>
           Does("archive") \/ Does("move") \/ Does("delete")

StatusStep == \A x \in Tasks : StatusChange(x, tasks[x], tasks'[x])

LEMMA OneRow ==
    ASSUME TypeOK, NEW t \in Tasks, NEW row, Put(t, row), StatusChange(t, tasks[t], row)
    PROVE  StatusStep
  BY DEF StatusStep, StatusChange, IdleIfGone, Put, TypeOK

LEMMA SameRows == UNCHANGED tasks => StatusStep
  BY DEF StatusStep, StatusChange

\* The usual cases: a row that leaves its status and its lock alone, or that
\* moves to a column where no worker is, from another than "done".
LEMMA StatusKept ==
    ASSUME NEW x, NEW old, NEW new, new.status = old.status, new.lock = old.lock,
           new.run \in {0, old.run}
    PROVE  StatusChange(x, old, new)
  BY DEF StatusChange, IdleIfGone

LEMMA StatusLeft ==
    ASSUME NEW x, NEW old, NEW new, new.status \notin {"running", "absent", "deleted"},
           old.status # "done" \/ new.status = "done"
    PROVE  StatusChange(x, old, new)
  BY DEF StatusChange, IdleIfGone

LEMMA FinishStatus ==
    ASSUME Sound, NEW t \in Tasks, NEW r, NEW from, NEW o, NEW handoff,
           NEW s \in {"done", "blocked", "scheduled"}, "done" \notin from,
           Finish(t, r, from, s, o, handoff)
    PROVE  StatusStep /\ UNCHANGED links
<1> DEFINE row == [Released(tasks[t]) EXCEPT
                     !.status = s, !.run = 0, !.sticky = @ \/ s = "blocked"]
<1>1. Put(t, row) /\ UNCHANGED links /\ tasks[t].status # "done"
  BY DEF Finish
<1>2. row.status = s
  BY RowsAreRows DEF Sound, TaskRow
<1> HIDE DEF row
<1> QED BY <1>1, <1>2, StatusLeft, OneRow DEF Sound

LEMMA EngineStatus ==
    ASSUME Sound, NEW t \in Tasks, EngineStep(t)
    PROVE  StatusStep /\ UNCHANGED links
<1> USE DEF Sound
<1>1. tasks[t] \in TaskRow /\ Released(tasks[t]).status = tasks[t].status
      /\ BackToReady(tasks[t]).status = "ready"
  BY RowsAreRows
<1>2. ASSUME NEW l \in Claimers, ClaimTask(t, l)
      PROVE  StatusStep /\ UNCHANGED links
  <2>1. CASE ClaimRejected(t)
    BY <1>1, <2>1, StatusLeft, OneRow DEF ClaimRejected, TaskRow
  <2>2. CASE Claimed(t, l)
    BY <1>1, <2>2, OneRow DEF Claimed, Claimable, TaskRow, StatusChange, IdleIfGone
  <2>3. CASE ClaimLost(t)
    BY <2>3, SameRows DEF ClaimLost
  <2> QED BY <1>2, <2>1, <2>2, <2>3 DEF ClaimTask
<1>3. ASSUME NEW r \in 1..MaxRuns, SetWorkerPid(t, r) \/ HeartbeatWorker(t, r)
      PROVE  StatusStep /\ UNCHANGED links
  BY <1>1, <1>3, StatusKept, OneRow DEF SetWorkerPid, HeartbeatWorker, TaskRow
<1>4. ASSUME NEW n, NEW held, NEW why, NEW o, RecordFailure(t, n, held, why, o)
      PROVE  StatusStep /\ UNCHANGED links
  <2> DEFINE kept == IF held THEN Released(tasks[t]) ELSE tasks[t]
             s == IF Trips(t, n) THEN "blocked" ELSE IF held THEN "ready" ELSE tasks[t].status
             counted == IF Matches(t, n, held)
                        THEN [kept EXCEPT !.status = s, !.fails = @ + 1, !.err = why]
                        ELSE tasks[t]
             row == [counted EXCEPT !.run = IF held THEN 0 ELSE @]
  <2>1. Put(t, row) /\ UNCHANGED links /\ Present(t)
    BY <1>4 DEF RecordFailure
  <2>2. kept \in TaskRow
    BY RowsAreRows
  <2>3. row.status = counted.status /\ row.lock = counted.lock /\ row.run \in {0, counted.run}
    BY <2>2, <1>1 DEF TaskRow
  <2>4. CASE ~Matches(t, n, held)
    BY <2>1, <2>3, <2>4, StatusKept, OneRow
  <2>5. CASE Matches(t, n, held)
    <3>1. counted.status = s /\ counted.lock = kept.lock /\ counted.run = tasks[t].run
      BY <2>2, <1>1, <2>5 DEF TaskRow, Released
    <3>2. CASE s \in {"blocked", "ready"} /\ tasks[t].status # "done"
      BY <2>1, <2>3, <3>1, <3>2, StatusLeft, OneRow
    <3>3. CASE ~held /\ s = tasks[t].status
      BY <2>1, <2>3, <3>1, <3>3, StatusKept, OneRow
    <3> QED BY <2>5, <3>2, <3>3 DEF Matches
  <2> QED BY <2>4, <2>5
<1>5. ASSUME NEW l \in Claimers, HeartbeatClaim(t, l) \/ ExtendClaim(t, l)
      PROVE  StatusStep /\ UNCHANGED links
  BY <1>1, <1>5, StatusKept, OneRow DEF HeartbeatClaim, ExtendClaim, TaskRow
<1>6. ASSUME NEW l \in Claimers, ReleaseStaleClaim(t, l)
      PROVE  StatusStep /\ UNCHANGED links
  BY <1>1, <1>6, StatusLeft, OneRow DEF ReleaseStaleClaim, LeaseExpired
<1>7. ASSUME NEW o, YankRunning(t, o)
      PROVE  StatusStep /\ UNCHANGED links
  <2>1. [BackToReady(tasks[t]) EXCEPT !.hb = "none"].status = "ready"
    BY RowsAreRows DEF TaskRow
  <2> QED BY <1>7, <2>1, StatusLeft, OneRow DEF YankRunning
<1>8. ASSUME NEW r, NEW handoff, CompleteTask(t, r, handoff) \/ BlockTask(t, r, handoff)
      PROVE  StatusStep /\ UNCHANGED links
  BY <1>8, FinishStatus DEF CompleteTask, BlockTask
<1> QED BY <1>2, <1>3, <1>4, <1>5, <1>6, <1>7, <1>8 DEF EngineStep

----------------------------------------------------------------------------
(* The operations of the operator; those that also write links. *)

LEMMA OperatorStatus ==
    ASSUME Sound, NEW t \in Tasks, OperatorStep(t)
    PROVE  StatusStep
<1> USE DEF Sound
<1>1. tasks[t] \in TaskRow /\ Released(tasks[t]) \in TaskRow
  BY RowsAreRows
<1>2. ASSUME NEW P, NEW how, CreateTask(t, how, P)
      PROVE  StatusStep
  <2>1. PICK s \in {"blocked", "triage", "todo", "ready"} : Put(t, NewRow(s))
    BY <1>2 DEF CreateTask
  <2>2. NewRow(s).status = s /\ tasks[t].status = "absent"
    BY <1>2 DEF NewRow, CreateTask
  <2> QED BY <2>1, <2>2, StatusLeft, OneRow
<1>3. ASSUME NEW c \in Tasks, LinkTasks(t, c) \/ UnlinkTasks(t, c)
      PROVE  StatusStep
  <2>1. CASE UnlinkTasks(t, c)
    BY <2>1, SameRows DEF UnlinkTasks
  <2>2. CASE LinkTasks(t, c)
    <3>1. CASE tasks[t].status # "done" /\ tasks[c].status = "ready"
      <4>1. Put(c, [tasks[c] EXCEPT !.status = "todo"])
        BY <2>2, <3>1 DEF LinkTasks
      <4>2. [tasks[c] EXCEPT !.status = "todo"].status = "todo"
        BY RowsAreRows DEF TaskRow
      <4> QED BY <3>1, <4>1, <4>2, StatusLeft, OneRow
    <3>2. CASE ~(tasks[t].status # "done" /\ tasks[c].status = "ready")
      BY <2>2, <3>2, StatusKept, OneRow DEF LinkTasks
    <3> QED BY <3>1, <3>2
  <2> QED BY <1>3, <2>1, <2>2
<1>4. CASE AssignTask(t) \/ ClearFailureCounter(t)
  BY <1>1, <1>4, StatusKept, OneRow DEF AssignTask, ClearFailureCounter, TaskRow
<1>5. CASE PromoteTask(t) \/ SpecifyTriage(t)
  BY <1>1, <1>5, StatusLeft, OneRow DEF PromoteTask, SpecifyTriage, TaskRow
<1>6. CASE UnblockTask(t)
  <2> DEFINE row == [tasks[t] EXCEPT
                       !.status = IF ParentsDone(t) THEN "ready" ELSE "todo",
                       !.run = 0, !.fails = 0, !.err = "none", !.sticky = FALSE]
  <2>1. Put(t, row) /\ row.status \in {"ready", "todo"} /\ tasks[t].status # "done"
    BY <1>1, <1>6 DEF UnblockTask, TaskRow
  <2> HIDE DEF row
  <2> QED BY <2>1, StatusLeft, OneRow
<1>7. ASSUME NEW l \in Claimers, ReclaimTask(t, l)
      PROVE  StatusStep
  BY <1>7, RowsAreRows, StatusLeft, OneRow DEF ReclaimTask
<1>8. CASE Does("archive") /\ ArchiveTask(t)
  BY <1>1, <1>8, OneRow DEF ArchiveTask, TaskRow, StatusChange, IdleIfGone
<1>9. ASSUME NEW C, NEW L, DecomposeTriage(t, C, L)
      PROVE  StatusStep
  <2>1. NewRow("todo").status = "todo" /\ [tasks[t] EXCEPT !.status = "todo"].status = "todo"
    BY <1>1 DEF NewRow, TaskRow
  <2> QED BY <1>9, <2>1 DEF DecomposeTriage, StatusStep, StatusChange, IdleIfGone
<1>10. CASE DeleteArchivedTask(t) \/ (Does("delete") /\ DeleteTask(t))
  <2>1. Put(t, NewRow("deleted")) /\ NewRow("deleted").status = "deleted"
        /\ NewRow("deleted").run = 0
    BY <1>10 DEF DeleteArchivedTask, DeleteTask, NewRow
  <2> QED BY <1>10, <2>1, OneRow DEF StatusChange, IdleIfGone, DeleteArchivedTask
<1>11. ASSUME NEW s \in {"triage", "todo", "ready"}, MoveCard(t, s), Does("move")
       PROVE  StatusStep
  <2> DEFINE leaves == tasks[t].status = "running"
             reopened == tasks[t].status \in {"done", "archived"}
             moved == [Released(tasks[t]) EXCEPT !.status = s, !.run = IF leaves THEN 0 ELSE @]
  <2>1. tasks' = [x \in Tasks |->
                    IF x = t THEN moved
                    ELSE IF reopened /\ <<t, x>> \in links /\ tasks[x].status = "ready"
                    THEN [tasks[x] EXCEPT !.status = "todo"] ELSE tasks[x]]
    BY <1>11 DEF MoveCard
  <2>2. moved.status = s
    BY <1>1 DEF TaskRow
  <2>3. \A x \in Tasks : [tasks[x] EXCEPT !.status = "todo"].status = "todo"
    BY RowsAreRows DEF TaskRow
  <2> HIDE DEF moved, leaves, reopened
  <2> QED BY <1>11, <2>1, <2>2, <2>3 DEF StatusStep, StatusChange, IdleIfGone
<1>12. ASSUME NEW r, NEW handoff,
              ScheduleTask(t, handoff) \/ CompleteTask(t, r, handoff) \/ BlockTask(t, r, handoff)
       PROVE  StatusStep
  BY <1>12, FinishStatus DEF ScheduleTask, CompleteTask, BlockTask
<1> QED BY <1>2, <1>3, <1>4, <1>5, <1>6, <1>7, <1>8, <1>9, <1>10, <1>11, <1>12
        DEF OperatorStep

LEMMA BoardStatus ==
    ASSUME Sound, BoardStep \/ Clock
    PROVE  StatusStep /\ UNCHANGED links
<1> USE DEF Sound
<1>1. ASSUME NEW dead, NEW throttled, DetectCrashed(dead, throttled)
      PROVE  StatusStep /\ UNCHANGED links
  <2>1. \A t \in Tasks : /\ BackToReady(tasks[t]).status = "ready"
                        /\ [BackToReady(tasks[t]) EXCEPT !.err = "blocker"].status = "ready"
    BY RowsAreRows DEF TaskRow
  <2> QED BY <1>1, <2>1 DEF DetectCrashed, CrashCandidates, StatusStep, StatusChange, IdleIfGone
<1>2. ASSUME NEW n, RecomputeReady(n)
      PROVE  StatusStep /\ UNCHANGED links
  <2>1. \A t \in Tasks : [tasks[t] EXCEPT !.status = "ready"].status = "ready"
    BY RowsAreRows DEF TaskRow
  <2> QED BY <1>2, <2>1 DEF RecomputeReady, Promotable, StatusStep, StatusChange, IdleIfGone
<1>3. ASSUME NEW t \in Tasks, LeaseLapses(t) \/ HeartbeatAges(t) \/ GraceEnds(t)
      PROVE  StatusStep /\ UNCHANGED links
  BY <1>3, RowsAreRows, StatusKept, OneRow DEF LeaseLapses, HeartbeatAges, GraceEnds, TaskRow
<1>4. ASSUME NEW r, RunAges(r)
      PROVE  StatusStep /\ UNCHANGED links
  BY <1>4, SameRows DEF RunAges
<1> QED BY <1>1, <1>2, <1>3, <1>4 DEF BoardStep, Clock

LEMMA StepStatus ==
    ASSUME Sound, [BoardNext]_boardVars
    PROVE  StatusStep
  BY EngineStatus, OperatorStatus, BoardStatus, SameRows DEF BoardNext, boardVars

\* claim_task is the only way into running, and it looks at the parents.
THEOREM EarlyStartImpossible == BoardSpec => NoEarlyStart
<1>1. Sound /\ [BoardNext]_boardVars =>
          [\A t \in Tasks :
               tasks[t].status # "running" /\ tasks'[t].status = "running"
                   => ParentsTerminal(t)]_boardVars
  BY StepStatus DEF StatusStep, StatusChange
<1> QED BY <1>1, BoardSound, PTL DEF BoardSpec, NoEarlyStart

\* A running task is claimed: the lock that its lease, its heartbeats and its
\* watchdogs compare is never NULL.
RunningIsClaimed ==
    \A t \in Tasks : tasks[t].status = "running" => tasks[t].lock \in Claimers

LEMMA ClaimedStep ==
    ASSUME Sound, RunningIsClaimed, [BoardNext]_boardVars
    PROVE  RunningIsClaimed'
  BY StepStatus DEF StatusStep, StatusChange, RunningIsClaimed

GoneIsIdle == \A t \in Tasks : IdleIfGone(tasks[t])

LEMMA GoneStep ==
    ASSUME Sound, GoneIsIdle, [BoardNext]_boardVars
    PROVE  GoneIsIdle'
  BY StepStatus DEF StatusStep, StatusChange, GoneIsIdle, IdleIfGone

LEMMA GoneInit == BoardInit => GoneIsIdle
  BY DEF BoardInit, GoneIsIdle, IdleIfGone, NewRow

LEMMA ClaimedInit == BoardInit => RunningIsClaimed
  BY DEF BoardInit, RunningIsClaimed, NewRow

----------------------------------------------------------------------------
(* Acyclic graphs *)

\* What _would_cycle refuses is enough: a link from p to a c that does not reach
\* p makes no cycle.
LEMMA LinkAcyclic ==
    ASSUME AcyclicRelation(links), NEW p \in Tasks, NEW c \in Tasks, ~WouldCycle(p, c)
    PROVE  AcyclicRelation(links \union {<<p, c>>})
<1>1. PICK S \in SUBSET Tasks :
          /\ c \in S /\ p \notin S
          /\ \A x \in S, y \in Tasks : <<x, y>> \in links => y \in S
  BY DEF WouldCycle
<1> SUFFICES ASSUME NEW U \in SUBSET Tasks, U # {}
             PROVE  \E x \in U : \A q \in U : <<q, x>> \notin links \union {<<p, c>>}
  BY DEF AcyclicRelation
<1>2. CASE U \subseteq S
  BY <1>1, <1>2 DEF AcyclicRelation
<1>3. CASE U \ S # {}
  <2>1. PICK x \in U \ S : \A q \in U \ S : <<q, x>> \notin links
    BY <1>3 DEF AcyclicRelation
  <2>2. \A q \in U : <<q, x>> \notin links
    BY <1>1, <2>1
  <2> QED BY <1>1, <2>1, <2>2
<1> QED BY <1>2, <1>3

\* Links to a new task make no cycle.
LEMMA CreateAcyclic ==
    ASSUME AcyclicRelation(links), NEW t \in Tasks, NEW P \in SUBSET Tasks, t \notin P,
           \A x \in Tasks : <<t, x>> \notin links
    PROVE  AcyclicRelation(links \union {<<p, t>> : p \in P})
<1> SUFFICES ASSUME NEW U \in SUBSET Tasks, U # {}
             PROVE  \E x \in U : \A q \in U : <<q, x>> \notin links \union {<<p, t>> : p \in P}
  BY DEF AcyclicRelation
<1>1. CASE U \subseteq {t}
  BY <1>1
<1>2. CASE U \ {t} # {}
  <2>1. PICK x \in U \ {t} : \A q \in U \ {t} : <<q, x>> \notin links
    BY <1>2 DEF AcyclicRelation
  <2> QED BY <2>1
<1> QED BY <1>1, <1>2

\* Kahn's check on the siblings is enough: new tasks have no other parents.
LEMMA DecomposeAcyclic ==
    ASSUME AcyclicRelation(links), NEW t \in Tasks, NEW C \in SUBSET Tasks, t \notin C,
           NEW L \in SUBSET (C \X C), AcyclicRelation(L),
           \A x \in Tasks, c \in C : <<x, c>> \notin links
    PROVE  AcyclicRelation(links \union L \union {<<c, t>> : c \in C})
<1> SUFFICES ASSUME NEW U \in SUBSET Tasks, U # {}
             PROVE  \E x \in U : \A q \in U :
                        <<q, x>> \notin links \union L \union {<<c, t>> : c \in C}
  BY DEF AcyclicRelation
<1>1. CASE U \intersect C # {}
  <2>1. PICK x \in U \intersect C : \A q \in U \intersect C : <<q, x>> \notin L
    BY <1>1 DEF AcyclicRelation
  <2> QED BY <2>1
<1>2. CASE U \intersect C = {}
  <2>1. PICK x \in U : \A q \in U : <<q, x>> \notin links
    BY DEF AcyclicRelation
  <2> QED BY <1>2, <2>1
<1> QED BY <1>1, <1>2

LEMMA LinksStep == WellLinked /\ [BoardNext]_boardVars => WellLinked'
<1> SUFFICES ASSUME WellLinked, [BoardNext]_boardVars PROVE WellLinked'
  OBVIOUS
<1> USE DEF WellLinked
<1>1. Sound'
  BY StepSound
<1>2. \A x \in Tasks : tasks'[x].status = "absent" => tasks[x].status = "absent"
  BY StepStatus DEF StatusStep, StatusChange
<1>3. CASE links' \subseteq links
  <2>1. Acyclic'
    BY <1>3 DEF Acyclic, AcyclicRelation
  <2> QED BY <1>1, <1>2, <1>3, <2>1 DEF LinksOfCreated
<1>4. ASSUME NEW t \in Tasks, NEW P \in SUBSET Tasks, NEW how, CreateTask(t, how, P)
      PROVE  Acyclic' /\ LinksOfCreated'
  <2>1. /\ links' = links \union {<<p, t>> : p \in P}
        /\ tasks[t].status = "absent" /\ \A p \in P : tasks[p].status # "absent"
        /\ tasks'[t].status # "absent"
    BY <1>4 DEF CreateTask, Present, Put, NewRow, Sound, TypeOK
  <2>2. Acyclic'
    BY <2>1, CreateAcyclic DEF Acyclic, LinksOfCreated
  <2> QED BY <1>2, <2>1, <2>2 DEF LinksOfCreated
<1>5. ASSUME NEW p \in Tasks, NEW c \in Tasks, LinkTasks(p, c)
      PROVE  Acyclic' /\ LinksOfCreated'
  <2>1. /\ links' = links \union {<<p, c>>} /\ ~WouldCycle(p, c)
        /\ tasks[p].status # "absent" /\ tasks[c].status # "absent"
    BY <1>5 DEF LinkTasks, Present
  <2>2. Acyclic'
    BY <2>1, LinkAcyclic DEF Acyclic
  <2> QED BY <1>2, <2>1, <2>2 DEF LinksOfCreated
<1>6. ASSUME NEW t \in Tasks, NEW C \in SUBSET Tasks, NEW L \in SUBSET (C \X C),
             DecomposeTriage(t, C, L)
      PROVE  Acyclic' /\ LinksOfCreated'
  <2>1. /\ links' = links \union L \union {<<c, t>> : c \in C} /\ AcyclicRelation(L)
        /\ tasks[t].status = "triage" /\ \A c \in C : tasks[c].status = "absent"
        /\ \A c \in C : tasks'[c].status # "absent"
    BY <1>6 DEF DecomposeTriage, NewRow
  <2>2. Acyclic'
    BY <2>1, DecomposeAcyclic DEF Acyclic, LinksOfCreated
  <2> QED BY <1>2, <2>1, <2>2 DEF LinksOfCreated
<1>7. \/ links' \subseteq links
      \/ \E t \in Tasks, P \in SUBSET Tasks, how \in {"", "triage", "park"} : CreateTask(t, how, P)
      \/ \E p, c \in Tasks : LinkTasks(p, c)
      \/ \E t \in Tasks, C \in SUBSET Tasks : \E L \in SUBSET (C \X C) : DecomposeTriage(t, C, L)
  <2>1. CASE \E t \in Tasks : EngineStep(t)
    BY <2>1, EngineStatus
  <2>2. CASE BoardStep \/ Clock \/ UNCHANGED boardVars
    BY <2>2, BoardStatus DEF boardVars
  <2>3. ASSUME NEW t \in Tasks, OperatorStep(t)
        PROVE  \/ links' \subseteq links
               \/ \E P \in SUBSET Tasks, how \in {"", "triage", "park"} : CreateTask(t, how, P)
               \/ \E c \in Tasks : LinkTasks(t, c)
               \/ \E C \in SUBSET Tasks : \E L \in SUBSET (C \X C) : DecomposeTriage(t, C, L)
    BY <2>3 DEF OperatorStep, UnlinkTasks, AssignTask, PromoteTask, UnblockTask, SpecifyTriage,
                ArchiveTask, DeleteArchivedTask, DeleteTask, ScheduleTask, MoveCard, ReclaimTask,
                CompleteTask, BlockTask, Finish, ClearFailureCounter
  <2> QED BY <2>1, <2>2, <2>3 DEF BoardNext
<1> QED BY <1>1, <1>3, <1>4, <1>5, <1>6, <1>7 DEF Acyclic

\* No sequence of create, link, unlink, decompose and delete calls closes a
\* cycle of dependencies, however the calls interleave.
THEOREM BoardAcyclic == BoardSpec => []Acyclic
<1>1. BoardInit => WellLinked
  <2> SUFFICES ASSUME BoardInit PROVE Acyclic /\ LinksOfCreated
    BY InitSound DEF WellLinked
  <2>1. links = InitialLinks
    BY DEF BoardInit
  <2>2. \A t \in Initial : tasks[t].status # "absent"
    BY BoardAssumption DEF BoardInit, NewRow
  <2> QED BY <2>1, <2>2, BoardAssumption, LinksAssumption DEF Acyclic, LinksOfCreated
<1>2. WellLinked => Acyclic
  BY DEF WellLinked
<1> QED BY <1>1, <1>2, LinksStep, PTL DEF BoardSpec

=============================================================================
