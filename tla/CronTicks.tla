----------------------------- MODULE CronTicks ------------------------------
(***************************************************************************)
(* One scheduled job (cron/jobs.py, cron/scheduler.py): the gateway's      *)
(* ticker and manual ticks from the command line, in processes that crash  *)
(* and come back, with a user who edits the job meanwhile.  Ticks exclude  *)
(* each other by a file lock; the jobs file is read and written back as a  *)
(* whole, under a lock that only the threads of one process share, and     *)
(* without any by the edits.                                               *)
(*                                                                         *)
(* Left out: the other jobs, delivery, the two thread pools (a run may     *)
(* take any time to begin), schedules that cannot be computed, the repeat  *)
(* limit of a recurring job (counted where Marks is).                      *)
(***************************************************************************)
EXTENDS Integers

CONSTANTS
    Tickers,        \* processes that tick
    Sync,           \* those that wait for their jobs: manual ticks
    JobKinds,       \* among "once", "recurring"
    Period, Grace,  \* of a recurring job: how often, and how late it may start
    OneShotGrace,   \* ONESHOT_GRACE_SECONDS
    MaxTime, MaxEdits, MaxCrashes   \* bounds

ASSUME CronAssumption ==
    /\ Sync \subseteq Tickers /\ JobKinds \subseteq {"once", "recurring"}
    /\ {Period, Grace, OneShotGrace, MaxTime, MaxEdits, MaxCrashes} \subseteq Nat
    /\ Period > 0

VARIABLES
    clock,
    kind,       \* schedule.kind
    job,        \* its record in jobs.json
    tickLock,   \* the processes that hold the flock: at most one
    ticker,     \* each process: its tick
    io,         \* the operation inside _jobs_file_lock, with the jobs it loaded
    run,        \* its run of the job: none, running, marking, releasing
    inFlight,   \* the job is in _running_job_ids
    edit,       \* a user's update_job or remove_job, with the jobs it loaded
    edits, crashes,
    served,     \* history: the runs started for each due time, less the times
                \* the user asked for one more
    torn        \* history: somebody wrote over what another had written

cronVars == <<clock, kind, job, tickLock, ticker, io, run, inFlight, edit,
              edits, crashes, served, torn>>
historyVars == <<served, torn>>
boundVars == <<clock, kind, edits, crashes>>

Never == -1     \* next_run_at is None
RunAt == 1      \* run_at of the one-shot job

\* there: it is in the file.  ran: last_run_at is set.
JobRecords == [there : BOOLEAN, enabled : BOOLEAN, paused : BOOLEAN,
               ran : BOOLEAN, next : Int]

\* _recoverable_oneshot_run_at, and compute_next_run.
Recoverable(ran) == ~ran /\ RunAt >= clock - OneShotGrace
NextRun(ran) ==
    IF kind = "recurring" THEN clock + Period
    ELSE IF Recoverable(ran) THEN RunAt ELSE Never

Blank == [there |-> FALSE, enabled |-> FALSE, paused |-> FALSE, ran |-> FALSE,
          next |-> Never]
Nothing == [op |-> "none", jobs |-> Blank]
NoTick == [at |-> "idle", due |-> Never]

CronInit ==
    /\ clock = 0 /\ edits = 0 /\ crashes = 0 /\ kind \in JobKinds
    /\ job = [there |-> TRUE, enabled |-> TRUE, paused |-> FALSE, ran |-> FALSE,
              next |-> IF kind = "recurring" THEN Period ELSE RunAt]
    /\ tickLock = {}
    /\ ticker = [p \in Tickers |-> NoTick]
    /\ io = [p \in Tickers |-> Nothing]
    /\ run = [p \in Tickers |-> "none"]
    /\ inFlight = [p \in Tickers |-> FALSE]
    /\ edit = Nothing
    /\ served = [d \in 0..MaxTime |-> 0] /\ torn = FALSE

\* save_jobs writes the whole file, from what was loaded.
Save(loaded, written) ==
    /\ job' = written
    /\ torn' = (torn \/ job # loaded)

\* Inside _jobs_file_lock: load the jobs for an operation, and leave it.
Enter(p, op) ==
    /\ io[p] = Nothing
    /\ io' = [io EXCEPT ![p] = [op |-> op, jobs |-> job]]
    /\ UNCHANGED <<boundVars, historyVars, job, tickLock, ticker, run, inFlight, edit>>
Leave(p) == io' = [io EXCEPT ![p] = Nothing]

----------------------------------------------------------------------------
(* A tick.                                                                 *)

TickBegins(p) ==
    /\ ticker[p].at = "idle" /\ tickLock = {}
    /\ tickLock' = {p}
    /\ ticker' = [ticker EXCEPT ![p].at = "selecting"]
    /\ UNCHANGED <<boundVars, historyVars, job, io, run, inFlight, edit>>

TickOver(p) ==
    /\ ticker' = [ticker EXCEPT ![p] = NoTick]
    /\ tickLock' = {}

SelectLoads(p) == ticker[p].at = "selecting" /\ Enter(p, "select")

\* A job without a next run gets one, if it still may run.
Selectable(j) == j.there /\ j.enabled
DueTime(j) == IF j.next # Never THEN j.next
              ELSE IF kind = "recurring" THEN clock + Period
              ELSE IF Recoverable(j.ran) THEN RunAt ELSE Never
TooLate(j) == kind = "recurring" /\ clock - DueTime(j) > Grace
IsDue(j) == Selectable(j) /\ DueTime(j) # Never /\ DueTime(j) <= clock /\ ~TooLate(j)

\* get_due_jobs: a recovered or fast-forwarded time is saved.
Selects(p) ==
    LET j == io[p].jobs
        next == IF Selectable(j) /\ TooLate(j) /\ DueTime(j) # Never
                THEN clock + Period
                ELSE IF Selectable(j) THEN DueTime(j) ELSE j.next
    IN /\ io[p].op = "select" /\ Leave(p)
       /\ IF next # j.next THEN Save(j, [j EXCEPT !.next = next])
                           ELSE UNCHANGED <<job, torn>>
       /\ IF IsDue(j)
          THEN /\ ticker' = [ticker EXCEPT ![p] = [at |-> "advancing", due |-> DueTime(j)]]
               /\ UNCHANGED tickLock
          ELSE TickOver(p)
       /\ UNCHANGED <<boundVars, served, run, inFlight, edit>>

AdvanceLoads(p) == ticker[p].at = "advancing" /\ Enter(p, "advance")

Advanced(p, loaded, written) ==
    /\ IF loaded.there /\ written # loaded THEN Save(loaded, written)
                                           ELSE UNCHANGED <<job, torn>>
    /\ io[p].op = "advance" /\ Leave(p)
    /\ ticker' = [ticker EXCEPT ![p].at = "dispatching"]
    /\ UNCHANGED <<boundVars, served, tickLock, run, inFlight, edit>>
\* Mutant of Advances: the next run is left to mark_job_run.
AdvancesNothing(p) == Advanced(p, io[p].jobs, io[p].jobs)
\* Mutant of Advances: one-shot jobs too.
AdvancesAll(p) ==
    LET j == io[p].jobs
    IN Advanced(p, j, [j EXCEPT !.next = IF kind = "recurring" THEN clock + Period
                                         ELSE Never])
\* advance_next_run: only a recurring job's, before it runs.
Advances(p) ==
    LET j == io[p].jobs
    IN Advanced(p, j, IF kind = "recurring" THEN [j EXCEPT !.next = clock + Period] ELSE j)

\* _submit_with_guard.  A manual tick keeps the file lock until its job is done.
Dispatches(p) ==
    /\ ticker[p].at = "dispatching"
    /\ IF inFlight[p] THEN UNCHANGED <<run, inFlight, served>>
       ELSE /\ run' = [run EXCEPT ![p] = "running"]
            /\ inFlight' = [inFlight EXCEPT ![p] = TRUE]
            /\ served' = [served EXCEPT ![ticker[p].due] = @ + 1]
    /\ IF p \in Sync /\ ~inFlight[p]
       THEN ticker' = [ticker EXCEPT ![p].at = "joining"] /\ UNCHANGED tickLock
       ELSE TickOver(p)
    /\ UNCHANGED <<boundVars, torn, job, io, edit>>

Joined(p) ==
    /\ ticker[p].at = "joining" /\ run[p] = "none" /\ TickOver(p)
    /\ UNCHANGED <<boundVars, historyVars, job, io, run, inFlight, edit>>

----------------------------------------------------------------------------
(* A run: _process_job.                                                    *)

RunEnds(p) ==
    /\ run[p] = "running" /\ run' = [run EXCEPT ![p] = "marking"]
    /\ UNCHANGED <<boundVars, historyVars, job, tickLock, ticker, io, inFlight, edit>>

MarkLoads(p) == run[p] = "marking" /\ Enter(p, "mark")

\* mark_job_run.  A one-shot job has had its one repeat and is removed.
Marks(p) ==
    LET j == io[p].jobs
    IN /\ io[p].op = "mark" /\ Leave(p)
       /\ IF ~j.there THEN UNCHANGED <<job, torn>>
          ELSE Save(j, IF kind = "once" THEN Blank
                       ELSE [j EXCEPT !.ran = TRUE, !.next = NextRun(TRUE)])
       /\ run' = [run EXCEPT ![p] = "releasing"]
       /\ UNCHANGED <<boundVars, served, tickLock, ticker, inFlight, edit>>

Released(p, freed) ==
    /\ run[p] = "releasing" /\ run' = [run EXCEPT ![p] = "none"]
    /\ inFlight' = [inFlight EXCEPT ![p] = ~freed]
    /\ UNCHANGED <<boundVars, historyVars, job, tickLock, ticker, io, edit>>
\* Mutant of Releases: a job that was removed meanwhile is not released.
ReleasesKnown(p) == Released(p, job.there)
\* The worker's finally.
Releases(p) == Released(p, TRUE)

----------------------------------------------------------------------------
(* The user, crashes, time.                                                *)

Edits == {"pause", "resume", "trigger", "remove"}

EditLoads(op) ==
    /\ edit = Nothing /\ edits < MaxEdits /\ job.there
    /\ edits' = edits + 1
    /\ edit' = [op |-> op, jobs |-> job]
    /\ UNCHANGED <<historyVars, clock, kind, crashes, job, tickLock, ticker, io,
                   run, inFlight>>

\* pause_job, resume_job, trigger_job through update_job; remove_job.
Edited(j) ==
    CASE edit.op = "pause" -> [j EXCEPT !.enabled = FALSE, !.paused = TRUE]
      [] edit.op = "resume" -> [j EXCEPT !.enabled = TRUE, !.paused = FALSE,
                                         !.next = NextRun(FALSE)]
      [] edit.op = "trigger" -> [j EXCEPT !.enabled = TRUE, !.paused = FALSE,
                                          !.next = clock]
      [] edit.op = "remove" -> Blank

EditSaves ==
    /\ edit # Nothing /\ edit' = Nothing
    /\ Save(edit.jobs, Edited(edit.jobs))
    /\ served' = IF edit.op = "trigger" THEN [served EXCEPT ![clock] = @ - 1]
                ELSE served
    /\ UNCHANGED <<boundVars, tickLock, ticker, io, run, inFlight>>

\* The process dies; the system frees its flock.
Crashes(p) ==
    /\ crashes < MaxCrashes /\ crashes' = crashes + 1
    /\ ticker[p] # NoTick \/ run[p] # "none"
    /\ tickLock' = tickLock \ {p}
    /\ ticker' = [ticker EXCEPT ![p] = NoTick]
    /\ Leave(p)
    /\ run' = [run EXCEPT ![p] = "none"]
    /\ inFlight' = [inFlight EXCEPT ![p] = FALSE]
    /\ UNCHANGED <<historyVars, clock, kind, edits, job, edit>>

Passes ==
    /\ clock < MaxTime /\ clock' = clock + 1
    /\ UNCHANGED <<historyVars, kind, edits, crashes, job, tickLock, ticker, io,
                   run, inFlight, edit>>

----------------------------------------------------------------------------
TickSteps(p) ==
    \/ TickBegins(p) \/ SelectLoads(p) \/ Selects(p) \/ AdvanceLoads(p) \/ Advances(p)
    \/ Dispatches(p) \/ Joined(p)
RunSteps(p) == RunEnds(p) \/ MarkLoads(p) \/ Marks(p) \/ Releases(p)

CronNext ==
    \/ \E p \in Tickers : TickSteps(p) \/ RunSteps(p) \/ Crashes(p)
    \/ \E op \in Edits : EditLoads(op)
    \/ EditSaves \/ Passes

CronSpec == CronInit /\ [][CronNext]_cronVars

\* The gateway's ticker never stops ticking, and sleeps between its ticks, so
\* that the lock of the jobs file is free for the runs; a run ends, within its
\* time-outs.  Nobody need tick by hand, but a tick that began goes on.
ContinuesTick(p) == ticker[p].at # "idle" /\ TickSteps(p)
CronFairness ==
    /\ \A p \in Tickers \ Sync : SF_cronVars(TickSteps(p)) /\ SF_cronVars(RunSteps(p))
    /\ \A p \in Sync : WF_cronVars(ContinuesTick(p) \/ RunSteps(p))

----------------------------------------------------------------------------
CronTypeOK ==
    /\ clock \in 0..MaxTime /\ edits \in 0..MaxEdits /\ crashes \in 0..MaxCrashes
    /\ kind \in JobKinds
    /\ job \in JobRecords /\ edit.jobs \in JobRecords
    /\ edit.op \in Edits \union {"none"}
    /\ tickLock \subseteq Tickers
    /\ \A p \in Tickers :
         /\ ticker[p].at \in {"idle", "selecting", "advancing", "dispatching", "joining"}
         /\ ticker[p].due \in Int
         /\ io[p].op \in {"none", "select", "advance", "mark"}
         /\ io[p].jobs \in JobRecords
         /\ run[p] \in {"none", "running", "marking", "releasing"}
         /\ inFlight[p] \in BOOLEAN
    /\ served \in [0..MaxTime -> Int] /\ torn \in BOOLEAN

\* At most once: no due time of a recurring job is served twice, not by two
\* processes, not after a crash, not when a run takes longer than the period;
\* unless somebody wrote over another's change of the file.
AtMostOnce == kind = "recurring" /\ ~torn => \A d \in 0..MaxTime : served[d] <= 1

\* At least once: a one-shot job runs, even if the process dies with it, unless
\* the user takes it back, or resumes it too late for it to have a next run, or
\* a change of the file was written over.
ResumedTooLate == edits > 0 /\ job.next = Never
OneShotRuns ==
    kind = "once" /\ clock >= RunAt ~>
      ~job.there \/ ~job.enabled \/ ResumedTooLate \/ torn

\* A job is not in flight for ever: what was removed or failed meanwhile is
\* skipped no longer than it runs.
InFlightEnds == []<>(\A p \in Tickers : ~inFlight[p])

=============================================================================
