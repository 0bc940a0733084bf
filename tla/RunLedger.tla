----------------------------- MODULE RunLedger -----------------------------
(***************************************************************************)
(* What the board promises about attempts, whoever writes to it: each task *)
(* has at most one open attempt, an attempt is numbered once and for all,  *)
(* its outcome is written exactly once, and history is only ever erased    *)
(* together with its task.  Stated without claims, locks, leases, pids or  *)
(* statuses: this is what table task_runs is for.                          *)
(***************************************************************************)
EXTENDS Naturals, Sequences

CONSTANTS Tasks, Outcomes   \* how an attempt may end, and "open"

VARIABLE ledger     \* sequence of [task, outcome]

Attempt == [task: Tasks, outcome: Outcomes \union {"open", "deleted"}]

IsOpen(a) == ledger[a].outcome = "open"

\* Closing the attempts of A: each gets its outcome, nothing else changes.
\* Several tasks' attempts may be closed at once, as the crash sweep does.
Closed(A, L) ==
    /\ A \subseteq {a \in 1..Len(ledger) : IsOpen(a)}
    /\ L \in Seq(Attempt) /\ Len(L) = Len(ledger)
    /\ \A a \in 1..Len(ledger) :
           /\ L[a].task = ledger[a].task
           /\ IF a \in A THEN L[a].outcome \in Outcomes \ {"open", "deleted"}
              ELSE L[a] = ledger[a]

Close == \E A \in SUBSET (1..Len(ledger)) : Closed(A, ledger')

\* A new attempt, after closing what the task may have left open.
Start(t) ==
    \E A \in SUBSET {a \in 1..Len(ledger) : ledger[a].task = t} :
        LET L == SubSeq(ledger', 1, Len(ledger))
        IN /\ ledger' = Append(L, [task |-> t, outcome |-> "open"])
           /\ Closed(A, L)
           /\ \A a \in 1..Len(ledger) : ledger[a].task = t => L[a].outcome # "open"

\* An attempt recorded after the fact, for a task that has none open.
Record(t, o) ==
    /\ \A a \in 1..Len(ledger) : ledger[a].task = t => ~IsOpen(a)
    /\ ledger' = Append(ledger, [task |-> t, outcome |-> o])

\* The task is deleted and its attempts with it.
Erase(t) ==
    ledger' = [a \in 1..Len(ledger) |->
                   IF ledger[a].task = t THEN [task |-> t, outcome |-> "deleted"]
                   ELSE ledger[a]]

Init == ledger = <<>>

Next == \/ Close
        \/ \E t \in Tasks : Start(t) \/ Erase(t)
        \/ \E t \in Tasks, o \in Outcomes \ {"open"} : Record(t, o)

Spec == Init /\ [][Next]_ledger

\* At most one open attempt per task.
OneOpenAttempt ==
    \A a, b \in 1..Len(ledger) :
        IsOpen(a) /\ IsOpen(b) /\ ledger[a].task = ledger[b].task => a = b

=============================================================================
