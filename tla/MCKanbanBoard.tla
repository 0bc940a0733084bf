--------------------------- MODULE MCKanbanBoard ---------------------------
(* Small instances of the board. *)
EXTENDS KanbanBoard, TLC

CONSTANTS t1, t2, t3

\* No task overrides the failure limit.
NoOverrides == [t \in Tasks |-> -1]

\* t1 allows three attempts of its own.
OverrideT1 == [t \in Tasks |-> IF t = t1 THEN 3 ELSE -1]

TaskSymmetry == Permutations(Tasks)

NoLinks == {}
Chain == {<<t1, t2>>}

=============================================================================
