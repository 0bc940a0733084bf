-------------------------- MODULE MCKanbanDispatch --------------------------
(* Small instances of the board with its dispatchers, workers and operator. *)
EXTENDS KanbanDispatch

CONSTANTS t1, t2, t3

NoOverrides == [t \in Tasks |-> -1]
NoLinks == {}
Chain == {<<t1, t2>>}

=============================================================================
