------------------------- MODULE MCNotebookSession -------------------------
(***************************************************************************)
(* An instance of NotebookSession for TLC: a notebook of two code cells.   *)
(***************************************************************************)
EXTENDS NotebookSession

CONSTANTS
    n1, c1, c2,
    MaxBoth,        \* bound on changes and executions together
    MaxOverlapping  \* bound on executions when jobs have overlapped

OneNotebook == {n1}
TwoCells == {c1, c2}
HomeOf == [c \in TwoCells |-> n1]
BothCells == [nb \in OneNotebook |-> <<c1, c2>>]

\* No action that fairness is assumed of makes a change or starts an execution.
Within ==
    /\ changes' + executionOrder' <= MaxBoth
    /\ overlapped' => executionOrder' <= MaxOverlapping

BoundedNext == SessionNext /\ Within

BoundedSpec == SessionInit /\ [][BoundedNext]_allVars /\ SessionFairness
=============================================================================
