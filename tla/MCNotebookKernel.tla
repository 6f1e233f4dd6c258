-------------------------- MODULE MCNotebookKernel --------------------------
(***************************************************************************)
(* Instances of NotebookKernel for TLC: a notebook of two code cells, with *)
(* a markup cell between them and room for another one, and one that is    *)
(* just being created.                                                     *)
(***************************************************************************)
EXTENDS NotebookKernel

CONSTANTS n1, n2, c1, c2, c3, m1

TwoNotebooks == {n1, n2}
FourCells == {c1, c2, c3, m1}
CodeCells == {c1, c3}
HomeOf == [c \in FourCells |-> n1]
FirstContents == [nb \in TwoNotebooks |-> IF nb = n1 THEN <<c1, c2, c3>> ELSE <<>>]
Empty == {n2}
=============================================================================
