------------------------------ MODULE Evaluator ------------------------------
(***************************************************************************)
(* What evaluating Syntheto programs promises, with no socket in sight:    *)
(* each program is answered once and for good, either with a failure or    *)
(* with one answer for each of its top-level constructs, in order, every   *)
(* one computed in a world that holds the program's earlier constructs and *)
(* nothing else.                                                           *)
(***************************************************************************)
EXTENDS Naturals, Sequences

CONSTANTS
    Programs,       \* one per execution
    Length,         \* number of constructs of each program
    Construct(_, _) \* the i-th construct of a program

VARIABLE shown

\* The answers program p is entitled to.
Answers(p) ==
    [i \in 1..Length[p] |->
        [cmd |-> Construct(p, i),
         world |-> [j \in 1..(i - 1) |-> Construct(p, j)]]]

Pending == [status |-> "pending"]
Failed  == [status |-> "failed"]
Answered(p) == [status |-> "answered", answers |-> Answers(p)]

Init == shown = [p \in Programs |-> Pending]

Answer(p) ==
    /\ shown[p] = Pending
    /\ shown' = [shown EXCEPT ![p] = Answered(p)]

Fail(p) ==
    /\ shown[p] = Pending
    /\ shown' = [shown EXCEPT ![p] = Failed]

Next == \E p \in Programs : Answer(p) \/ Fail(p)

Spec == Init /\ [][Next]_shown
=============================================================================
