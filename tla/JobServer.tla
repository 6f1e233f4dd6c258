------------------------------ MODULE JobServer ------------------------------
(***************************************************************************)
(* What language servers do for the programs they are sent, and the one    *)
(* ACL2 world they all do it in.  A program is a job: the world is reset,  *)
(* then one construct after another is evaluated, and the job is done, or  *)
(* it fails somewhere on the way.  Jobs may overlap.                       *)
(*                                                                         *)
(* Between CommandService.execute and the sockets: of the bridge, only     *)
(* that a command is carried out and its own answer read, or none.         *)
(* BridgeSession implements this while executions do not overlap and ACL2  *)
(* refuses nothing and answers readably; NotebookSession is built on it.   *)
(***************************************************************************)
EXTENDS Naturals, Sequences

CONSTANTS
    Jobs,           \* names of jobs, each used for one program at a time
    Constructs,
    None            \* no job of that name; itself not a job

VARIABLES
    jobs,           \* per name: what a server does for it, till it is forgotten
    world           \* the constructs ACL2 has evaluated since the last reset

Answer == [construct: Constructs, world: Seq(Constructs)]

\* A job is cut off when it has no connection to ACL2, or one to an ACL2 that
\* died.  It knows whether the server that began it still runs.
Job == [program: Seq(Constructs),
        state: {"begun", "running", "cut off", "done", "failed"},
        answers: Seq(Answer), served: BOOLEAN]

Init == jobs = [r \in Jobs |-> None] /\ world = <<>>

UnderWay(r) == jobs[r] # None /\ jobs[r].state \in {"begun", "running", "cut off"}

Served(r) == UnderWay(r) /\ jobs[r].served

NewJob(program) ==
    [program |-> program, state |-> "begun", answers |-> <<>>, served |-> TRUE]

\* Programs are taken up; one that is invalid fails without more.
Begin(new) ==
    /\ \A r \in new :
         /\ jobs[r] = None
         /\ jobs'[r] \in Job
         /\ jobs'[r] \in {NewJob(jobs'[r].program),
                          [NewJob(jobs'[r].program) EXCEPT !.state = "failed"]}
    /\ jobs' = [r \in Jobs |-> IF r \in new THEN jobs'[r] ELSE jobs[r]]
    /\ UNCHANGED world

\* Variant: the world is not reset.
ResetSkipped(r) ==
    /\ Served(r) /\ jobs[r].state = "begun"
    /\ jobs' = [jobs EXCEPT ![r].state = "running"]
    /\ UNCHANGED world

\* checkBridgeConnected.
Reset(r) ==
    /\ Served(r) /\ jobs[r].state = "begun"
    /\ jobs' = [jobs EXCEPT ![r].state = "running"]
    /\ world' = <<>>

\* checkBridgeConnected catches what goes wrong, and generate goes on without a
\* connection that works.
ResetFails(r) ==
    /\ Served(r) /\ jobs[r].state = "begun"
    /\ jobs' = [jobs EXCEPT ![r].state = "cut off"]
    /\ UNCHANGED world

Complete(job) == Len(job.answers) = Len(job.program)

NextConstruct(job) == job.program[Len(job.answers) + 1]

\* The next construct is carried out, and its answer is on its way.
Evaluate(r) ==
    /\ Served(r) /\ jobs[r].state = "running" /\ ~Complete(jobs[r])
    /\ jobs' = [jobs EXCEPT ![r].answers =
                   Append(@, [construct |-> NextConstruct(jobs[r]), world |-> world])]
    /\ world' = Append(world, NextConstruct(jobs[r]))

\* Variant: the loop may end before the last construct.
FinishEarly(r) ==
    /\ Served(r) /\ jobs[r].state \in {"running", "cut off"}
    /\ jobs' = [jobs EXCEPT ![r].state = "done"]
    /\ UNCHANGED world

\* Every construct is answered, the last answer perhaps by an ACL2 that died since.
Finish(r) ==
    /\ Served(r) /\ jobs[r].state \in {"running", "cut off"} /\ Complete(jobs[r])
    /\ jobs' = [jobs EXCEPT ![r].state = "done"]
    /\ UNCHANGED world

\* The program is invalid, or something is thrown: the results are lost, but not
\* what was evaluated.
Fail(r) ==
    /\ Served(r)
    /\ jobs' = [jobs EXCEPT ![r].state = "failed", ![r].answers = <<>>]
    /\ UNCHANGED world

\* The client has been told.
Forget(r) ==
    /\ jobs[r] # None /\ jobs[r].state \in {"done", "failed"}
    /\ jobs' = [jobs EXCEPT ![r] = None]
    /\ UNCHANGED world

\* A server's jobs end with it.  The next one has a connection of its own.
ServerDies ==
    /\ jobs' = [r \in Jobs |-> IF UnderWay(r) THEN [jobs[r] EXCEPT !.served = FALSE]
                               ELSE None]
    /\ UNCHANGED world

\* What such a job had sent is carried out later, or was not sent.
LeftBehind(r) ==
    /\ UnderWay(r) /\ ~jobs[r].served
    /\ jobs' = [jobs EXCEPT ![r] = None]
    /\ \/ UNCHANGED world
       \/ jobs[r].state = "begun" /\ world' = <<>>
       \/ /\ jobs[r].state = "running" /\ ~Complete(jobs[r])
          /\ world' = Append(world, NextConstruct(jobs[r]))

\* ACL2 dies, and may be back at any time.
ACL2Dies ==
    /\ jobs' = [r \in Jobs |-> IF UnderWay(r) /\ jobs[r].state = "running"
                                 THEN [jobs[r] EXCEPT !.state = "cut off"]
                                 ELSE jobs[r]]
    /\ world' = <<>>

Work(r) == Reset(r) \/ ResetFails(r) \/ Evaluate(r) \/ Finish(r) \/ Fail(r)

Next ==
    \/ \E new \in SUBSET Jobs : Begin(new)
    \/ \E r \in Jobs : Work(r) \/ Forget(r) \/ LeftBehind(r)
    \/ ServerDies \/ ACL2Dies

Spec == Init /\ [][Next]_<<jobs, world>>
=============================================================================
