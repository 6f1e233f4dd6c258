--------------------------- MODULE NotebookSession ---------------------------
(***************************************************************************)
(* The notebook together with the language servers it talks to and the one *)
(* ACL2 world behind all servers.  Each request that reaches a server is a *)
(* job of JobServer: CommandService.execute and, in generate, a reset and  *)
(* one command per construct, a cell having one.                           *)
(*                                                                         *)
(* JobServer is what BridgeSession implements of executions that do not    *)
(* overlap, as long as ACL2 refuses nothing and answers readably.  Saving  *)
(* and exporting take no part, and CommandService transforms nothing.      *)
(***************************************************************************)
EXTENDS NotebookKernel

VARIABLES
    jobs,           \* per number of an execution: what a server does for it, till
                    \* that is answered
    world,          \* the constructs ACL2 has evaluated since the last reset
    overlapped      \* history: two jobs were under way at once on this server,
                    \* or one and what a server that died had sent

server == <<jobs, world, overlapped>>
allVars == <<vars, server>>

Orders == 1..MaxRuns

Server == INSTANCE JobServer WITH Jobs <- Orders, Constructs <- Line

ASSUME NoneAssumption == None \notin Server!Job \cup CellEdit \cup Request

(* Types: a job has an answer for each construct evaluated, no more of them    *)
(* than its program has constructs, and all of them when it is done.           *)
SessionTypeOK ==
    /\ TypeOK
    /\ jobs \in [Orders -> Server!Job \cup {None}]
    /\ world \in Seq(Line)
    /\ overlapped \in BOOLEAN
    /\ \A r \in Orders : jobs[r] # None =>
         /\ Len(jobs[r].answers) <= Len(jobs[r].program)
         /\ jobs[r].state = "done" => Server!Complete(jobs[r])

SessionInit == Init /\ Server!Init /\ overlapped = FALSE

-----------------------------------------------------------------------------
(* The notebook's side. *)

\* The language server, if there is one, takes on every request at once.
Execute(selected) ==
    LET Sent(r) == {c \in selected : /\ request'[c] # None /\ request'[c].order = r
                                     /\ request'[c].served}
        new == {r \in Orders : Sent(r) # {}}
    IN
    /\ ExecuteAll(selected)
    /\ jobs' = [r \in Orders |->
                  IF r \in new
                    THEN Server!NewJob(request'[CHOOSE c \in Sent(r) : TRUE].program)
                    ELSE jobs[r]]
    /\ overlapped' = (\/ overlapped \/ Cardinality(new) > 1
                      \/ new # {} /\ \E r \in Orders : Server!UnderWay(r))
    /\ UNCHANGED world

\* What the request of c was told is all there is left of its job.  The job of a
\* request that is rejected may still have a command on its way.
Forget(c) ==
    /\ IF request[c].served THEN Server!Forget(request[c].order)
                            ELSE UNCHANGED <<jobs, world>>
    /\ UNCHANGED overlapped

\* Variant: the answer is not waited for.
AnsweredEarly(c) ==
    /\ UNCHANGED <<edit, server>> /\ DoExecuteCell(c)
    /\ c \in executing => ~outputs'[c].success

\* Variant: only a success is answered.
AnsweredIfDone(c) ==
    /\ UNCHANGED edit /\ DoExecuteCell(c) /\ Forget(c)
    /\ request[c].served => jobs[request[c].order].state = "done"
    /\ c \in executing => outputs'[c].success = request[c].served

\* The answer comes when the job has ended, and says how.
Answered(c) ==
    LET job == jobs[request[c].order] IN
    /\ UNCHANGED edit /\ DoExecuteCell(c) /\ Forget(c)
    /\ c \in executing => outputs'[c].success = (request[c].served /\ job.state = "done")

\* Deleting a cell or closing a notebook stops no job.
Gesture ==
    /\ \/ Activate \/ ServerReady \/ Focus
       \/ \E nb \in Notebooks : OpenNotebook(nb) \/ CloseNotebook(nb)
       \/ \E c \in Cells : EditCell(c) \/ DeleteCell(c)
       \/ \E c \in Cells : \E i \in 0..Len(cells[Home[c]]) : InsertCell(c, i)
    /\ UNCHANGED server

-----------------------------------------------------------------------------
(* The servers' side. *)

\* A server goes on with a job.
Work(r) == Server!Work(r) /\ UNCHANGED <<vars, overlapped>>

LeftBehind(r) == Server!LeftBehind(r) /\ UNCHANGED <<vars, overlapped>>

ServerDies == ServerStops /\ Server!ServerDies /\ overlapped' = FALSE

ACL2Dies == Server!ACL2Dies /\ UNCHANGED <<vars, overlapped>>

SessionNext ==
    \/ Gesture \/ ServerDies \/ ACL2Dies
    \/ \E nb \in Notebooks :
         \E selected \in SUBSET (ToSet(cells[nb]) \cap Code) : Execute(selected)
    \/ \E c \in Cells : Answered(c)
    \/ \E r \in Orders : Work(r) \/ LeftBehind(r)

SessionSpec == SessionInit /\ [][SessionNext]_allVars

\* A job goes on until it ends; what it answers is received.
SessionFairness ==
    /\ \A c \in Cells : WF_allVars(Answered(c))
    /\ \A r \in Orders : WF_allVars(Work(r))

FairSessionSpec == SessionSpec /\ SessionFairness

-----------------------------------------------------------------------------
(* Properties. *)

\* The answers a program is entitled to, as in Evaluator.
Answers(program) ==
    [i \in 1..Len(program) |->
        [construct |-> program[i], world |-> SubSeq(program, 1, i - 1)]]

(* What the servers are asked, and what becomes of it, is what JobServer       *)
(* allows.  No execution gets the number of one that a server still works for, *)
(* or that is not answered: its job would be overwritten, and the answer to    *)
(* the one shown under the cell of the other.                                  *)
ServesJobs == Server!Spec

(* A success appears under a cell only when ACL2 has evaluated the code that   *)
(* the notebook had up to the cell when it was run, all of it, each construct  *)
(* in the world of the ones before it: unless jobs have overlapped since the   *)
(* server started, whatever was deleted, closed, reopened or died meanwhile.   *)
ShownIsEvaluated ==
    [][\A c \in Cells :
         /\ request[c] # None /\ request'[c] = None /\ c \in executing
         /\ Here(c)' /\ outputs'[c].success
         => overlapped \/ jobs[request[c].order].answers = Answers(outputs'[c].of)]_allVars

Shown(r) == \E c \in executing : request[c] # None /\ request[c].order = r

(* While a server works on a program some cell is shown to be running, unless  *)
(* that was deleted or its notebook closed: who waits for the cells to end     *)
(* before running another makes no jobs overlap.                               *)
WorkIsShown ==
    [][\A r \in Orders :
         /\ Server!UnderWay(r)' /\ jobs'[r].served
         /\ Server!UnderWay(r) => Shown(r)
         /\ \A c \in Cells : Here(c) => Here(c)'
         => Shown(r)']_allVars
=============================================================================
