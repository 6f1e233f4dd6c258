----------------------- MODULE NotebookSessionProofs -----------------------
(***************************************************************************)
(* A success shown under a cell is what ACL2 evaluated of the cell's       *)
(* program, unless jobs have overlapped; and work in progress is shown, so *)
(* that who waits makes none overlap.  For any number of cells, edits,     *)
(* executions and servers that die, while no two notebooks are open at     *)
(* once.  The invariant of the notebook is kept, as each step of the       *)
(* session is one of the notebook; what is added relates the requests to   *)
(* the jobs, and the job under way to the world.                           *)
(***************************************************************************)
EXTENDS NotebookSession, NotebookKernelProofs

ServerTypes ==
    /\ jobs \in [Orders -> Server!Job \cup {None}]
    /\ world \in Seq(Line)
    /\ overlapped \in BOOLEAN

\* What a job has done of its program.
Fits(job) ==
    /\ job.program # <<>>
    /\ Len(job.answers) <= Len(job.program)
    /\ job.state = "done" => Len(job.answers) = Len(job.program)
    /\ job.state \in {"begun", "failed"} => job.answers = <<>>

Fitting == \A r \in Orders : jobs[r] # None => Fits(jobs[r]) /\ r <= executionOrder

\* No two requests have the same number.
Numbered ==
    \A c \in Cells : request[c] # None =>
        /\ request[c].order <= executionOrder
        /\ \A d \in Cells : request[d] # None /\ request[d].order = request[c].order => c = d

\* A request that a server still works for has its job there.
Matched ==
    \A c \in Cells : request[c] # None =>
        LET job == jobs[request[c].order] IN
        /\ request[c].served => job # None /\ job.served /\ job.program = request[c].program
        /\ job # None /\ job.served => request[c].served

\* Each construct so far was evaluated in the world of the ones before it.
Faithful(job) ==
    \A i \in 1..Len(job.answers) :
        job.answers[i] = [construct |-> job.program[i], world |-> SubSeq(job.program, 1, i - 1)]

\* As long as no jobs overlap, one a server works for is alone, even with what
\* servers that died have left behind, and the world is what it made it.
Alone ==
    ~overlapped =>
        \A r \in Orders : jobs[r] # None /\ jobs[r].served =>
            /\ Faithful(jobs[r])
            /\ Server!UnderWay(r) => \A q \in Orders : Server!UnderWay(q) => q = r
            /\ jobs[r].state = "running" =>
                  world = SubSeq(jobs[r].program, 1, Len(jobs[r].answers))

\* A cell that is executing is in its notebook, and one there that waits for an
\* answer is executing.
InPlace ==
    \A c \in Cells :
        /\ c \in executing => Here(c)
        /\ Here(c) /\ request[c] # None => c \in executing
        /\ edit[c] = None

SessionInv ==
    /\ KernelInv /\ ServerTypes /\ Fitting /\ Numbered /\ Matched /\ Alone /\ InPlace

LEMMA InitSession ==
    SessionInit => SessionInv
<1> SUFFICES ASSUME SessionInit PROVE SessionInv
  OBVIOUS
<1>1. KernelInv
  BY InitKernel DEF SessionInit
<1>2. ServerTypes /\ Fitting
  BY EmptySeq DEF SessionInit, Server!Init, Init, ServerTypes, Fitting
<1>4. Numbered /\ Matched /\ InPlace
  BY DEF SessionInit, Init, Server!Init, Numbered, Matched, InPlace
<1>3. Alone
  BY DEF SessionInit, Server!Init, Alone
<1> QED
  BY <1>1, <1>2, <1>3, <1>4 DEF SessionInv

-----------------------------------------------------------------------------
(* The servers' steps. *)

LEMMA SameNotebook ==
    ASSUME SessionInv, UNCHANGED vars
    PROVE  /\ KernelInv' /\ Numbered' /\ InPlace'
           /\ UNCHANGED <<request, executionOrder, executing, cells, edit>>
<1>1. KernelInv'
  BY SameAll DEF SessionInv, KernelInv, TypeOK, vars, editors
<1>2. UNCHANGED <<request, executionOrder, executing, cells, edit>>
  BY DEF vars, execution, documents
<1> QED
  BY <1>1, <1>2 DEF SessionInv, Numbered, InPlace, Here

\* A job that goes on, or ends.
LEMMA JobGoesOn ==
    ASSUME SessionInv, UNCHANGED <<vars, overlapped>>,
           NEW r \in Orders, Server!UnderWay(r), NEW j \in Server!Job, j = jobs[r],
           NEW k \in Server!Job, k # None, jobs' = [jobs EXCEPT ![r] = k],
           k.program = j.program, k.served = j.served, Fits(k),
           j.served, world' \in Seq(Line),
           ~overlapped => /\ Faithful(k)
                          /\ k.state = "running" =>
                                world' = SubSeq(k.program, 1, Len(k.answers))
    PROVE  SessionInv'
<1>1. /\ KernelInv' /\ Numbered' /\ InPlace'
      /\ UNCHANGED <<request, executionOrder>>
  BY SameNotebook
<1>2. /\ jobs' \in [Orders -> Server!Job \cup {None}] /\ jobs'[r] = k
      /\ \A q \in Orders : q # r => jobs'[q] = jobs[q]
  BY DEF SessionInv, ServerTypes
<1>3. ServerTypes'
  BY <1>2 DEF SessionInv, ServerTypes
<1>4. jobs[r] # None
  BY DEF Server!UnderWay
<1>5. Fitting'
  BY <1>1, <1>2, <1>4 DEF SessionInv, Fitting
<1>6. Matched'
  <2> SUFFICES ASSUME NEW c \in Cells, request[c] # None,
                      NEW o \in Orders, o = request[c].order
               PROVE  /\ request[c].served =>
                            /\ jobs'[o] # None /\ jobs'[o].served
                            /\ jobs'[o].program = request[c].program
                      /\ jobs'[o] # None /\ jobs'[o].served => request[c].served
    BY SMTT(30), <1>1 DEF Matched, SessionInv, KernelInv, TypeOK, Request, Orders
  <2>1. /\ request[c].served =>
              jobs[o] # None /\ jobs[o].served /\ jobs[o].program = request[c].program
        /\ jobs[o] # None /\ jobs[o].served => request[c].served
    BY DEF SessionInv, Matched
  <2>2. CASE o = r
    BY <2>1, <2>2, <1>2, <1>4
  <2>3. CASE o # r
    BY <2>1, <2>3, <1>2
  <2> QED
    BY <2>2, <2>3
<1>7. Alone'
  <2> SUFFICES ASSUME ~overlapped, NEW q \in Orders, jobs'[q] # None, jobs'[q].served
               PROVE  /\ Faithful(jobs'[q])
                      /\ Server!UnderWay(q)' => \A p \in Orders : Server!UnderWay(p)' => p = q
                      /\ jobs'[q].state = "running" =>
                            world' = SubSeq(jobs'[q].program, 1, Len(jobs'[q].answers))
    BY DEF Alone, Faithful
  <2>1. \A p \in Orders : Server!UnderWay(p) => p = r
    BY <1>4 DEF SessionInv, Alone
  <2>2. \A p \in Orders : Server!UnderWay(p)' => p = r
    BY <2>1, <1>2 DEF Server!UnderWay
  <2>3. CASE q = r
    BY <2>2, <2>3, <1>2
  <2>4. CASE q # r
    <3>1. jobs'[q] = jobs[q] /\ ~Server!UnderWay(q)
      BY <2>1, <2>4, <1>2
    <3>2. jobs[q].state # "running" /\ ~Server!UnderWay(q)'
      BY <3>1 DEF Server!UnderWay
    <3> QED
      BY <3>1, <3>2 DEF SessionInv, Alone
  <2> QED
    BY <2>3, <2>4
<1> QED
  BY <1>1, <1>3, <1>5, <1>6, <1>7 DEF SessionInv

\* The job a served step is about.
LEMMA ServedJobLemma ==
    ASSUME SessionInv, NEW r \in Orders, Server!Served(r)
    PROVE  /\ Server!UnderWay(r) /\ jobs[r] \in Server!Job /\ Fits(jobs[r]) /\ jobs[r].served
           /\ jobs[r].program \in Seq(Line) /\ jobs[r].answers \in Seq(Server!Answer)
           /\ Len(jobs[r].answers) \in Nat /\ Len(jobs[r].program) \in Nat
<1>1. /\ Server!UnderWay(r) /\ jobs[r] \in Server!Job /\ Fits(jobs[r]) /\ jobs[r].served
  BY DEF Server!Served, Server!UnderWay, SessionInv, ServerTypes, Fitting
<1>2. jobs[r].program \in Seq(Line) /\ jobs[r].answers \in Seq(Server!Answer)
  BY <1>1 DEF Server!Job
<1>3. Len(jobs[r].answers) \in Nat /\ Len(jobs[r].program) \in Nat
  BY <1>2, LenProperties
<1> QED
  BY <1>1, <1>2, <1>3

LEMMA ResetKeeps ==
    ASSUME SessionInv, NEW r \in Orders, Server!Reset(r), UNCHANGED <<vars, overlapped>>
    PROVE  SessionInv'
<1>1. PICK j \in Server!Job : j = jobs[r]
  BY ServedJobLemma DEF Server!Reset
<1> DEFINE k == [j EXCEPT !.state = "running"]
<1>2. /\ k \in Server!Job /\ k # None /\ k.program = j.program /\ k.served = j.served
      /\ k.answers = j.answers /\ k.state = "running"
  BY NoneAssumption DEF Server!Job
<1>3. /\ Server!UnderWay(r) /\ Fits(j) /\ j.served /\ j.state = "begun"
  BY <1>1, ServedJobLemma DEF Server!Reset
<1>4. jobs' = [jobs EXCEPT ![r] = k] /\ world' = <<>>
  BY <1>1 DEF Server!Reset
<1> HIDE DEF k
<1>5. j.answers = <<>> /\ Len(j.answers) = 0 /\ k.answers = <<>>
  BY <1>2, <1>3, EmptySeq DEF Fits
<1>6. Fits(k)
  BY <1>2, <1>3 DEF Fits
<1>7. Faithful(k)
  BY <1>5 DEF Faithful
<1>8. world' \in Seq(Line) /\ world' = SubSeq(k.program, 1, Len(k.answers))
  <2>1. SubSeq(k.program, 1, 0) = <<>>
    BY SubSeqEmpty
  <2> QED
    BY <2>1, <1>4, <1>5, EmptySeq
<1> QED
  BY <1>1, <1>2, <1>3, <1>4, <1>6, <1>7, <1>8, JobGoesOn

\* A job that changes its state only, and is not running after that.
LEMMA StateKeeps ==
    ASSUME SessionInv, UNCHANGED <<vars, overlapped>>, UNCHANGED world,
           NEW r \in Orders, Server!Served(r), NEW st \in {"cut off", "done"},
           jobs' = [jobs EXCEPT ![r].state = st],
           st = "done" => Len(jobs[r].answers) = Len(jobs[r].program)
    PROVE  SessionInv'
<1>1. PICK j \in Server!Job : j = jobs[r]
  BY ServedJobLemma
<1> DEFINE k == [j EXCEPT !.state = st]
<1>2. /\ k \in Server!Job /\ k # None /\ k.program = j.program /\ k.served = j.served
      /\ k.answers = j.answers /\ k.state = st
  BY NoneAssumption DEF Server!Job
<1>3. /\ Server!UnderWay(r) /\ Fits(j) /\ j.served
  BY <1>1, ServedJobLemma
<1>4. jobs' = [jobs EXCEPT ![r] = k] /\ world' \in Seq(Line)
  BY <1>1 DEF SessionInv, ServerTypes
<1> HIDE DEF k
<1>5. Fits(k)
  BY <1>1, <1>2, <1>3 DEF Fits
<1>6. ASSUME ~overlapped PROVE Faithful(k)
  <2>1. jobs[r] # None /\ jobs[r].served
    BY <1>1, <1>3 DEF Server!UnderWay
  <2>2. Faithful(j)
    BY <2>1, <1>1, <1>6 DEF SessionInv, Alone
  <2> QED
    BY <2>2, <1>2 DEF Faithful
<1> QED
  BY <1>1, <1>2, <1>3, <1>4, <1>5, <1>6, JobGoesOn

LEMMA ResetFailsKeeps ==
    ASSUME SessionInv, NEW r \in Orders, Server!ResetFails(r), UNCHANGED <<vars, overlapped>>
    PROVE  SessionInv'
<1>1. Server!Served(r) /\ jobs' = [jobs EXCEPT ![r].state = "cut off"] /\ UNCHANGED world
  BY DEF Server!ResetFails
<1> QED
  BY <1>1, StateKeeps

LEMMA FinishKeeps ==
    ASSUME SessionInv, NEW r \in Orders, Server!Finish(r), UNCHANGED <<vars, overlapped>>
    PROVE  SessionInv'
<1>1. /\ Server!Served(r) /\ jobs' = [jobs EXCEPT ![r].state = "done"] /\ UNCHANGED world
      /\ Len(jobs[r].answers) = Len(jobs[r].program)
  BY DEF Server!Finish, Server!Complete
<1> QED
  BY <1>1, StateKeeps

LEMMA FailKeeps ==
    ASSUME SessionInv, NEW r \in Orders, Server!Fail(r), UNCHANGED <<vars, overlapped>>
    PROVE  SessionInv'
<1>1. PICK j \in Server!Job : j = jobs[r]
  BY ServedJobLemma DEF Server!Fail
<1> DEFINE k == [j EXCEPT !.state = "failed", !.answers = <<>>]
<1>2. /\ k \in Server!Job /\ k # None /\ k.program = j.program /\ k.served = j.served
      /\ k.answers = <<>> /\ k.state = "failed"
  BY ZenonT(40), NoneAssumption, EmptySeq DEF Server!Job
<1>3. /\ Server!UnderWay(r) /\ Fits(j) /\ j.served
      /\ Len(j.program) \in Nat /\ j.program \in Seq(Line)
  BY <1>1, ServedJobLemma DEF Server!Fail
<1>4. jobs' = [jobs EXCEPT ![r] = k] /\ world' = world
  BY <1>1 DEF Server!Fail
<1> HIDE DEF k
<1>5. Fits(k)
  <2>1. Len(<<>>) = 0 /\ Len(j.program) \in Nat \ {0}
    BY <1>3, EmptySeq DEF Fits
  <2> QED
    BY <2>1, <1>2, <1>3 DEF Fits
<1>6. Faithful(k)
  BY <1>2, EmptySeq DEF Faithful
<1>7. world' \in Seq(Line) /\ k.state # "running"
  BY <1>2, <1>4 DEF SessionInv, ServerTypes
<1> QED
  BY <1>1, <1>2, <1>3, <1>4, <1>5, <1>6, <1>7, JobGoesOn

\* The answer to the next construct, and the world with it.
LEMMA NextAnswer ==
    ASSUME NEW p \in Seq(Line), NEW n \in Nat, n < Len(p),
           NEW a \in Seq(Server!Answer), Len(a) = n, NEW w \in Seq(Line)
    PROVE  LET b == Append(a, [construct |-> p[n + 1], world |-> w]) IN
           /\ p[n + 1] \in Line /\ b \in Seq(Server!Answer) /\ Len(b) = n + 1
           /\ \A i \in 1..n : b[i] = a[i]
           /\ b[n + 1] = [construct |-> p[n + 1], world |-> w]
           /\ Append(w, p[n + 1]) \in Seq(Line)
           /\ w = SubSeq(p, 1, n) => Append(w, p[n + 1]) = SubSeq(p, 1, n + 1)
<1> DEFINE x == [construct |-> p[n + 1], world |-> w]
<1>1. PICK m \in Nat : m = Len(p)
  BY LenProperties
<1>2. n + 1 \in 1..Len(p) /\ p[n + 1] \in Line
  <2>1. n + 1 \in 1..Len(p)
    BY <1>1
  <2> QED
    BY <2>1, ElementOfSeq
<1>3. x \in Server!Answer
  BY <1>2 DEF Server!Answer
<1> HIDE DEF x
<1>4. /\ Append(a, x) \in Seq(Server!Answer) /\ Len(Append(a, x)) = n + 1
      /\ \A i \in 1..n : Append(a, x)[i] = a[i]
      /\ Append(a, x)[n + 1] = x
  BY <1>3
<1>5. Append(w, p[n + 1]) \in Seq(Line)
  BY <1>2
<1>6. ASSUME w = SubSeq(p, 1, n) PROVE Append(w, p[n + 1]) = SubSeq(p, 1, n + 1)
  <2>1. SubSeq(p, 1, n + 1) = SubSeq(p, 1, n) \o <<p[n + 1]>>
    <3>1. 1 \in 1..Len(p) /\ n + 1 \in 1..Len(p) /\ (n + 1) - 1 = n
      BY <1>1
    <3>2. SubSeq(p, 1, n + 1) = SubSeq(p, 1, (n + 1) - 1) \o <<p[n + 1]>>
      BY <3>1, SubSeqRecursiveSecond
    <3> QED
      BY <3>1, <3>2
  <2>2. Append(w, p[n + 1]) = w \o <<p[n + 1]>>
    BY <1>2, AppendIsConcat
  <2> QED
    BY <2>1, <2>2, <1>6
<1> QED
  BY <1>2, <1>4, <1>5, <1>6 DEF x

LEMMA EvaluateKeeps ==
    ASSUME SessionInv, NEW r \in Orders, Server!Evaluate(r), UNCHANGED <<vars, overlapped>>
    PROVE  SessionInv'
<1>1. PICK j \in Server!Job : j = jobs[r]
  BY ServedJobLemma DEF Server!Evaluate
<1>2. /\ Server!UnderWay(r) /\ Fits(j) /\ j.served
      /\ Len(j.answers) # Len(j.program) /\ j.state = "running"
      /\ j.program \in Seq(Line) /\ j.answers \in Seq(Server!Answer)
      /\ Len(j.program) \in Nat
  BY <1>1, ServedJobLemma DEF Server!Evaluate, Server!Complete
<1>3. PICK n \in Nat : n = Len(j.answers) /\ n < Len(j.program)
  <2>1. Len(j.answers) \in Nat /\ Len(j.answers) <= Len(j.program)
    BY <1>2, LenProperties DEF Fits
  <2> QED
    BY <2>1, <1>2
<1>4. PICK w \in Seq(Line) : w = world
  BY DEF SessionInv, ServerTypes
<1> DEFINE b == Append(j.answers, [construct |-> j.program[n + 1], world |-> w])
<1>5. /\ b \in Seq(Server!Answer) /\ Len(b) = n + 1
      /\ \A i \in 1..n : b[i] = j.answers[i]
      /\ b[n + 1] = [construct |-> j.program[n + 1], world |-> w]
      /\ Append(w, j.program[n + 1]) \in Seq(Line)
      /\ w = SubSeq(j.program, 1, n) =>
            Append(w, j.program[n + 1]) = SubSeq(j.program, 1, n + 1)
  BY <1>2, <1>3, NextAnswer
<1> DEFINE k == [j EXCEPT !.answers = b]
<1>6. /\ jobs' = [jobs EXCEPT ![r] = k] /\ world' = Append(w, j.program[n + 1])
  BY <1>1, <1>3, <1>4 DEF Server!Evaluate, Server!NextConstruct
<1> HIDE DEF b
<1>7. /\ k \in Server!Job /\ k # None /\ k.program = j.program /\ k.served = j.served
      /\ k.answers = b /\ k.state = "running"
  BY <1>2, <1>5, NoneAssumption DEF Server!Job
<1> HIDE DEF k
<1>8. Fits(k)
  <2>1. n + 1 <= Len(j.program) /\ j.program # <<>>
    BY <1>2, <1>3 DEF Fits
  <2> QED
    BY <2>1, <1>5, <1>7 DEF Fits
<1>9. ASSUME ~overlapped
      PROVE  Faithful(k) /\ world' = SubSeq(k.program, 1, Len(k.answers))
  <2>1. Faithful(j) /\ w = SubSeq(j.program, 1, n)
    BY <1>1, <1>2, <1>3, <1>4, <1>9 DEF Server!UnderWay, SessionInv, Alone
  <2>2. ASSUME NEW i \in 1..(n + 1)
        PROVE  b[i] = [construct |-> j.program[i], world |-> SubSeq(j.program, 1, i - 1)]
    <3>1. CASE i \in 1..n
      BY <2>1, <3>1, <1>3, <1>5 DEF Faithful
    <3>2. CASE i = n + 1
      <4>1. i - 1 = n
        BY <3>2
      <4> QED
        BY <2>1, <3>2, <4>1, <1>5
    <3> QED
      BY <3>1, <3>2
  <2>3. Faithful(k)
    BY <2>2, <1>5, <1>7 DEF Faithful
  <2> QED
    BY <2>1, <2>3, <1>5, <1>6, <1>7
<1> QED
  BY <1>1, <1>2, <1>5, <1>6, <1>7, <1>8, <1>9, JobGoesOn

\* ACL2 dies, and with it the connection of each job that has one.
LEMMA ACL2DiesKeeps ==
    ASSUME SessionInv, ACL2Dies
    PROVE  SessionInv'
<1>1. /\ KernelInv' /\ Numbered' /\ InPlace' /\ UNCHANGED overlapped
      /\ UNCHANGED <<request, executionOrder>>
  BY SameNotebook DEF ACL2Dies
<1>2. ASSUME NEW r \in Orders
      PROVE  /\ jobs'[r] \in Server!Job \cup {None}
             /\ jobs'[r] # None <=> jobs[r] # None
             /\ jobs[r] # None =>
                  /\ jobs'[r].program = jobs[r].program /\ jobs'[r].answers = jobs[r].answers
                  /\ jobs'[r].served = jobs[r].served
                  /\ jobs'[r].state # "running"
                  /\ jobs'[r].state # jobs[r].state =>
                        jobs[r].state = "running" /\ jobs'[r].state = "cut off"
  <2>1. CASE Server!UnderWay(r) /\ jobs[r].state = "running"
    <3>1. PICK j \in Server!Job : j = jobs[r]
      BY <2>1 DEF Server!UnderWay, SessionInv, ServerTypes
    <3>2. jobs'[r] = [j EXCEPT !.state = "cut off"]
      BY <2>1, <3>1 DEF ACL2Dies, Server!ACL2Dies
    <3>3. /\ jobs'[r] \in Server!Job /\ jobs'[r].program = j.program
          /\ jobs'[r].answers = j.answers /\ jobs'[r].served = j.served
          /\ jobs'[r].state = "cut off"
      BY <3>2 DEF Server!Job
    <3> QED
      BY <2>1, <3>1, <3>3, NoneAssumption
  <2>2. CASE ~(Server!UnderWay(r) /\ jobs[r].state = "running")
    <3>1. jobs'[r] = jobs[r]
      BY <2>2 DEF ACL2Dies, Server!ACL2Dies
    <3> QED
      BY <2>2, <3>1 DEF Server!UnderWay, SessionInv, ServerTypes
  <2> QED
    BY <2>1, <2>2
<1>3. ServerTypes'
  <2>1. jobs' \in [Orders -> Server!Job \cup {None}]
    BY <1>2 DEF ACL2Dies, Server!ACL2Dies
  <2>2. world' \in Seq(Line)
    BY EmptySeq DEF ACL2Dies, Server!ACL2Dies
  <2> QED
    BY <1>1, <2>1, <2>2 DEF SessionInv, ServerTypes
<1>4. Fitting'
  <2> SUFFICES ASSUME NEW r \in Orders, jobs'[r] # None
               PROVE  Fits(jobs'[r]) /\ r <= executionOrder
    BY <1>1 DEF Fitting, Fits
  <2>1. Fits(jobs[r]) /\ r <= executionOrder
    BY <1>2 DEF SessionInv, Fitting
  <2> QED
    BY <1>2, <2>1 DEF Fits
<1>5. Matched'
  <2> SUFFICES ASSUME NEW c \in Cells, request[c] # None,
                      NEW o \in Orders, o = request[c].order
               PROVE  /\ request[c].served =>
                            /\ jobs'[o] # None /\ jobs'[o].served
                            /\ jobs'[o].program = request[c].program
                      /\ jobs'[o] # None /\ jobs'[o].served => request[c].served
    BY SMTT(30), <1>1 DEF Matched, SessionInv, KernelInv, TypeOK, Request, Orders
  <2>1. /\ request[c].served =>
              jobs[o] # None /\ jobs[o].served /\ jobs[o].program = request[c].program
        /\ jobs[o] # None /\ jobs[o].served => request[c].served
    BY DEF SessionInv, Matched
  <2> QED
    BY <1>2, <2>1
<1>6. Alone'
  <2> SUFFICES ASSUME ~overlapped, NEW q \in Orders, jobs'[q] # None, jobs'[q].served
               PROVE  /\ Faithful(jobs'[q])
                      /\ Server!UnderWay(q)' => \A p \in Orders : Server!UnderWay(p)' => p = q
                      /\ jobs'[q].state # "running"
    BY <1>1 DEF Alone, Faithful
  <2>1. /\ jobs[q] # None /\ jobs[q].served /\ jobs'[q].state # "running"
        /\ jobs'[q].program = jobs[q].program /\ jobs'[q].answers = jobs[q].answers
    BY <1>2
  <2>2. \A p \in Orders : Server!UnderWay(p)' => Server!UnderWay(p)
    BY <1>2 DEF Server!UnderWay
  <2>3. Faithful(jobs'[q])
    BY <2>1 DEF SessionInv, Alone, Faithful
  <2> QED
    BY <2>1, <2>2, <2>3 DEF SessionInv, Alone
<1> QED
  BY <1>1, <1>3, <1>4, <1>5, <1>6 DEF SessionInv

\* A job that is over, or that nobody waits for any more.
LEMMA JobRemoved ==
    ASSUME SessionInv, NEW r \in Orders, jobs' = [jobs EXCEPT ![r] = None],
           UNCHANGED <<executionOrder, overlapped>>, world' \in Seq(Line),
           \/ world' = world
           \/ \A q \in Orders : jobs[q] # None /\ jobs[q].served /\ ~overlapped => ~Server!UnderWay(q)
    PROVE  /\ ServerTypes' /\ Fitting' /\ Alone'
           /\ jobs'[r] = None /\ \A q \in Orders : q # r => jobs'[q] = jobs[q]
<1>1. /\ jobs' \in [Orders -> Server!Job \cup {None}] /\ jobs'[r] = None
      /\ \A q \in Orders : q # r => jobs'[q] = jobs[q]
  BY DEF SessionInv, ServerTypes
<1>2. ServerTypes' /\ Fitting'
  BY <1>1 DEF SessionInv, ServerTypes, Fitting
<1>3. Alone'
  <2> SUFFICES ASSUME ~overlapped, NEW q \in Orders, jobs'[q] # None, jobs'[q].served
               PROVE  /\ Faithful(jobs'[q])
                      /\ Server!UnderWay(q)' => \A p \in Orders : Server!UnderWay(p)' => p = q
                      /\ jobs'[q].state = "running" =>
                            world' = SubSeq(jobs'[q].program, 1, Len(jobs'[q].answers))
    BY DEF Alone, Faithful
  <2>1. jobs'[q] = jobs[q] /\ jobs[q] # None /\ jobs[q].served
    BY <1>1
  <2>2. \A p \in Orders : Server!UnderWay(p)' => Server!UnderWay(p)
    BY <1>1 DEF Server!UnderWay
  <2>3. jobs[q].state = "running" => world' = world
    BY <2>1 DEF Server!UnderWay
  <2> QED
    BY <2>1, <2>2, <2>3 DEF SessionInv, Alone
<1> QED
  BY <1>1, <1>2, <1>3

LEMMA LeftBehindKeeps ==
    ASSUME SessionInv, NEW r \in Orders, LeftBehind(r)
    PROVE  SessionInv'
<1>1. /\ KernelInv' /\ Numbered' /\ InPlace'
      /\ UNCHANGED <<request, executionOrder>> /\ UNCHANGED overlapped
  BY SameNotebook DEF LeftBehind
<1>2. PICK j \in Server!Job : j = jobs[r]
  BY DEF LeftBehind, Server!LeftBehind, Server!UnderWay, SessionInv, ServerTypes
<1>3. /\ Server!UnderWay(r) /\ ~j.served /\ Fits(j) /\ jobs[r] # None
      /\ jobs' = [jobs EXCEPT ![r] = None]
      /\ \/ UNCHANGED world
         \/ j.state = "begun" /\ world' = <<>>
         \/ Len(j.answers) # Len(j.program) /\ world' = Append(world, Server!NextConstruct(j))
  BY <1>2 DEF LeftBehind, Server!LeftBehind, Server!Complete, Server!UnderWay, SessionInv, Fitting
<1>4. world' \in Seq(Line)
  <2>1. CASE UNCHANGED world
    BY <2>1 DEF SessionInv, ServerTypes
  <2>2. CASE world' = <<>>
    BY <2>2, EmptySeq
  <2>3. CASE Len(j.answers) # Len(j.program) /\ world' = Append(world, Server!NextConstruct(j))
    <3>1. /\ j.program \in Seq(Line) /\ j.answers \in Seq(Server!Answer)
      BY DEF Server!Job
    <3>2. PICK n \in Nat : n = Len(j.answers)
      BY <3>1, LenProperties
    <3>3. n < Len(j.program)
      <4>1. n <= Len(j.program) /\ n # Len(j.program) /\ Len(j.program) \in Nat
        BY <2>3, <1>3, <3>1, <3>2, LenProperties DEF Fits
      <4> QED
        BY <4>1
    <3>4. PICK w \in Seq(Line) : w = world
      BY DEF SessionInv, ServerTypes
    <3>5. Append(w, j.program[n + 1]) \in Seq(Line)
      BY <3>1, <3>2, <3>3, NextAnswer
    <3> QED
      BY <2>3, <3>2, <3>4, <3>5 DEF Server!NextConstruct
  <2> QED
    BY <1>3, <2>1, <2>2, <2>3
<1>5. \A q \in Orders : jobs[q] # None /\ jobs[q].served /\ ~overlapped => ~Server!UnderWay(q)
  <2> SUFFICES ASSUME NEW q \in Orders, jobs[q] # None, jobs[q].served, ~overlapped, Server!UnderWay(q)
               PROVE  FALSE
    OBVIOUS
  <2>1. r = q
    BY <1>3 DEF SessionInv, Alone
  <2> QED
    BY <2>1, <1>2, <1>3
<1>6. /\ ServerTypes' /\ Fitting' /\ Alone'
      /\ jobs'[r] = None /\ \A q \in Orders : q # r => jobs'[q] = jobs[q]
  BY <1>1, <1>3, <1>4, <1>5, JobRemoved
<1>7. Matched'
  <2> SUFFICES ASSUME NEW c \in Cells, request[c] # None,
                      NEW o \in Orders, o = request[c].order
               PROVE  /\ request[c].served =>
                            /\ jobs'[o] # None /\ jobs'[o].served
                            /\ jobs'[o].program = request[c].program
                      /\ jobs'[o] # None /\ jobs'[o].served => request[c].served
    BY <1>1 DEF Matched, SessionInv, KernelInv, TypeOK, Request, Orders
  <2>1. /\ request[c].served =>
              jobs[o] # None /\ jobs[o].served /\ jobs[o].program = request[c].program
        /\ jobs[o] # None /\ jobs[o].served => request[c].served
    BY DEF SessionInv, Matched
  <2>2. CASE o = r
    BY <2>1, <2>2, <1>2, <1>3, <1>6
  <2>3. CASE o # r
    BY <2>1, <2>3, <1>6
  <2> QED
    BY <2>2, <2>3
<1> QED
  BY <1>1, <1>6, <1>7 DEF SessionInv

LEMMA ServerDiesKeeps ==
    ASSUME SessionInv, ServerDies
    PROVE  SessionInv'
<1>1. /\ KernelInv' /\ UNCHANGED <<cells, executing, executionOrder, edit, world>>
      /\ overlapped' = FALSE
      /\ \A c \in Cells : request'[c] =
            IF request[c] = None THEN None ELSE [request[c] EXCEPT !.served = FALSE]
  BY ServerStopsKeeps DEF ServerDies, Server!ServerDies, ServerStops, SessionInv, documents
<1>2. ASSUME NEW c \in Cells, request'[c] # None
      PROVE  /\ request[c] # None /\ request'[c].order = request[c].order
             /\ request[c].order \in Orders /\ ~request'[c].served
  <2>1. request[c] # None
    BY <1>1, <1>2
  <2>2. PICK q \in Request : q = request[c]
    BY <2>1 DEF SessionInv, KernelInv, TypeOK
  <2>3. request'[c] = [q EXCEPT !.served = FALSE]
    BY <1>1, <2>1, <2>2
  <2> QED
    BY <2>1, <2>2, <2>3 DEF Request, Orders
<1>3. ASSUME NEW r \in Orders
      PROVE  /\ jobs'[r] \in Server!Job \cup {None}
             /\ jobs'[r] # None =>
                  /\ jobs[r] # None /\ ~jobs'[r].served
                  /\ jobs'[r].program = jobs[r].program /\ jobs'[r].answers = jobs[r].answers
                  /\ jobs'[r].state = jobs[r].state
  <2>1. CASE Server!UnderWay(r)
    <3>1. PICK j \in Server!Job : j = jobs[r]
      BY <2>1 DEF Server!UnderWay, SessionInv, ServerTypes
    <3>2. jobs'[r] = [j EXCEPT !.served = FALSE]
      BY <2>1, <3>1 DEF ServerDies, Server!ServerDies
    <3> QED
      BY <2>1, <3>1, <3>2 DEF Server!Job, Server!UnderWay
  <2>2. CASE ~Server!UnderWay(r)
    BY <2>2 DEF ServerDies, Server!ServerDies
  <2> QED
    BY <2>1, <2>2
<1>4. ServerTypes'
  <2>1. jobs' \in [Orders -> Server!Job \cup {None}]
    BY <1>3 DEF ServerDies, Server!ServerDies
  <2> QED
    BY <2>1, <1>1 DEF SessionInv, ServerTypes
<1>5. Fitting'
  BY <1>1, <1>3 DEF SessionInv, Fitting, Fits
<1>6. Numbered'
  BY <1>1, <1>2 DEF SessionInv, Numbered
<1>7. Matched'
  BY <1>2, <1>3 DEF Matched
<1>8. Alone'
  BY <1>3 DEF Alone
<1>9. InPlace'
  BY <1>1 DEF SessionInv, InPlace, Here
<1> QED
  BY <1>1, <1>4, <1>5, <1>6, <1>7, <1>8, <1>9 DEF SessionInv

-----------------------------------------------------------------------------
(* The notebook's steps. *)

LEMMA AnsweredKeeps ==
    ASSUME SessionInv, NEW c \in Cells, Answered(c)
    PROVE  SessionInv'
<1>1. /\ KernelInv' /\ UNCHANGED <<cells, executionOrder, edit, world, overlapped>>
      /\ request[c] # None /\ request' = [request EXCEPT ![c] = None]
  BY DoExecuteCellKeeps DEF Answered, DoExecuteCell, Forget, Server!Forget, SessionInv
<1>2. \A d \in Cells : request'[d] # None => d # c /\ request'[d] = request[d]
  BY <1>1 DEF SessionInv, KernelInv, TypeOK
<1>3. \A d \in Cells : request[d] # None => request[d].order \in Orders
  BY DEF SessionInv, KernelInv, TypeOK, Request, Orders
<1>4. Numbered'
  BY <1>1, <1>2 DEF SessionInv, Numbered
<1>5. executing' \subseteq executing /\ \A d \in Cells : d # c /\ d \in executing => d \in executing'
  <2>1. executing' \in {executing, executing \ {c}}
    BY <1>1 DEF Answered, DoExecuteCell, Responded, Transformed, End
  <2> QED
    BY <2>1
<1>6. InPlace'
  BY <1>1, <1>2, <1>5 DEF SessionInv, InPlace, Here
<1>7. CASE ~request[c].served
  <2>1. jobs' = jobs
    BY <1>7 DEF Answered, Forget, Server!Forget
  <2>2. ServerTypes' /\ Fitting' /\ Alone'
    BY <1>1, <2>1 DEF SessionInv, ServerTypes, Fitting, Alone, Server!UnderWay
  <2>3. Matched'
    BY <1>2, <2>1 DEF SessionInv, Matched
  <2> QED
    BY <1>1, <1>4, <1>6, <2>2, <2>3 DEF SessionInv
<1>8. CASE request[c].served
  <2>1. PICK r \in Orders : r = request[c].order
    BY <1>1, <1>3
  <2>2. jobs' = [jobs EXCEPT ![r] = None]
    BY <1>8, <2>1 DEF Answered, Forget, Server!Forget
  <2>3. /\ ServerTypes' /\ Fitting' /\ Alone'
        /\ jobs'[r] = None /\ \A q \in Orders : q # r => jobs'[q] = jobs[q]
    <3>1. world' \in Seq(Line) /\ world' = world
      BY <1>1 DEF SessionInv, ServerTypes
    <3> QED
      BY <1>1, <2>2, <3>1, JobRemoved
  <2>4. ASSUME NEW d \in Cells, request'[d] # None
        PROVE  request[d] # None /\ request'[d] = request[d] /\ jobs'[request[d].order] = jobs[request[d].order]
    <3>1. request[d] # None /\ request'[d] = request[d] /\ d # c
      BY <2>4, <1>2
    <3>2. request[d].order \in Orders /\ request[d].order # r
      BY <3>1, <2>1, <1>1, <1>3 DEF SessionInv, Numbered
    <3> QED
      BY <3>1, <3>2, <2>3
  <2>5. Matched'
    BY <2>4 DEF SessionInv, Matched
  <2> QED
    BY <1>1, <1>4, <1>6, <2>3, <2>5 DEF SessionInv
<1> QED
  BY <1>7, <1>8

LEMMA RemoveSet ==
    ASSUME NEW S, NEW s \in Seq(S), Distinct(s), NEW i \in 1..Len(s)
    PROVE  ToSet(RemoveAt(s, i)) = ToSet(s) \ {s[i]}
<1>1. PICK n \in Nat : n = Len(s)
  BY LenProperties
<1>2. PICK z \in Seq(S) : z = RemoveAt(s, i)
  BY RemoveSeq
<1>3. /\ Len(z) = n - 1 /\ i \in 1..n
      /\ \A j \in 1..(n - 1) : z[j] = IF j < i THEN s[j] ELSE s[j + 1]
  <2>1. /\ Len(z) = Len(s) - 1
        /\ \A j \in 1..(Len(s) - 1) : z[j] = IF j < i THEN s[j] ELSE s[j + 1]
    BY <1>2, RemoveSeq
  <2> QED
    BY <2>1, <1>1
<1>4. DOMAIN s = 1..n /\ DOMAIN z = 1..(n - 1)
  BY <1>1, <1>3, LenProperties
<1>5. ASSUME NEW j \in 1..(n - 1) PROVE z[j] \in ToSet(s) /\ z[j] # s[i]
  <2>1. CASE j < i
    <3>1. j \in 1..n /\ j # i /\ z[j] = s[j]
      BY <2>1, <1>3
    <3> QED
      BY <3>1, <1>1, <1>3, <1>4 DEF Distinct, ToSet
  <2>2. CASE ~(j < i)
    <3>1. j + 1 \in 1..n /\ j + 1 # i /\ z[j] = s[j + 1]
      BY <2>2, <1>3
    <3> QED
      BY <3>1, <1>1, <1>3, <1>4 DEF Distinct, ToSet
  <2> QED
    BY <2>1, <2>2
<1>6. ASSUME NEW j \in 1..n, s[j] # s[i] PROVE s[j] \in ToSet(z)
  <2>1. CASE j < i
    <3>1. j \in 1..(n - 1) /\ z[j] = s[j]
      BY <2>1, <1>3
    <3> QED
      BY <3>1, <1>4 DEF ToSet
  <2>2. CASE ~(j < i)
    <3>1. j - 1 \in 1..(n - 1) /\ ~(j - 1 < i) /\ (j - 1) + 1 = j
      <4>1. j # i
        BY <1>6
      <4> QED
        BY <4>1, <2>2, <1>3
    <3>2. z[j - 1] = s[j]
      BY <3>1, <1>3
    <3> QED
      BY <3>1, <3>2, <1>4 DEF ToSet
  <2> QED
    BY <2>1, <2>2
<1>7. ToSet(z) = {z[j] : j \in 1..(n - 1)} /\ ToSet(s) = {s[j] : j \in 1..n}
  BY <1>4 DEF ToSet
<1>8. ToSet(z) \subseteq ToSet(s) \ {s[i]}
  BY <1>5, <1>7
<1>9. ToSet(s) \ {s[i]} \subseteq ToSet(z)
  BY <1>6, <1>7
<1> QED
  BY <1>2, <1>8, <1>9

LEMMA InsertSet ==
    ASSUME NEW S, NEW s \in Seq(S), NEW i \in 0..Len(s), NEW e \in S
    PROVE  ToSet(InsertAt(s, i + 1, e)) = ToSet(s) \cup {e}
<1>1. PICK n \in Nat : n = Len(s)
  BY LenProperties
<1> DEFINE z == InsertAt(s, i + 1, e)
<1>2. /\ z \in Seq(S) /\ Len(z) = Len(s) + 1
      /\ \A j \in 1..(Len(s) + 1) :
            z[j] = IF j <= i THEN s[j] ELSE IF j = i + 1 THEN e ELSE s[j - 1]
  BY InsertSeq
<1> HIDE DEF z
<1>3. /\ Len(z) = n + 1 /\ i \in 0..n
      /\ \A j \in 1..(n + 1) : z[j] = IF j <= i THEN s[j] ELSE IF j = i + 1 THEN e ELSE s[j - 1]
  <2>1. i \in 0..n
    BY <1>1
  <2> QED
    BY <2>1, <1>1, <1>2
<1>4. DOMAIN s = 1..n /\ DOMAIN z = 1..(n + 1)
  BY <1>1, <1>2, <1>3, LenProperties
<1>5. ASSUME NEW j \in 1..(n + 1) PROVE z[j] \in ToSet(s) \cup {e}
  <2>1. CASE j <= i
    <3>1. j \in 1..n /\ z[j] = s[j]
      BY <2>1, <1>3
    <3> QED
      BY <3>1, <1>4 DEF ToSet
  <2>2. CASE j = i + 1
    BY <2>2, <1>3
  <2>3. CASE j > i + 1
    <3>1. j - 1 \in 1..n /\ z[j] = s[j - 1]
      BY <2>3, <1>3
    <3> QED
      BY <3>1, <1>4 DEF ToSet
  <2> QED
    BY <2>1, <2>2, <2>3, <1>3
<1>6. ASSUME NEW j \in 1..n PROVE s[j] \in ToSet(z)
  <2>1. CASE j <= i
    <3>1. j \in 1..(n + 1) /\ z[j] = s[j]
      BY <2>1, <1>3
    <3> QED
      BY <3>1, <1>4 DEF ToSet
  <2>2. CASE ~(j <= i)
    <3>1. j + 1 \in 1..(n + 1) /\ ~(j + 1 <= i) /\ j + 1 # i + 1 /\ (j + 1) - 1 = j
      BY <2>2, <1>3
    <3>2. z[j + 1] = s[j]
      BY <3>1, <1>3
    <3> QED
      BY <3>1, <3>2, <1>4 DEF ToSet
  <2> QED
    BY <2>1, <2>2
<1>7. e \in ToSet(z)
  <2>1. i + 1 \in 1..(n + 1) /\ z[i + 1] = e
    BY <1>3
  <2> QED
    BY <2>1, <1>4 DEF ToSet
<1>8. ToSet(z) = {z[j] : j \in 1..(n + 1)} /\ ToSet(s) = {s[j] : j \in 1..n}
  BY <1>4 DEF ToSet
<1>9. ToSet(z) \subseteq ToSet(s) \cup {e}
  BY <1>5, <1>8
<1>10. ToSet(s) \cup {e} \subseteq ToSet(z)
  BY <1>6, <1>7, <1>8
<1> QED
  BY <1>9, <1>10 DEF z

\* A gesture takes requests away at most, and leaves each cell that is executing
\* where it is.
LEMMA GestureLemma ==
    ASSUME SessionInv, Gesture
    PROVE  /\ InPlace' /\ executionOrder' = executionOrder
           /\ \A c \in Cells :
                 /\ request'[c] # None => request'[c] = request[c]
                 /\ Here(c) /\ Here(c)' /\ c \in executing =>
                       c \in executing' /\ request'[c] = request[c]
<1>1. /\ cells \in [Notebooks -> Seq(Cells)]
      /\ \A c \in Cells : Home[c] \in Notebooks
      /\ \A c \in Cells : edit[c] = None
  BY NotebookAssumption DEF SessionInv, KernelInv, TypeOK, InPlace
<1>2. CASE Activate \/ ServerReady \/ Focus \/ \E c \in Cells : EditCell(c)
  <2>1. UNCHANGED <<cells, executing, request, edit, executionOrder>>
    BY <1>2 DEF Activate, ServerReady, Focus, EditCell, documents, execution
  <2> QED
    BY <2>1 DEF SessionInv, InPlace, Here
<1>3. ASSUME NEW nb \in Notebooks, OpenNotebook(nb)
      PROVE  /\ InPlace' /\ UNCHANGED <<executing, request, executionOrder>>
  <2>1. /\ UNCHANGED <<executing, request, edit, executionOrder>>
        /\ nb \notin Opened /\ Deserialize(nb)
        /\ \A c \in Cells : Home[c] = nb => request[c] = None
    BY <1>3 DEF OpenNotebook, execution
  <2>2. cells[nb] = <<>> /\ \A b \in Notebooks : b # nb => cells'[b] = cells[b]
    BY <2>1, DeserializeLemma DEF SessionInv, KernelInv, OwnCells
  <2>3. \A c \in Cells : Here(c) => Home[c] # nb
    <3>1. ToSet(<<>>) = {}
      BY DEF ToSet
    <3> QED
      BY <3>1, <2>2 DEF Here
  <2>4. \A c \in Cells : Home[c] # nb => (Here(c)' <=> Here(c))
    BY <1>1, <2>2 DEF Here
  <2> QED
    BY <2>1, <2>3, <2>4 DEF SessionInv, InPlace
<1>4. ASSUME NEW nb \in Notebooks, CloseNotebook(nb)
      PROVE  /\ InPlace' /\ executionOrder' = executionOrder
             /\ \A c \in Cells :
                   /\ request'[c] # None => request'[c] = request[c]
                   /\ Here(c) /\ Here(c)' /\ c \in executing =>
                         c \in executing' /\ request'[c] = request[c]
  <2>1. /\ executionOrder' = executionOrder
        /\ executing' = {c \in executing : Home[c] # nb}
        /\ cells' = [cells EXCEPT ![nb] = <<>>]
        /\ \A c \in Cells : /\ request'[c] # None => request'[c] = request[c]
                            /\ Home[c] # nb => request'[c] = request[c]
                            /\ edit'[c] = None
    BY <1>1, <1>4 DEF CloseNotebook
  <2>2. \A c \in Cells : /\ Here(c)' => Home[c] # nb
                         /\ Home[c] # nb => (Here(c)' <=> Here(c))
    <3>1. ToSet(<<>>) = {}
      BY DEF ToSet
    <3> QED
      BY <3>1, <1>1, <2>1 DEF Here
  <2> QED
    BY <2>1, <2>2 DEF SessionInv, InPlace
<1>5. ASSUME NEW c \in Cells, DeleteCell(c)
      PROVE  /\ InPlace' /\ UNCHANGED <<request, executionOrder>>
             /\ \A d \in Cells : Here(d)' /\ d \in executing => d \in executing'
  <2>1. /\ UNCHANGED <<request, edit, executionOrder>> /\ executing' = executing \ {c}
        /\ c \in ToSet(cells[Home[c]])
    BY <1>5 DEF DeleteCell, Here
  <2>2. PICK nb \in Notebooks : nb = Home[c]
    BY <1>1
  <2>3. PICK s \in Seq(Cells) : s = cells[nb]
    BY <1>1
  <2>4. PICK i \in 1..Len(s) : i = Index(nb, c) /\ s[i] = c
    BY <1>1, <2>1, <2>2, <2>3, IndexLemma
  <2>5. cells' = [cells EXCEPT ![nb] = RemoveAt(s, i)]
    BY <1>5, <2>2, <2>3, <2>4 DEF DeleteCell
  <2>6. ToSet(cells'[nb]) = ToSet(cells[nb]) \ {c}
    <3>1. Distinct(s)
      BY <2>3 DEF SessionInv, KernelInv, OwnCells
    <3>2. ToSet(RemoveAt(s, i)) = ToSet(s) \ {s[i]}
      BY <3>1, RemoveSet
    <3> QED
      BY <3>2, <1>1, <2>3, <2>4, <2>5
  <2>7. \A d \in Cells : Here(d)' <=> Here(d) /\ d # c
    BY <1>1, <2>2, <2>5, <2>6 DEF Here
  <2> QED
    BY <2>1, <2>7 DEF SessionInv, InPlace
<1>6. ASSUME NEW c \in Cells, NEW i \in 0..Len(cells[Home[c]]), InsertCell(c, i)
      PROVE  /\ InPlace' /\ UNCHANGED <<request, executing, executionOrder>>
  <2>1. /\ UNCHANGED <<request, edit, executing, executionOrder>> /\ request[c] = None
    BY <1>6 DEF InsertCell, execution
  <2>2. PICK nb \in Notebooks : nb = Home[c]
    BY <1>1
  <2>3. PICK s \in Seq(Cells) : s = cells[nb]
    BY <1>1
  <2>4. cells' = [cells EXCEPT ![nb] = InsertAt(s, i + 1, c)] /\ i \in 0..Len(s)
    BY <1>6, <2>2, <2>3 DEF InsertCell, Insert
  <2>5. ToSet(cells'[nb]) = ToSet(cells[nb]) \cup {c}
    <3>1. ToSet(InsertAt(s, i + 1, c)) = ToSet(s) \cup {c}
      BY <2>4, InsertSet
    <3> QED
      BY <3>1, <1>1, <2>3, <2>4
  <2>6. \A d \in Cells : Here(d)' <=> Here(d) \/ d = c
    BY <1>1, <2>2, <2>4, <2>5 DEF Here
  <2> QED
    BY <2>1, <2>6 DEF SessionInv, InPlace
<1> QED
  BY <1>2, <1>3, <1>4, <1>5, <1>6 DEF Gesture

LEMMA GestureKeeps ==
    ASSUME MaxOpen = 1, SessionInv, Gesture
    PROVE  SessionInv'
<1>1. KernelInv'
  <2>1. VSCode
    BY DEF Gesture, VSCode
  <2> QED
    BY <2>1, KernelStep DEF SessionInv, Next
<1>2. /\ InPlace' /\ executionOrder' = executionOrder
      /\ \A c \in Cells : request'[c] # None => request'[c] = request[c]
      /\ UNCHANGED <<jobs, world, overlapped>>
  BY GestureLemma DEF Gesture, server
<1>3. ServerTypes' /\ Fitting' /\ Alone'
  BY <1>2 DEF SessionInv, ServerTypes, Fitting, Alone, Server!UnderWay
<1>4. Numbered' /\ Matched'
  BY <1>2 DEF SessionInv, Numbered, Matched
<1> QED
  BY <1>1, <1>2, <1>3, <1>4 DEF SessionInv

\* What executing cells sends: each of them something of its own number.
LEMMA ExecuteAllNumbers ==
    ASSUME SessionInv, NEW nb \in Notebooks,
           NEW selected \in SUBSET (ToSet(cells[nb]) \cap Code), ExecuteAll(selected)
    PROVE  /\ executionOrder \in Nat /\ executionOrder <= executionOrder'
           /\ \A c \in selected : c \in Cells /\ Here(c) /\ request[c] = None
           /\ \A c \in Cells : request'[c] # None =>
                 \/ c \notin selected /\ request'[c] = request[c]
                 \/ /\ c \in selected /\ request'[c] \in Request
                    /\ request'[c].order = executionOrder + Rank(selected, c)
                    /\ request'[c].order \in (executionOrder + 1)..executionOrder'
                    /\ request'[c].program # <<>>
           /\ \A c, d \in selected : Rank(selected, c) = Rank(selected, d) => c = d
<1>1. PICK n \in Nat : n = Len(cells[nb])
  BY IndexLemma DEF SessionInv, KernelInv, TypeOK
<1>2. \A c \in selected : /\ c \in Cells /\ Index(nb, c) \in 1..n
                          /\ cells[nb][Index(nb, c)] = c /\ Home[c] = nb
  <2>1. \A c \in selected : /\ c \in Cells /\ Index(nb, c) \in 1..n
                            /\ cells[nb][Index(nb, c)] = c
    BY <1>1, IndexLemma DEF SessionInv, KernelInv, TypeOK
  <2>2. \A i \in 1..n : Home[cells[nb][i]] = nb
    BY <1>1 DEF SessionInv, KernelInv, OwnCells
  <2> QED
    BY <2>1, <2>2
<1>3. PICK m \in Nat : m = executionOrder
  BY NotebookAssumption DEF SessionInv, KernelInv, TypeOK
<1>4. /\ Cardinality(selected) \in Nat /\ executionOrder' = m + Cardinality(selected)
      /\ \A c \in selected : Rank(selected, c) \in 1..Cardinality(selected)
  <2>1. KernelInv
    BY DEF SessionInv
  <2> QED
    BY <1>3, <2>1, RankOfCell DEF ExecuteAll, LastOrder
<1>5. \A c \in selected : c \in Cells /\ Here(c) /\ request[c] = None
  <2>1. \A c \in selected : c \in Cells /\ Here(c)
    BY <1>2 DEF Here
  <2>2. selected \cap executing = {}
    BY DEF ExecuteAll
  <2> QED
    BY <2>1, <2>2 DEF SessionInv, InPlace
<1>6. ASSUME NEW c \in Cells, request'[c] # None
      PROVE  \/ c \notin selected /\ request'[c] = request[c]
             \/ /\ c \in selected /\ request'[c] \in Request
                /\ request'[c].order = executionOrder + Rank(selected, c)
                /\ request'[c].order \in (executionOrder + 1)..executionOrder'
                /\ request'[c].program # <<>>
  <2>1. CASE c \notin selected
    BY <2>1 DEF ExecuteAll
  <2>2. CASE c \in selected
    <3>1. request'[c] # request[c]
      BY <2>2, <1>5, <1>6
    <3>2. request'[c] \in Request /\ EndsWith(request'[c].program, c, text[c])
      BY <3>1, ExecuteAllSends DEF SessionInv
    <3>3. request'[c].order = executionOrder + Rank(selected, c)
      BY <3>1 DEF ExecuteAll
    <3>4. request'[c].order \in (executionOrder + 1)..executionOrder'
      <4>1. PICK k \in 1..Cardinality(selected) : k = Rank(selected, c)
        BY <2>2, <1>4
      <4> QED
        BY <3>3, <4>1, <1>3, <1>4
    <3> QED
      BY <2>2, <3>2, <3>3, <3>4 DEF EndsWith
  <2> QED
    BY <2>1, <2>2
<1>7. ASSUME NEW c \in selected, NEW d \in selected, Rank(selected, c) = Rank(selected, d)
      PROVE  c = d
  <2> DEFINE f == [e \in selected |-> Index(nb, e)]
             below(x) == {e \in selected : Index(nb, e) <= Index(nb, x)}
  <2>1. Rank(selected, c) = Cardinality(below(c)) /\ Rank(selected, d) = Cardinality(below(d))
    BY <1>2 DEF Rank
  <2>2. IsFiniteSet(selected)
    <3>1. f \in Injection(selected, 1..n)
      <4>1. ASSUME NEW x \in selected, NEW y \in selected, f[x] = f[y] PROVE x = y
        BY <4>1, <1>2
      <4> QED
        BY <4>1, <1>2 DEF Injection, IsInjective
    <3> QED
      BY <3>1, FS_Interval, FS_Injection
  <2>3. ASSUME NEW x \in selected, NEW y \in selected, Index(nb, x) < Index(nb, y)
        PROVE  Cardinality(below(x)) # Cardinality(below(y))
    <3>1. PICK i \in 1..n, j \in 1..n : i = Index(nb, x) /\ j = Index(nb, y)
      BY <1>2
    <3>2. y \in below(y) /\ y \notin below(x)
      BY <2>3, <3>1
    <3>3. below(x) \in SUBSET below(y)
      <4>1. ASSUME NEW e \in selected, Index(nb, e) <= i PROVE Index(nb, e) <= j
        <5>1. PICK k \in 1..n : k = Index(nb, e)
          BY <1>2
        <5> QED
          BY <4>1, <5>1, <2>3, <3>1
      <4> QED
        BY <4>1, <3>1
    <3>4. IsFiniteSet(below(y))
      BY <2>2, FS_Subset
    <3> HIDE DEF below
    <3> QED
      BY <3>2, <3>3, <3>4, FS_Subset
  <2>4. ~(Index(nb, c) < Index(nb, d)) /\ ~(Index(nb, d) < Index(nb, c))
    BY <2>1, <2>3, <1>7
  <2>5. Index(nb, c) = Index(nb, d)
    <3>1. PICK i \in 1..n, j \in 1..n : i = Index(nb, c) /\ j = Index(nb, d)
      BY <1>2
    <3> QED
      BY <2>4, <3>1
  <2> QED
    BY <2>5, <1>2
<1>8. executionOrder \in Nat /\ executionOrder <= executionOrder'
  BY <1>3, <1>4
<1> QED
  BY <1>5, <1>6, <1>7, <1>8

\* An execution of selected cells begins no job of number r, or does, for one of
\* them, and knows then if it is the only one.
NotBegun(r, selected) ==
    /\ jobs'[r] = jobs[r]
    /\ \A c \in selected : request'[c] # None /\ request'[c].order = r => ~request'[c].served

Begun(r, selected) ==
    /\ jobs[r] = None /\ r > executionOrder /\ r <= executionOrder'
    /\ \E c \in selected :
          /\ request'[c] # None /\ request'[c].order = r /\ request'[c].served
          /\ request'[c].program \in Seq(Line) /\ request'[c].program # <<>>
          /\ jobs'[r] = [program |-> request'[c].program, state |-> "begun",
                         answers |-> <<>>, served |-> TRUE]
    /\ \E new \in SUBSET Orders :
          /\ \A q \in Orders \ new : jobs'[q] = jobs[q]
          /\ r \in new
          /\ overlapped' = (\/ overlapped \/ Cardinality(new) > 1
                            \/ \E q \in Orders : Server!UnderWay(q))

\* The jobs that executing cells begins.
LEMMA ExecuteBegins ==
    ASSUME SessionInv, NEW nb \in Notebooks,
           NEW selected \in SUBSET (ToSet(cells[nb]) \cap Code), Execute(selected)
    PROVE  \A r \in Orders : NotBegun(r, selected) \/ Begun(r, selected)
<1> SUFFICES ASSUME NEW r \in Orders PROVE NotBegun(r, selected) \/ Begun(r, selected)
  OBVIOUS
<1> DEFINE Sent(q) == {c \in selected : /\ request'[c] # None /\ request'[c].order = q
                                        /\ request'[c].served}
           new == {q \in Orders : Sent(q) # {}}
<1>1. /\ ExecuteAll(selected)
      /\ \A q \in Orders : jobs'[q] =
            IF q \in new
              THEN [program |-> request'[CHOOSE c \in Sent(q) : TRUE].program,
                    state |-> "begun", answers |-> <<>>, served |-> TRUE]
              ELSE jobs[q]
      /\ overlapped' = (\/ overlapped \/ Cardinality(new) > 1
                        \/ new # {} /\ \E q \in Orders : Server!UnderWay(q))
  BY DEF Execute, Server!NewJob
<1>2. CASE r \notin new
  BY <1>1, <1>2 DEF NotBegun
<1>3. CASE r \in new
  <2> DEFINE c == CHOOSE d \in Sent(r) : TRUE
  <2>1. c \in Sent(r) /\ jobs'[r] = [program |-> request'[c].program, state |-> "begun",
                                     answers |-> <<>>, served |-> TRUE]
    BY <1>1, <1>3
  <2> HIDE DEF c
  <2>2. c \in selected /\ request'[c] # None /\ request'[c].order = r /\ request'[c].served
    BY <2>1
  <2>3. /\ request'[c] \in Request /\ request'[c].program # <<>> /\ executionOrder \in Nat
        /\ r \in (executionOrder + 1)..executionOrder'
    <3>1. c \in Cells
      BY <1>1, <2>2, ExecuteAllNumbers
    <3> QED
      BY <1>1, <2>2, <3>1, ExecuteAllNumbers
  <2>4. request'[c].program \in Seq(Line)
    BY <2>3 DEF Request
  <2>5. r > executionOrder /\ r <= executionOrder' /\ ~(r <= executionOrder)
    BY <2>3 DEF Orders
  <2>6. jobs[r] = None
    BY <2>5 DEF SessionInv, Fitting
  <2>7. new \in SUBSET Orders /\ new # {} /\ \A q \in Orders \ new : jobs'[q] = jobs[q]
    BY <1>1, <1>3
  <2> HIDE DEF new
  <2> QED
    BY <1>1, <1>3, <2>1, <2>2, <2>3, <2>4, <2>5, <2>6, <2>7 DEF Begun
<1> QED
  BY <1>2, <1>3

LEMMA ExecuteKeeps ==
    ASSUME SessionInv, NEW nb \in Notebooks,
           NEW selected \in SUBSET (ToSet(cells[nb]) \cap Code), Execute(selected)
    PROVE  SessionInv'
<1>1. /\ ExecuteAll(selected) /\ KernelInv' /\ UNCHANGED <<cells, edit, world>>
      /\ executing' = executing \cup selected
  BY ExecuteAllKeeps DEF SessionInv, Execute, ExecuteAll, documents
<1>2. /\ executionOrder \in Nat /\ executionOrder' \in Nat /\ executionOrder <= executionOrder'
      /\ \A c \in selected : c \in Cells /\ Here(c) /\ request[c] = None
  BY <1>1, ExecuteAllNumbers DEF KernelInv, TypeOK
<1>3. \A r \in Orders : NotBegun(r, selected) \/ Begun(r, selected)
  BY ExecuteBegins
<1>4. ASSUME NEW c \in Cells, request'[c] # None
      PROVE  /\ request'[c].order \in Orders
             /\ \/ c \notin selected /\ request'[c] = request[c] /\ request[c].order <= executionOrder
                \/ /\ c \in selected /\ request'[c].order <= executionOrder'
                   /\ request'[c].order > executionOrder
                   /\ request'[c].order = executionOrder + Rank(selected, c)
  <2>1. CASE c \in selected
    <3>1. /\ request'[c] \in Request /\ request'[c].order = executionOrder + Rank(selected, c)
          /\ request'[c].order \in (executionOrder + 1)..executionOrder'
      BY <1>1, <1>4, <2>1, ExecuteAllNumbers
    <3>2. request'[c].order <= executionOrder' /\ request'[c].order > executionOrder
      BY <3>1, <1>2
    <3> QED
      BY <2>1, <3>1, <3>2 DEF Request, Orders
  <2>2. CASE c \notin selected
    <3>1. request'[c] = request[c]
      BY <1>1, <1>4, <2>2, ExecuteAllNumbers
    <3> QED
      BY <1>4, <2>2, <3>1 DEF SessionInv, KernelInv, TypeOK, Request, Orders, Numbered
  <2> QED
    BY <2>1, <2>2
<1>5. ASSUME NEW c \in Cells, request'[c] # None, NEW d \in Cells, request'[d] # None,
             request'[d].order = request'[c].order
      PROVE  c = d
  <2>1. PICK o \in Orders, m \in Nat :
              o = request'[c].order /\ o = request'[d].order /\ m = executionOrder
    BY <1>2, <1>4, <1>5
  <2>2. o \in Nat
    BY DEF Orders
  <2>3. CASE o <= m
    <3>1. ~(o > m)
      BY <2>2, <2>3
    <3>2. request'[c] = request[c] /\ request'[d] = request[d]
      BY <3>1, <2>1, <1>4, <1>5
    <3> QED
      BY <3>2, <1>5 DEF SessionInv, Numbered
  <2>4. CASE ~(o <= m)
    <3>1. /\ c \in selected /\ o = m + Rank(selected, c)
          /\ d \in selected /\ o = m + Rank(selected, d)
      BY <2>1, <2>4, <1>4, <1>5
    <3>2. Rank(selected, c) \in Nat /\ Rank(selected, d) \in Nat
      <4>1. KernelInv /\ selected \in SUBSET ToSet(cells[nb])
        BY DEF SessionInv
      <4> QED
        BY <3>1, <4>1, RankOfCell
    <3>3. Rank(selected, c) = Rank(selected, d)
      BY <3>1, <3>2
    <3> QED
      BY <1>1, <3>1, <3>3, ExecuteAllNumbers
  <2> QED
    BY <2>3, <2>4
<1>6. Numbered'
  <2>1. \A c \in Cells : request'[c] # None => request'[c].order <= executionOrder'
    <3>1. SUFFICES ASSUME NEW c \in Cells, request'[c] # None
                   PROVE  request'[c].order <= executionOrder'
      OBVIOUS
    <3>2. PICK o \in Orders : o = request'[c].order
      BY <1>4, <3>1
    <3>3. o \in Nat /\ (o <= executionOrder => o <= executionOrder')
      BY <1>2 DEF Orders
    <3> QED
      BY <1>4, <3>1, <3>2, <3>3
  <2> QED
    BY <2>1, <1>5 DEF Numbered
<1>7. ASSUME NEW r \in Orders
      PROVE  /\ jobs'[r] \in Server!Job \cup {None}
             /\ jobs'[r] # None => Fits(jobs'[r]) /\ r <= executionOrder'
  <2>1. CASE jobs'[r] = jobs[r]
    <3>1. r \in Nat /\ (r <= executionOrder => r <= executionOrder')
      BY <1>2 DEF Orders
    <3> QED
      BY <2>1, <3>1 DEF SessionInv, ServerTypes, Fitting
  <2>2. CASE jobs'[r] # jobs[r]
    <3>1. /\ r <= executionOrder'
          /\ \E c \in selected :
                /\ request'[c].program \in Seq(Line) /\ request'[c].program # <<>>
                /\ jobs'[r] = [program |-> request'[c].program, state |-> "begun",
                               answers |-> <<>>, served |-> TRUE]
      <4>1. Begun(r, selected)
        BY <2>2, <1>3 DEF NotBegun
      <4> QED
        BY <4>1 DEF Begun
    <3>2. PICK p \in Seq(Line) :
                /\ p # <<>>
                /\ jobs'[r] = [program |-> p, state |-> "begun", answers |-> <<>>,
                               served |-> TRUE]
      BY <3>1
    <3>3. <<>> \in Seq(Server!Answer) /\ Len(<<>>) = 0
      BY EmptySeq
    <3>4. Len(p) \in Nat \ {0}
      BY <3>2, EmptySeq, LenProperties
    <3>5. jobs'[r] \in Server!Job
      BY <3>2, <3>3 DEF Server!Job
    <3>6. Fits(jobs'[r])
      BY <3>2, <3>3, <3>4 DEF Fits
    <3> QED
      BY <3>1, <3>5, <3>6
  <2> QED
    BY <2>1, <2>2
<1>8. ServerTypes' /\ Fitting'
  <2>1. jobs' \in [Orders -> Server!Job \cup {None}]
    BY <1>7 DEF Execute
  <2>2. overlapped' \in BOOLEAN
    BY DEF Execute
  <2> QED
    BY <1>1, <1>7, <2>1, <2>2 DEF SessionInv, ServerTypes, Fitting
<1>9. Matched'
  <2> SUFFICES ASSUME NEW c \in Cells, request'[c] # None,
                      NEW o \in Orders, o = request'[c].order
               PROVE  /\ request'[c].served =>
                            /\ jobs'[o] # None /\ jobs'[o].served
                            /\ jobs'[o].program = request'[c].program
                      /\ jobs'[o] # None /\ jobs'[o].served => request'[c].served
    BY <1>4 DEF Matched
  <2>1. CASE c \notin selected
    <3>1. request'[c] = request[c] /\ o <= executionOrder
      BY <1>4, <2>1
    <3>2. ~(o > executionOrder)
      BY <3>1, <1>2 DEF Orders
    <3>3. jobs'[o] = jobs[o]
      BY <3>2, <1>3 DEF NotBegun, Begun
    <3> QED
      BY <3>1, <3>3 DEF SessionInv, Matched
  <2>2. CASE c \in selected
    <3>1. jobs[o] = None
      <4>1. o > executionOrder
        BY <1>4, <2>2
      <4>2. ~(o <= executionOrder)
        BY <4>1, <1>2 DEF Orders
      <4> QED
        BY <4>2 DEF SessionInv, Fitting
    <3>2. CASE /\ jobs'[o] = jobs[o]
               /\ \A d \in selected : request'[d] # None /\ request'[d].order = o
                                        => ~request'[d].served
      BY <2>2, <3>1, <3>2
    <3>3. CASE \E d \in selected :
                  /\ request'[d] # None /\ request'[d].order = o /\ request'[d].served
                  /\ request'[d].program \in Seq(Line)
                  /\ jobs'[o] = [program |-> request'[d].program, state |-> "begun",
                                 answers |-> <<>>, served |-> TRUE]
      <4>1. PICK d \in selected :
                  /\ request'[d] # None /\ request'[d].order = o /\ request'[d].served
                  /\ request'[d].program \in Seq(Line)
                  /\ jobs'[o] = [program |-> request'[d].program, state |-> "begun",
                                 answers |-> <<>>, served |-> TRUE]
        BY <3>3
      <4>2. d = c
        BY <4>1, <1>2, <1>5
      <4>3. jobs'[o] # None
        <5>1. [program |-> request'[d].program, state |-> "begun", answers |-> <<>>,
               served |-> TRUE] \in Server!Job
          BY <4>1, EmptySeq DEF Server!Job
        <5> QED
          BY <4>1, <5>1, NoneAssumption
      <4> QED
        BY <4>1, <4>2, <4>3
    <3> QED
      BY ZenonT(40), <3>2, <3>3, <1>3 DEF NotBegun, Begun
  <2> QED
    BY <2>1, <2>2
<1>10. Alone'
  <2> SUFFICES ASSUME ~overlapped', NEW q \in Orders, jobs'[q] # None, jobs'[q].served
               PROVE  /\ Faithful(jobs'[q])
                      /\ Server!UnderWay(q)' => \A p \in Orders : Server!UnderWay(p)' => p = q
                      /\ jobs'[q].state = "running" =>
                            world' = SubSeq(jobs'[q].program, 1, Len(jobs'[q].answers))
    BY DEF Alone, Faithful
  <2>1. ~overlapped
    BY DEF Execute
  <2>2. ASSUME NEW r \in Orders, jobs'[r] # jobs[r]
        PROVE  /\ \A p \in Orders : ~Server!UnderWay(p) /\ (p # r => jobs'[p] = jobs[p])
               /\ jobs'[r].answers = <<>> /\ jobs'[r].state = "begun"
    <3>1. PICK new \in SUBSET Orders :
              /\ \A p \in Orders \ new : jobs'[p] = jobs[p]
              /\ r \in new
              /\ overlapped' = (\/ overlapped \/ Cardinality(new) > 1
                                \/ \E p \in Orders : Server!UnderWay(p))
      BY <2>2, <1>3 DEF NotBegun, Begun
    <3>2. ~(Cardinality(new) > 1) /\ \A p \in Orders : ~Server!UnderWay(p)
      BY <3>1
    <3>3. IsFiniteSet(new) /\ Cardinality(new) \in Nat
      BY BoundedFinite, NotebookAssumption DEF Orders
    <3>4. Cardinality(new) = 1
      <4>1. Cardinality(new) # 0
        BY <3>1, <3>3, FS_EmptySet
      <4> QED
        BY <4>1, <3>2, <3>3
    <3>5. \A p \in new : p = r
      BY <3>1, <3>3, <3>4, FS_Singleton
    <3>6. jobs'[r].answers = <<>> /\ jobs'[r].state = "begun"
      <4>1. Begun(r, selected)
        BY <2>2, <1>3 DEF NotBegun
      <4>2. PICK c \in selected :
                  jobs'[r] = [program |-> request'[c].program, state |-> "begun",
                              answers |-> <<>>, served |-> TRUE]
        BY <4>1 DEF Begun
      <4> QED
        BY <4>2
    <3> QED
      BY <3>1, <3>2, <3>5, <3>6
  <2>3. CASE jobs'[q] # jobs[q]
    <3>1. Faithful(jobs'[q])
      BY <2>2, <2>3, EmptySeq DEF Faithful
    <3>2. \A p \in Orders : p # q => ~Server!UnderWay(p)'
      BY <2>2, <2>3 DEF Server!UnderWay
    <3> QED
      BY <3>1, <3>2, <2>2, <2>3
  <2>4. CASE jobs'[q] = jobs[q]
    <3>1. /\ jobs[q] # None /\ jobs[q].served /\ Faithful(jobs'[q])
      BY <2>1, <2>4 DEF SessionInv, Alone
    <3>2. ASSUME Server!UnderWay(q)' PROVE \A p \in Orders : Server!UnderWay(p)' => p = q
      <4>1. Server!UnderWay(q)
        BY <2>4, <3>2 DEF Server!UnderWay
      <4>2. \A p \in Orders : jobs'[p] = jobs[p]
        BY <2>2, <4>1
      <4>3. \A p \in Orders : Server!UnderWay(p)' => Server!UnderWay(p)
        BY <4>2 DEF Server!UnderWay
      <4> QED
        BY <4>1, <4>3, <2>1, <3>1 DEF SessionInv, Alone
    <3>3. jobs'[q].state = "running" =>
              world' = SubSeq(jobs'[q].program, 1, Len(jobs'[q].answers))
      BY <1>1, <2>1, <2>4, <3>1 DEF SessionInv, Alone
    <3> QED
      BY <3>1, <3>2, <3>3
  <2> QED
    BY <2>3, <2>4
<1>11. InPlace'
  <2>1. ASSUME NEW c \in Cells
        PROVE  /\ c \in executing' => Here(c)'
               /\ Here(c)' /\ request'[c] # None => c \in executing'
               /\ edit'[c] = None
    <3>1. (Here(c)' <=> Here(c)) /\ edit'[c] = edit[c]
      BY <1>1 DEF Here
    <3>2. c \notin selected /\ request'[c] # None => request'[c] = request[c]
      BY <1>4
    <3> QED
      BY <1>1, <1>2, <3>1, <3>2 DEF SessionInv, InPlace
  <2> QED
    BY <2>1 DEF InPlace
<1> QED
  BY <1>1, <1>6, <1>8, <1>9, <1>10, <1>11 DEF SessionInv

\* The steps of the session, one by one.
LEMMA SessionStep ==
    ASSUME MaxOpen = 1, SessionInv, [SessionNext]_allVars
    PROVE  SessionInv'
<1>1. CASE Gesture
  BY <1>1, GestureKeeps
<1>2. CASE ServerDies
  BY <1>2, ServerDiesKeeps
<1>3. CASE \E nb \in Notebooks :
             \E selected \in SUBSET (ToSet(cells[nb]) \cap Code) : Execute(selected)
  BY <1>3, ExecuteKeeps
<1>4. CASE \E c \in Cells : Answered(c)
  BY <1>4, AnsweredKeeps
<1>5. ASSUME NEW r \in Orders, Work(r)
      PROVE  SessionInv'
  BY <1>5, ResetKeeps, ResetFailsKeeps, EvaluateKeeps, FinishKeeps, FailKeeps
  DEF Work, Server!Work
<1>7. CASE \E r \in Orders : LeftBehind(r)
  BY <1>7, LeftBehindKeeps
<1>8. CASE ACL2Dies
  BY <1>8, ACL2DiesKeeps
<1>6. CASE UNCHANGED allVars
  <2>1. UNCHANGED vars /\ UNCHANGED <<jobs, world, overlapped>>
    BY <1>6 DEF allVars, server
  <2>2. /\ KernelInv' /\ Numbered' /\ InPlace'
        /\ UNCHANGED <<request, executionOrder>>
    BY <2>1, SameNotebook
  <2>3. ServerTypes' /\ Fitting' /\ Matched' /\ Alone'
    BY <2>1, <2>2 DEF SessionInv, ServerTypes, Fitting, Matched, Alone, Server!UnderWay
  <2> QED
    BY <2>2, <2>3 DEF SessionInv
<1> QED
  BY <1>1, <1>2, <1>3, <1>4, <1>5, <1>6, <1>7, <1>8 DEF SessionNext

-----------------------------------------------------------------------------
(* The theorems. *)

\* While no two notebooks are open at once, the invariant holds.
THEOREM SessionInvariant ==
    ASSUME MaxOpen = 1
    PROVE  SessionSpec => []SessionInv
<1>1. SessionInv /\ [SessionNext]_allVars => SessionInv'
  BY SessionStep
<1> QED
  BY <1>1, InitSession, PTL DEF SessionSpec

(* Every variable of the session keeps its type, and a job has an answer for   *)
(* each construct it has had evaluated: all of them when it is done, and never *)
(* more than its program has.                                                  *)
THEOREM SessionTypes ==
    ASSUME MaxOpen = 1
    PROVE  SessionSpec => []SessionTypeOK
<1>1. SessionInv => SessionTypeOK
  BY DEF SessionInv, KernelInv, ServerTypes, Fitting, Fits, SessionTypeOK, Server!Complete
<1> QED
  BY <1>1, SessionInvariant, PTL

\* The program a cell was answered for is done, if that is what the cell shows.
LEMMA SuccessIsDone ==
    ASSUME SessionInv, NEW c \in Cells, Answered(c), c \in executing, outputs'[c].success
    PROVE  /\ outputs'[c].of = request[c].program
           /\ request[c].served /\ jobs[request[c].order].state = "done"
<1>1. PICK q \in Request : q = request[c]
  BY DEF Answered, DoExecuteCell, SessionInv, KernelInv, TypeOK
<1>2. ~Transformed(c)
  <2> SUFFICES ASSUME Transformed(c) PROVE FALSE
    OBVIOUS
  <2> DEFINE at == IF Here(c) THEN Index(Home[c], c) ELSE 0
             e == [program |-> q.program, editor |-> q.editor, at |-> at,
                   over |-> cells[q.editor]]
  <2>1. cells \in [Notebooks -> Seq(Cells)] /\ Home[c] \in Notebooks
    BY NotebookAssumption DEF SessionInv, KernelInv, TypeOK
  <2>2. at \in Nat
    <3>1. Here(c) => Index(Home[c], c) \in 1..Len(cells[Home[c]])
      BY <2>1, IndexLemma DEF Here
    <3>2. Len(cells[Home[c]]) \in Nat
      BY <2>1, IndexLemma
    <3> QED
      BY <3>1, <3>2
  <2>3. edit' = [edit EXCEPT ![c] = e]
    BY <1>1 DEF Transformed
  <2> HIDE DEF at
  <2>4. e \in CellEdit
    BY <1>1, <2>1, <2>2 DEF Request, CellEdit
  <2> HIDE DEF e
  <2>5. edit'[c] = e /\ edit'[c] = edit[c] /\ edit[c] = None
    BY <2>3 DEF Answered, SessionInv, InPlace, KernelInv, TypeOK
  <2> QED
    BY <2>4, <2>5, NoneAssumption
<1>3. PICK success \in BOOLEAN : End(c, success, request[c].program)
  BY <1>2 DEF Answered, DoExecuteCell, Responded
<1>4. outputs'[c] = [success |-> success, of |-> request[c].program]
  BY <1>3 DEF End, SessionInv, KernelInv, TypeOK
<1>5. outputs'[c].success = (request[c].served /\ jobs[request[c].order].state = "done")
  BY DEF Answered
<1>6. request[c].served /\ jobs[request[c].order].state = "done"
  BY <1>5
<1>7. outputs'[c].of = request[c].program
  BY <1>4
<1> QED
  BY <1>6, <1>7

\* A job that is done and was alone has the answers its program is entitled to.
LEMMA DoneIsAnswered ==
    ASSUME SessionInv, ~overlapped, NEW r \in Orders, jobs[r] # None, jobs[r].served,
           jobs[r].state = "done"
    PROVE  jobs[r].answers = Answers(jobs[r].program)
<1>1. PICK j \in Server!Job : j = jobs[r]
  BY DEF SessionInv, ServerTypes
<1>2. Faithful(j) /\ Len(j.answers) = Len(j.program)
  BY <1>1 DEF SessionInv, Alone, Fitting, Fits
<1>3. PICK a \in Seq(Server!Answer), p \in Seq(Line) : a = j.answers /\ p = j.program
  BY <1>1 DEF Server!Job
<1>4. PICK n \in Nat : n = Len(a) /\ n = Len(p)
  BY <1>2, <1>3, LenProperties
<1>5. a = [i \in 1..n |-> a[i]]
  BY <1>4, LenProperties
<1>6. \A i \in 1..n : a[i] = [construct |-> p[i], world |-> SubSeq(p, 1, i - 1)]
  BY <1>2, <1>3, <1>4 DEF Faithful
<1>7. Answers(p) = [i \in 1..n |-> [construct |-> p[i], world |-> SubSeq(p, 1, i - 1)]]
  BY <1>4 DEF Answers
<1>8. a = Answers(p)
  BY <1>5, <1>6, <1>7
<1> QED
  BY <1>1, <1>3, <1>8

(* A success appears under a cell only when ACL2 has evaluated the code that   *)
(* the notebook had up to the cell when it was run, all of it, each construct  *)
(* in the world of the ones before it: unless jobs have overlapped since the   *)
(* server started, whatever was deleted, closed, reopened or died meanwhile.   *)
THEOREM SuccessesAreEvaluated ==
    ASSUME MaxOpen = 1
    PROVE  SessionSpec => ShownIsEvaluated
<1> DEFINE Evaluated ==
             \A c \in Cells :
                 /\ request[c] # None /\ request'[c] = None /\ c \in executing
                 /\ Here(c)' /\ outputs'[c].success
                 => overlapped \/ jobs[request[c].order].answers = Answers(outputs'[c].of)
<1>1. ASSUME SessionInv, [SessionNext]_allVars PROVE Evaluated \/ UNCHANGED allVars
  <2> SUFFICES ASSUME NEW c \in Cells, request[c] # None, request'[c] = None,
                      c \in executing, Here(c)', outputs'[c].success,
                      SessionNext, ~overlapped
               PROVE  jobs[request[c].order].answers = Answers(outputs'[c].of)
    BY <1>1
  <2>1. Answered(c)
    <3>1. ~Gesture
      <4>1. Here(c)
        BY <1>1 DEF SessionInv, InPlace
      <4> QED
        BY <1>1, <4>1, GestureLemma
    <3>2. ~ServerDies
      <4> SUFFICES ASSUME ServerDies PROVE FALSE
        OBVIOUS
      <4>1. PICK q \in Request : q = request[c]
        BY <1>1 DEF SessionInv, KernelInv, TypeOK
      <4>2. request'[c] = [q EXCEPT !.served = FALSE]
        BY <4>1 DEF ServerDies, ServerStops
      <4>3. request'[c] \in Request
        BY <4>2 DEF Request
      <4> QED
        BY <4>3, NoneAssumption
    <3>3. ASSUME NEW nb \in Notebooks, NEW selected \in SUBSET (ToSet(cells[nb]) \cap Code),
                 Execute(selected)
          PROVE  FALSE
      <4>1. ExecuteAll(selected)
        BY <3>3 DEF Execute
      <4>2. c \notin selected
        BY <1>1, <4>1, ExecuteAllNumbers
      <4> QED
        BY <4>1, <4>2 DEF ExecuteAll
    <3>4. ASSUME NEW d \in Cells, Answered(d) PROVE d = c
      BY <1>1, <3>4 DEF Answered, DoExecuteCell, SessionInv, KernelInv, TypeOK
    <3>5. ASSUME ACL2Dies \/ \E r \in Orders : Work(r) \/ LeftBehind(r)
          PROVE  FALSE
      BY <3>5 DEF ACL2Dies, Work, LeftBehind, vars, execution
    <3> QED
      BY <3>1, <3>2, <3>3, <3>4, <3>5 DEF SessionNext
  <2>2. /\ outputs'[c].of = request[c].program
        /\ request[c].served /\ jobs[request[c].order].state = "done"
    BY <1>1, <2>1, SuccessIsDone
  <2>3. PICK r \in Orders : r = request[c].order
    BY <1>1 DEF SessionInv, KernelInv, TypeOK, Request, Orders
  <2>4. jobs[r] # None /\ jobs[r].served /\ jobs[r].program = request[c].program
    BY <1>1, <2>2, <2>3 DEF SessionInv, Matched
  <2> QED
    BY <1>1, <2>2, <2>3, <2>4, DoneIsAnswered
<1>2. SessionInv /\ [SessionNext]_allVars => [Evaluated]_allVars
  BY <1>1
<1> QED
  BY <1>2, SessionInvariant, PTL DEF SessionSpec, ShownIsEvaluated

(* While a server works on a program some cell is shown to be running, unless  *)
(* that was deleted or its notebook closed.                                    *)
THEOREM WorkIsAlwaysShown ==
    ASSUME MaxOpen = 1
    PROVE  SessionSpec => WorkIsShown
<1> DEFINE Shows ==
             \A r \in Orders :
                 /\ Server!UnderWay(r)' /\ jobs'[r].served
                 /\ Server!UnderWay(r) => Shown(r)
                 /\ \A c \in Cells : Here(c) => Here(c)'
                 => Shown(r)'
<1>1. ASSUME SessionInv, [SessionNext]_allVars PROVE Shows \/ UNCHANGED allVars
  <2> SUFFICES ASSUME NEW r \in Orders, Server!UnderWay(r)', jobs'[r].served, SessionNext,
                      Server!UnderWay(r) => Shown(r), \A c \in Cells : Here(c) => Here(c)'
               PROVE  \E d \in Cells : /\ d \in executing' /\ request'[d] # None
                                       /\ request'[d].order = r
    BY <1>1 DEF Shown
  <2>1. ASSUME Server!UnderWay(r)
        PROVE  \E d \in Cells : d \in executing /\ request[d] # None /\ request[d].order = r
    <3>1. executing \subseteq Cells
      BY <1>1, NotebookAssumption DEF SessionInv, KernelInv, TypeOK
    <3> QED
      BY <2>1, <3>1 DEF Shown
  <2>2. CASE Gesture
    <3>1. Server!UnderWay(r)
      BY <2>2 DEF Gesture, server, Server!UnderWay
    <3>2. PICK d \in Cells : d \in executing /\ request[d] # None /\ request[d].order = r
      BY <2>1, <3>1
    <3>3. Here(d) /\ Here(d)'
      BY <1>1, <3>2 DEF SessionInv, InPlace
    <3> QED
      BY <1>1, <2>2, <3>2, <3>3, GestureLemma
  <2>3. CASE ServerDies
    <3>1. jobs'[r] # None
      BY DEF Server!UnderWay
    <3>2. Server!UnderWay(r)
      BY <2>3, <3>1 DEF ServerDies, Server!ServerDies
    <3>3. PICK j \in Server!Job : j = jobs[r]
      BY <1>1, <3>2 DEF Server!UnderWay, SessionInv, ServerTypes
    <3>4. jobs'[r] = [j EXCEPT !.served = FALSE]
      BY <2>3, <3>2, <3>3 DEF ServerDies, Server!ServerDies
    <3> QED
      BY <3>4 DEF Server!Job
  <2>4. ASSUME NEW nb \in Notebooks, NEW selected \in SUBSET (ToSet(cells[nb]) \cap Code),
               Execute(selected)
        PROVE  \E d \in Cells : /\ d \in executing' /\ request'[d] # None
                                /\ request'[d].order = r
    <3>1. /\ executing' = executing \cup selected /\ selected \cap executing = {}
          /\ \A d \in Cells : d \notin selected => request'[d] = request[d]
      BY <2>4 DEF Execute, ExecuteAll
    <3>2. CASE Begun(r, selected)
      <4>1. selected \subseteq Cells
        BY NotebookAssumption
      <4> QED
        BY <3>1, <3>2, <4>1 DEF Begun
    <3>3. CASE NotBegun(r, selected)
      <4>1. Server!UnderWay(r)
        BY <3>3 DEF NotBegun, Server!UnderWay
      <4>2. PICK d \in Cells : d \in executing /\ request[d] # None /\ request[d].order = r
        BY <2>1, <4>1
      <4> QED
        BY <3>1, <4>2
    <3> QED
      BY SMTT(30), <1>1, <2>4, <3>2, <3>3, ExecuteBegins
  <2>5. ASSUME NEW c \in Cells, Answered(c)
        PROVE  \E d \in Cells : /\ d \in executing' /\ request'[d] # None
                                /\ request'[d].order = r
    <3>1. /\ request[c] # None /\ request' = [request EXCEPT ![c] = None]
          /\ executing \ {c} \subseteq executing'
      BY <2>5 DEF Answered, DoExecuteCell, Responded, Transformed, End
    <3>2. PICK o \in Orders : o = request[c].order
      BY <1>1, <3>1 DEF SessionInv, KernelInv, TypeOK, Request, Orders
    <3>3. jobs'[r] # None
      BY DEF Server!UnderWay
    <3>4. jobs'[r] = jobs[r] /\ r # o
      <4>1. CASE request[c].served
        <5>1. jobs' = [jobs EXCEPT ![o] = None]
          BY <2>5, <3>2, <4>1 DEF Answered, Forget, Server!Forget
        <5> QED
          BY <1>1, <3>3, <5>1 DEF SessionInv, ServerTypes
      <4>2. CASE ~request[c].served
        <5>1. jobs' = jobs
          BY <2>5, <4>2 DEF Answered, Forget, Server!Forget
        <5> QED
          BY <1>1, <3>1, <3>2, <3>3, <4>2, <5>1 DEF SessionInv, Matched
      <4> QED
        BY <4>1, <4>2
    <3>5. Server!UnderWay(r)
      BY <3>4 DEF Server!UnderWay
    <3>6. PICK d \in Cells : d \in executing /\ request[d] # None /\ request[d].order = r
      BY <2>1, <3>5
    <3>7. d # c
      BY <3>2, <3>4, <3>6
    <3> QED
      BY <1>1, <3>1, <3>6, <3>7 DEF SessionInv, KernelInv, TypeOK
  <2>6. ASSUME NEW q \in Orders, Work(q) \/ LeftBehind(q)
        PROVE  \E d \in Cells : /\ d \in executing' /\ request'[d] # None
                                /\ request'[d].order = r
    <3>1. UNCHANGED vars /\ Server!UnderWay(q) /\ \E k : jobs' = [jobs EXCEPT ![q] = k]
      BY <2>6 DEF Work, LeftBehind, Server!Work, Server!Reset, Server!ResetFails,
                  Server!Evaluate, Server!Finish, Server!Fail, Server!LeftBehind, Server!Served
    <3>2. Server!UnderWay(r)
      <4>1. CASE q = r
        BY <3>1, <4>1
      <4>2. CASE q # r
        <5>1. jobs'[r] = jobs[r]
          BY <1>1, <3>1, <4>2 DEF SessionInv, ServerTypes
        <5> QED
          BY <5>1 DEF Server!UnderWay
      <4> QED
        BY <4>1, <4>2
    <3>3. PICK d \in Cells : d \in executing /\ request[d] # None /\ request[d].order = r
      BY <2>1, <3>2
    <3> QED
      BY <3>1, <3>3 DEF vars, execution
  <2>7. CASE ACL2Dies
    <3>1. UNCHANGED vars /\ jobs'[r] # None
      BY <2>7 DEF ACL2Dies, Server!UnderWay
    <3>2. Server!UnderWay(r)
      BY <2>7, <3>1 DEF ACL2Dies, Server!ACL2Dies, Server!UnderWay
    <3>3. PICK d \in Cells : d \in executing /\ request[d] # None /\ request[d].order = r
      BY <2>1, <3>2
    <3> QED
      BY <3>1, <3>3 DEF vars, execution
  <2> QED
    BY <2>2, <2>3, <2>4, <2>5, <2>6, <2>7 DEF SessionNext
<1>2. SessionInv /\ [SessionNext]_allVars => [Shows]_allVars
  BY <1>1
<1> QED
  BY <1>2, SessionInvariant, PTL DEF SessionSpec, WorkIsShown

(* Each step of the session is one of the notebook, or none of it: what the    *)
(* notebook does over any server, it does over this one.  However many         *)
(* notebooks are open.                                                         *)
THEOREM SessionImplementsKernel ==
    SessionSpec => Spec
<1>1. SessionInit => Init
  BY DEF SessionInit
<1>2. [SessionNext]_allVars => [Next]_vars
  <2> SUFFICES ASSUME [SessionNext]_allVars PROVE Next \/ UNCHANGED vars
    OBVIOUS
  <2>1. CASE Gesture \/ ServerDies
    BY <2>1 DEF Gesture, ServerDies, Next, VSCode
  <2>2. CASE \E nb \in Notebooks :
               \E selected \in SUBSET (ToSet(cells[nb]) \cap Code) : Execute(selected)
    BY <2>2 DEF Execute, Next
  <2>3. CASE \E c \in Cells : Answered(c)
    BY <2>3 DEF Answered, Next
  <2>4. CASE ACL2Dies \/ \E r \in Orders : Work(r) \/ LeftBehind(r)
    BY <2>4 DEF ACL2Dies, Work, LeftBehind
  <2>5. CASE UNCHANGED allVars
    BY <2>5 DEF allVars
  <2> QED
    BY <2>1, <2>2, <2>3, <2>4, <2>5 DEF SessionNext
<1> QED
  BY <1>1, <1>2, PTL DEF SessionSpec, Spec

\* A job that is begun is a new one, of a number that no server works for.
LEMMA ExecuteServes ==
    ASSUME SessionInv, SessionInv', NEW nb \in Notebooks,
           NEW selected \in SUBSET (ToSet(cells[nb]) \cap Code), Execute(selected)
    PROVE  \E new \in SUBSET Orders : Server!Begin(new)
<1> DEFINE new == {r \in Orders : Begun(r, selected)}
<1>1. ASSUME NEW r \in Orders, Begun(r, selected)
      PROVE  /\ jobs[r] = None /\ jobs'[r] \in Server!Job
             /\ jobs'[r] = Server!NewJob(jobs'[r].program)
  <2>1. PICK p : jobs'[r] = [program |-> p, state |-> "begun", answers |-> <<>>,
                             served |-> TRUE]
    BY <1>1 DEF Begun
  <2>2. PICK k, none : k = jobs'[r] /\ none = <<>>
    OBVIOUS
  <2>3. k = [program |-> p, state |-> "begun", answers |-> none, served |-> TRUE]
    BY <2>1, <2>2
  <2>4. k.program = p
    BY ONLY <2>3
  <2>5. k = Server!NewJob(k.program)
    BY <2>2, <2>3, <2>4 DEF Server!NewJob
  <2>6. jobs'[r] # None
    <3>1. /\ r <= executionOrder' /\ r > executionOrder
          /\ \E c \in selected : request'[c] # None /\ request'[c].order = r /\ request'[c].served
      BY <1>1 DEF Begun
    <3>2. selected \subseteq Cells
      BY ExecuteAllNumbers DEF Execute
    <3> QED
      BY <3>1, <3>2 DEF SessionInv, Matched
  <2>7. jobs'[r] \in Server!Job
    BY <2>6 DEF SessionInv, ServerTypes
  <2> QED
    BY <1>1, <2>2, <2>5, <2>7 DEF Begun
<1>2. jobs' = [r \in Orders |-> IF r \in new THEN jobs'[r] ELSE jobs[r]]
  <2>1. \A r \in Orders : r \notin new => jobs'[r] = jobs[r]
    BY ExecuteBegins DEF NotBegun
  <2>2. jobs' = [r \in Orders |-> jobs'[r]]
    BY DEF SessionInv, ServerTypes
  <2> HIDE DEF new
  <2> QED
    BY <2>1, <2>2
<1>3. UNCHANGED world
  BY DEF Execute
<1>4. new \in SUBSET Orders /\ \A r \in new : Begun(r, selected)
  OBVIOUS
<1> HIDE DEF new
<1>5. Server!Begin(new)
  BY <1>1, <1>2, <1>3, <1>4 DEF Server!Begin
<1> QED
  BY <1>4, <1>5

(* Of a server and of ACL2 the notebook asks what JobServer allows: every      *)
(* execution gets a number that no server works for and that is not answered,  *)
(* and each job is forgotten when its cell is told how it ended.               *)
THEOREM SessionServesJobs ==
    ASSUME MaxOpen = 1
    PROVE  SessionSpec => ServesJobs
<1>1. ASSUME SessionInv, SessionInv', [SessionNext]_allVars
      PROVE  [Server!Next]_<<jobs, world>>
  <2>1. ASSUME NEW nb \in Notebooks,
               NEW selected \in SUBSET (ToSet(cells[nb]) \cap Code), Execute(selected)
        PROVE  Server!Next
    BY <1>1, <2>1, ExecuteServes DEF Server!Next
  <2>2. ASSUME NEW c \in Cells, Answered(c) PROVE [Server!Next]_<<jobs, world>>
    <3>1. request[c] # None /\ (Server!Forget(request[c].order) \/ UNCHANGED <<jobs, world>>)
      BY <2>2 DEF Answered, DoExecuteCell, Forget
    <3>2. request[c].order \in Orders
      BY <1>1, <3>1 DEF SessionInv, KernelInv, TypeOK, Request, Orders
    <3> QED
      BY <3>1, <3>2 DEF Server!Next
  <2>3. CASE ServerDies \/ ACL2Dies \/ \E r \in Orders : Work(r) \/ LeftBehind(r)
    BY <2>3 DEF ServerDies, ACL2Dies, Work, LeftBehind, Server!Next
  <2>4. CASE Gesture \/ UNCHANGED allVars
    BY <2>4 DEF Gesture, allVars, server
  <2> QED
    BY <1>1, <2>1, <2>2, <2>3, <2>4 DEF SessionNext
<1>2. SessionInit => Server!Init
  BY DEF SessionInit
<1>3. SessionInv /\ [SessionNext]_allVars => SessionInv'
  BY SessionStep
<1>4. SessionInv /\ SessionInv' /\ [SessionNext]_allVars => [Server!Next]_<<jobs, world>>
  BY <1>1
<1> QED
  BY <1>2, <1>3, <1>4, InitSession, PTL DEF SessionSpec, ServesJobs, Server!Spec
=============================================================================
