----------------------- MODULE BridgeRefinementProofs -----------------------
(***************************************************************************)
(* The session over the bridge implements Evaluator when executions do not *)
(* overlap and ACL2 answers readably and refuses nothing.  The refinement  *)
(* mapping is Shown: a program is answered or has failed when its thread   *)
(* is done.  The invariant adds to the freshness of worlds that no message *)
(* is misread at all, as nothing gives a reader cause to lose step.        *)
(***************************************************************************)
EXTENDS BridgeFreshWorldProofs

\* What is on its way to the client can be read.
Readably ==
    \A c \in Conns : \A i \in 1..Len(unread[c]) :
        /\ unread[c][i].val # "unreadable"
        /\ unread[c][i].cmd.kind = "hello" => unread[c][i].out = 0

RefInv == FreshInv /\ spoiled = {} /\ Readably /\ AnswersCorrespond

-----------------------------------------------------------------------------
(* No message is misread. *)

\* What is read is a token the reader expects, or output it skips.
LEMMA NothingMisread ==
    ASSUME RefInv, NEW t \in Threads
    PROVE  ~Misread(t) /\ ~ReadPart(t)
<1>1. ~ReadPart(t)
  BY ReadsWhole DEF RefInv, FreshInv
<1>2. SUFFICES ASSUME Misread(t) PROVE FALSE
  BY <1>1
<1> DEFINE m == Head(unread[command])
<1>3. Readable(t) /\ command \in Conns /\ sock[t] = command /\ IInv
  BY <1>2, ReadsCommandSocket DEF RefInv, FreshInv, Misread, TakesWhole
<1>4. at[command] = phase[t]
  BY <1>3, ReadsItsAnswer DEF RefInv
<1>5. ~Unexpected(t)
  BY <1>3, <1>4, ReaderTakes DEF Unexpected
<1>6. m = unread[command][1] /\ 1 \in 1..Len(unread[command])
  BY <1>3, ReaderStands
<1>7. m.val # "unreadable"
  BY <1>3, <1>6 DEF RefInv, Readably
<1> QED
  BY <1>2, <1>3, <1>5, <1>7 DEF Misread

LEMMA NotSpoiled ==
    ASSUME RefInv, [Next]_vars
    PROVE  spoiled' = {}
<1>1. ASSUME NEW t \in Threads, Begin(t) \/ Step(t) PROVE spoiled' = spoiled
  BY <1>1, NothingMisread DEF Begin, Step, Read, CheckBridgeConnected, Connect,
     SetResponse, SendReset, SendTop, BeginRead, ReadStdout, ReadToken, ReadEOF,
     Translate, UseAnswer
<1>2. ASSUME (\E c \in Conns : Serve(c)) \/ Crash \/ Restart \/ UNCHANGED vars
      PROVE  spoiled' = spoiled
  BY <1>2 DEF Serve, Crash, Restart, vars
<1> QED
  BY <1>1, <1>2 DEF Next, RefInv

\* Reading shortens what is unread, or its first message.
LEMMA ReadStaysReadable ==
    ASSUME TypeInv, Readably, NEW t \in Threads, ReadStdout(t) \/ ReadToken(t)
    PROVE  Readably'
<1> DEFINE c == sock[t]
<1>1. /\ c \in Conns /\ unread[c] \in Seq(Messages) /\ unread[c] # <<>>
      /\ unread \in [Conns -> Seq(Messages)]
  BY DEF ReadStdout, ReadToken, TakesWhole, Readable, TypeInv, InRange, TypeOK
<1>2. \A d \in Conns \ {c} : unread'[d] = unread[d]
  BY <1>1 DEF ReadStdout, ReadToken, Consume
<1>3. CASE ReadStdout(t)
  <2>1. /\ unread'[c] = [unread[c] EXCEPT ![1].out = @ - 1]
        /\ NextToken(t) = "STDOUT"
    BY <1>1, <1>3 DEF ReadStdout, Printed
  <2>2. unread[c][1] = Head(unread[c]) /\ 1 \in 1..Len(unread[c])
        /\ unread[c][1] \in Messages
    BY <1>1, HeadTail
  <2>3. Len(unread'[c]) = Len(unread[c])
        /\ \A i \in 2..Len(unread[c]) : unread'[c][i] = unread[c][i]
    BY <1>1, <2>1
  <2>4. unread'[c][1].cmd = unread[c][1].cmd /\ unread'[c][1].val = unread[c][1].val
    BY <1>1, <2>1, <2>2 DEF Messages
  <2>5. unread[c][1].cmd.kind # "hello"
    <3>1. SUFFICES ASSUME unread[c][1].cmd.kind = "hello" PROVE FALSE
      OBVIOUS
    <3>2. unread[c][1].out = 0
      BY <1>1, <2>2, <3>1 DEF Readably
    <3>3. NextToken(t) = Layout(Head(unread[c]))[at[c] + 1] /\ at[c] \in Nat
          /\ at[c] < Len(Layout(Head(unread[c])))
      BY SMTT(30), <1>1, <2>2, <3>2, Position DEF NextToken, TokenAt
    <3> QED
      BY <2>1, <3>3, LayoutTokens
  <2> QED
    BY <1>1, <1>2, <2>2, <2>3, <2>4, <2>5 DEF Readably
<1>4. CASE ReadToken(t)
  <2>1. unread'[c] = unread[c] \/ unread'[c] = Tail(unread[c])
    BY <1>1, <1>4 DEF ReadToken, Consume
  <2>2. ASSUME NEW i \in 1..Len(unread'[c])
        PROVE  \E j \in 1..Len(unread[c]) : unread'[c][i] = unread[c][j]
    <3>1. CASE unread'[c] = unread[c]
      BY <3>1
    <3>2. CASE unread'[c] = Tail(unread[c])
      <4>1. i + 1 \in 1..Len(unread[c]) /\ Tail(unread[c])[i] = unread[c][i + 1]
        BY <1>1, <3>2
      <4> QED
        BY <3>2, <4>1
    <3> QED
      BY <2>1, <3>1, <3>2
  <2> QED
    BY <1>1, <1>2, <2>2 DEF Readably
<1> QED
  BY <1>3, <1>4

LEMMA ReadableStep ==
    ASSUME RefInv, "unreadable" \notin Kinds, [Next]_vars
    PROVE  Readably'
<1>1. TypeInv /\ Readably
  BY DEF RefInv, FreshInv, IInv
<1>2. ASSUME NEW t \in Threads, ReadStdout(t) \/ ReadToken(t) PROVE Readably'
  BY <1>1, <1>2, ReadStaysReadable
<1>3. ASSUME NEW t \in Threads, Begin(t) \/ Step(t), ~ReadStdout(t), ~ReadToken(t)
      PROVE  UNCHANGED unread
  BY <1>3, NothingMisread DEF Begin, Step, Read, CheckBridgeConnected, Connect,
     SetResponse, SendReset, SendTop, BeginRead, ReadEOF, Translate, UseAnswer, wire
<1>4. ASSUME NEW c \in Conns, Serve(c) PROVE Readably'
  <2>1. PICK m : /\ unread' = [unread EXCEPT ![c] = Append(@, m)]
                 /\ m.val \in Kinds \cup {"noform"}
                 /\ m.cmd.kind = "hello" => m.out = 0
    <3> DEFINE hello == Head(inbox[c]).kind = "hello"
               fault(val) == ~hello /\ val \in {"refused", "unreadable"}
               m(val, out) == [cmd |-> Head(inbox[c]),
                               val |-> IF fault(val) \/ Head(inbox[c]).kind = "top"
                                         THEN val ELSE "noform",
                               world |-> world,
                               out |-> IF hello THEN 0 ELSE out]
    <3>1. PICK val \in Kinds, out \in 0..MaxOut :
             unread' = [unread EXCEPT ![c] = Append(@, m(val, out))]
      BY <1>4 DEF Serve
    <3>2. m(val, out).val \in Kinds \cup {"noform"}
          /\ (m(val, out).cmd.kind = "hello" => m(val, out).out = 0)
      OBVIOUS
    <3> HIDE DEF m
    <3> QED
      BY <3>1, <3>2
  <2>2. unread \in [Conns -> Seq(Messages)]
    BY <1>1 DEF TypeInv, TypeOK
  <2>3. \A d \in Conns \ {c} : unread'[d] = unread[d]
    BY <2>1, <2>2
  <2>4. /\ Len(unread'[c]) = Len(unread[c]) + 1
        /\ \A i \in 1..Len(unread[c]) : unread'[c][i] = unread[c][i]
        /\ unread'[c][Len(unread[c]) + 1] = m
    BY <2>1, <2>2
  <2>5. m.val # "unreadable"
    BY <2>1
  <2> QED
    BY <1>1, <2>1, <2>2, <2>3, <2>4, <2>5 DEF Readably
<1>5. CASE Crash \/ Restart \/ UNCHANGED vars
  BY <1>1, <1>5 DEF Crash, Restart, vars, wire, Readably
<1> QED
  BY <1>1, <1>2, <1>3, <1>4, <1>5 DEF Next, Readably

-----------------------------------------------------------------------------
(* Every answer reported is the one asked for. *)

LEMMA CorrespondStep ==
    ASSUME RefInv, MaxParallel = 1, [Next]_vars
    PROVE  AnswersCorrespond'
<1> USE DEF RefInv, FreshInv, IInv
<1>1. ASSUME NEW t \in Threads, UseAnswer(t) PROVE AnswersCorrespond'
  <2>1. pc[t] = "use" /\ ForThread(t) /\ command = response
    BY <1>1, OneThread DEF UseAnswer, Resting, ForThread
  <2>2. lastParsed[response].cmd = Top(t, next[t])
    BY <2>1 DEF ForThread
  <2>3. /\ allResults \in [Threads -> Seq(Messages)]
        /\ Len(allResults[t]) = next[t] - 1 /\ next[t] \in Nat
    BY DEF TypeInv, TypeOK, CountInv, Counted
  <2>4. CASE allResults' = allResults
    BY <2>4 DEF AnswersCorrespond
  <2>5. CASE allResults' = [allResults EXCEPT ![t] = Append(@, lastParsed[response])]
    <3>1. \A u \in Threads \ {t} : allResults'[u] = allResults[u]
      BY <2>3, <2>5
    <3>2. /\ Len(allResults'[t]) = next[t]
          /\ \A i \in 1..(next[t] - 1) : allResults'[t][i] = allResults[t][i]
          /\ allResults'[t][next[t]] = lastParsed[response]
      BY <2>3, <2>5
    <3> QED
      BY SMTT(30), <2>2, <2>3, <3>1, <3>2 DEF AnswersCorrespond
  <2> QED
    BY <1>1, <2>4, <2>5 DEF UseAnswer
<1>2. ASSUME NEW t \in Threads, Begin(t) \/ Step(t), ~UseAnswer(t)
      PROVE  UNCHANGED allResults
  BY <1>2 DEF Begin, Step, Read, CheckBridgeConnected, Connect, SetResponse, SendReset,
     SendTop, BeginRead, ReadStdout, ReadToken, Misread, ReadPart, ReadEOF, Translate,
     report
<1>3. ASSUME (\E c \in Conns : Serve(c)) \/ Crash \/ Restart \/ UNCHANGED vars
      PROVE  UNCHANGED allResults
  BY <1>3 DEF Serve, Crash, Restart, vars, report
<1> QED
  BY <1>1, <1>2, <1>3 DEF Next, AnswersCorrespond

LEMMA InitRef == Init => RefInv
<1> SUFFICES ASSUME Init PROVE RefInv
  OBVIOUS
<1>1. Readably /\ AnswersCorrespond /\ spoiled = {}
  BY DEF Init, Readably, AnswersCorrespond
<1> QED
  BY <1>1, InitFresh DEF RefInv

LEMMA RefStep ==
    ASSUME RefInv, MaxParallel = 1, "refused" \notin Kinds, "unreadable" \notin Kinds,
           [Next]_vars
    PROVE  RefInv'
<1>1. FreshInv'
  BY FreshStep DEF RefInv
<1> QED
  BY <1>1, NotSpoiled, ReadableStep, CorrespondStep DEF RefInv

-----------------------------------------------------------------------------
(* Every step is one of the evaluator, or changes nothing the user sees. *)

\* A program whose thread is done with success is shown with its answers.
LEMMA SuccessIsAnswered ==
    ASSUME RefInv', NEW t \in Threads, pc'[t] = "done", verdict'[t] = "success"
    PROVE  Shown'[t] = Abstract!Answered(t)
<1>1. Len(allResults'[t]) = Tops[t]
  BY DEF RefInv, FreshInv, CountInv, Counted
<1>2. \A i \in 1..Tops[t] : /\ allResults'[t][i].cmd = Top(t, i)
                             /\ allResults'[t][i].world = Prefix(t, i)
  BY <1>1 DEF RefInv, FreshInv, Worlds, AnswersCorrespond, FreshWorld
<1>3. [i \in 1..Len(allResults'[t]) |-> [cmd |-> allResults'[t][i].cmd,
                                        world |-> allResults'[t][i].world]]
      = Abstract!Answers(t)
  BY <1>1, <1>2 DEF Abstract!Answers, Prefix
<1> QED
  BY <1>3 DEF Shown, Abstract!Answered

LEMMA InitShown == Init => Abstract!Init
BY DEF Init, Shown, Abstract!Init, Abstract!Pending

\* Only the thread that moves can change what is shown, and only when it ends.
LEMMA ThreadShown ==
    ASSUME RefInv, RefInv', NEW t \in Threads, pc[t] # "done",
           NEW where, pc' = [pc EXCEPT ![t] = where],
           \A u \in Threads \ {t} : /\ verdict'[u] = verdict[u]
                                     /\ allResults'[u] = allResults[u]
    PROVE  [Abstract!Next]_Shown
<1>1. pc \in [Threads -> PCs]
  BY DEF RefInv, FreshInv, IInv, TypeInv, TypeOK
<1>2. \A u \in Threads \ {t} : Shown'[u] = Shown[u]
  BY <1>1 DEF Shown
<1>3. Shown[t] = Abstract!Pending
  BY DEF Shown, Abstract!Pending
<1>4. Shown' = [Shown EXCEPT ![t] = Shown'[t]]
  <2>1. /\ Shown = [u \in Threads |-> Shown[u]]
        /\ Shown' = [u \in Threads |-> Shown'[u]]
    BY DEF Shown
  <2> QED
    BY <1>2, <2>1
<1>5. CASE where # "done"
  <2>1. Shown'[t] = Shown[t]
    BY <1>1, <1>3, <1>5 DEF Shown, Abstract!Pending
  <2>2. Shown = [u \in Threads |-> Shown[u]]
    BY DEF Shown
  <2> QED
    BY <1>4, <2>1, <2>2
<1>6. CASE where = "done" /\ verdict'[t] # "success"
  <2>1. Shown'[t] = Abstract!Failed
    BY <1>1, <1>6 DEF Shown, Abstract!Failed
  <2> QED
    BY <1>3, <1>4, <2>1 DEF Abstract!Next, Abstract!Fail
<1>7. CASE where = "done" /\ verdict'[t] = "success"
  <2>1. Shown'[t] = Abstract!Answered(t)
    BY <1>1, <1>7, SuccessIsAnswered
  <2> QED
    BY <1>3, <1>4, <2>1 DEF Abstract!Next, Abstract!Answer
<1> QED
  BY <1>5, <1>6, <1>7

LEMMA ShownStep ==
    ASSUME RefInv, RefInv', [Next]_vars
    PROVE  [Abstract!Next]_Shown
<1> USE DEF RefInv, FreshInv, IInv
<1>1. /\ pc \in [Threads -> PCs] /\ verdict \in [Threads -> Verdicts]
      /\ allResults \in [Threads -> Seq(Messages)]
  BY DEF TypeInv, TypeOK
<1>2. ASSUME NEW t \in Threads, Moves(t) PROVE [Abstract!Next]_Shown
  <2>1. PICK where : pc' = [pc EXCEPT ![t] = where]
    BY <1>2 DEF Moves
  <2>2. \A u \in Threads \ {t} : verdict'[u] = verdict[u] /\ allResults'[u] = allResults[u]
    BY <1>1, <1>2 DEF Moves
  <2> QED
    BY <1>2, <2>1, <2>2, ThreadShown DEF Moves
<1>3. ASSUME NEW t \in Threads, Translate(t) \/ UseAnswer(t)
      PROVE  [Abstract!Next]_Shown
  <2>1. /\ pc[t] # "done" /\ \E where : pc' = [pc EXCEPT ![t] = where]
        /\ verdict' = verdict \/ \E how : verdict' = [verdict EXCEPT ![t] = how]
        /\ allResults' = allResults
           \/ \E r : allResults' = [allResults EXCEPT ![t] = r]
    BY <1>3 DEF Translate, UseAnswer, Finish, Goto
  <2>2. PICK where : pc' = [pc EXCEPT ![t] = where]
    BY <2>1
  <2>3. \A u \in Threads \ {t} : verdict'[u] = verdict[u] /\ allResults'[u] = allResults[u]
    BY <1>1, <2>1
  <2> QED
    BY <2>1, <2>2, <2>3, ThreadShown
<1>4. ASSUME NEW t \in Threads, Begin(t) \/ Step(t) PROVE [Abstract!Next]_Shown
  BY <1>2, <1>3, <1>4, StepMoves
<1>5. ASSUME (\E c \in Conns : Serve(c)) \/ Crash \/ Restart \/ UNCHANGED vars
      PROVE  UNCHANGED Shown
  <2>1. UNCHANGED <<pc, verdict, allResults>>
    BY <1>5 DEF Serve, Crash, Restart, vars, thread, report
  <2> QED
    BY <2>1 DEF Shown
<1> QED
  BY <1>4, <1>5 DEF Next

(* To the user, the session over the bridge is the evaluator of Evaluator:     *)
(* every program is answered at most once, for good, and either with a failure *)
(* or with an answer for each of its constructs, in order and in a world of    *)
(* its own; whatever order programs and builds come in, whether the connection *)
(* fails, and whenever ACL2 dies and is started again.                         *)
THEOREM SessionImplementsEvaluator ==
    ASSUME MaxParallel = 1, "refused" \notin Kinds, "unreadable" \notin Kinds
    PROVE  Spec => ImplementsEvaluator
<1>1. RefInv /\ [Next]_vars => RefInv'
  BY RefStep
<1>2. RefInv /\ RefInv' /\ [Next]_vars => [Abstract!Next]_Shown
  BY ShownStep
<1> QED
  BY <1>1, <1>2, InitRef, InitShown, PTL DEF Spec, ImplementsEvaluator, Abstract!Spec

-----------------------------------------------------------------------------
(* Every step is one of the server's, or changes nothing of what it does.  *)

\* The answers to the first n constructs of thread t's program, each computed in
\* the world of those before it.
Given(t, n) == [i \in 1..n |-> [construct |-> Top(t, i), world |-> Prefix(t, i)]]

\* How many constructs of thread t have been carried out.
HasAnswer(t) == pc[t] = "use" \/ (Asking(t) /\ unread[command] # <<>>)
Carried(t) == IF HasAnswer(t) THEN next[t] ELSE next[t] - 1

LEMMA GivenGrows ==
    ASSUME NEW t \in Threads, NEW n \in Nat
    PROVE  /\ Given(t, n) \in Seq(Serving!Answer) /\ Len(Given(t, n)) = n
           /\ Given(t, n + 1) = Append(Given(t, n), [construct |-> Top(t, n + 1),
                                                     world |-> Prefix(t, n + 1)])
<1> DEFINE A(i) == [construct |-> Top(t, i), world |-> Prefix(t, i)]
           F(k) == [i \in 1..k |-> A(i)]
<1>1. \A i \in Nat : A(i) \in Serving!Answer
  <2>1. SUFFICES ASSUME NEW i \in Nat PROVE A(i) \in Serving!Answer
    OBVIOUS
  <2>2. Prefix(t, i) \in Seq(Commands)
    BY DEF Prefix, Top, Commands
  <2>3. Top(t, i) \in Commands
    BY DEF Top, Commands
  <2> QED
    BY <2>2, <2>3 DEF Serving!Answer
<1> HIDE DEF A
<1>2. F(n) \in Seq(Serving!Answer) /\ Len(F(n)) = n
  BY <1>1
<1>3. F(n + 1) \in Seq(Serving!Answer) /\ Len(F(n + 1)) = n + 1
  BY <1>1
<1>4. Append(F(n), A(n + 1)) \in Seq(Serving!Answer) /\ Len(Append(F(n), A(n + 1))) = n + 1
  BY <1>1, <1>2
<1>5. \A i \in 1..(n + 1) : Append(F(n), A(n + 1))[i] = F(n + 1)[i]
  BY <1>2
<1>6. Append(F(n), A(n + 1)) = F(n + 1)
  BY <1>3, <1>4, <1>5, SeqEqual
<1>7. Given(t, n) = F(n) /\ Given(t, n + 1) = F(n + 1)
  BY DEF Given, A
<1> QED
  BY <1>2, <1>6, <1>7 DEF A

LEMMA ProgramIsConstructs ==
    ASSUME NEW t \in Threads
    PROVE  /\ Program(t) \in Seq(Commands) /\ Len(Program(t)) = Tops[t]
           /\ \A i \in 1..Tops[t] : Program(t)[i] = Top(t, i)
<1>1. Tops[t] \in Nat
  BY TopsAssumption
<1>2. \A i \in 1..Tops[t] : Top(t, i) \in Commands
  BY <1>1 DEF Top, Commands
<1> QED
  BY <1>1, <1>2 DEF Program

\* What thread t has reported, and holds, are the answers to the constructs
\* carried out.
LEMMA AnswersOfThread ==
    ASSUME RefInv, NEW t \in Threads
    PROVE  /\ next[t] \in Nat \ {0} /\ Results(t) = Given(t, next[t] - 1)
           /\ Results(t) \o Held(t) = Given(t, Carried(t)) /\ Carried(t) \in Nat
<1> USE DEF RefInv, FreshInv, IInv
<1>1. /\ next[t] \in Nat \ {0} /\ Len(allResults[t]) = next[t] - 1
      /\ unread \in [Conns -> Seq(Messages)] /\ lastParsed \in [Conns -> Messages \cup {Nothing}]
  BY LenProperties DEF TypeInv, TypeOK, CountInv, Counted
<1>2. Results(t) = Given(t, next[t] - 1)
  <2>1. \A i \in 1..(next[t] - 1) : /\ allResults[t][i].cmd = Top(t, i)
                                     /\ allResults[t][i].world = Prefix(t, i)
    BY <1>1 DEF Worlds, AnswersCorrespond, FreshWorld
  <2> QED
    BY <1>1, <2>1 DEF Results, Result, Given
<1>3. Carried(t) \in Nat
  BY <1>1 DEF Carried
<1>4. CASE ~HasAnswer(t)
  <2>1. Held(t) = <<>>
    <3>1. CASE Asking(t)
      <4>1. command = response
        BY <3>1, Start DEF Asking, Resting, ForThread
      <4> QED
        BY <1>4, <3>1, <4>1 DEF HasAnswer, Held, Asking
    <3>2. CASE ~Asking(t)
      BY <1>4, <3>2 DEF HasAnswer, Held, Asking
    <3> QED
      BY <3>1, <3>2
  <2>2. PICK r : r = Results(t)
    OBVIOUS
  <2>3. PICK n \in Nat : n = next[t] - 1
    BY <1>1
  <2>4. r \in Seq(Serving!Answer)
    BY <1>2, <2>2, <2>3, GivenGrows
  <2>5. r \o <<>> = r
    BY <2>4, ConcatEmptySeq
  <2> QED
    BY <1>1, <1>2, <1>3, <1>4, <2>1, <2>2, <2>5 DEF Carried
<1>5. CASE HasAnswer(t)
  <2>1. command = response
    BY <1>5, Start DEF HasAnswer, Asking, Resting, ForThread
  <2> DEFINE a == [construct |-> Top(t, next[t]), world |-> Prefix(t, next[t])]
  <2>2. Held(t) = <<a>>
    <3>1. CASE pc[t] = "use"
      <4>1. /\ lastParsed[response].cmd = Top(t, next[t])
            /\ lastParsed[response].world = Prefix(t, next[t])
        BY <2>1, <3>1, Start DEF Resting, ForThread, WorldFor
      <4> QED
        BY <3>1, <4>1 DEF Held, Result
    <3>2. CASE Asking(t) /\ unread[command] # <<>>
      <4>1. /\ pc[t] \in InFlight /\ ~Resting(t) /\ pc[t] # "use"
            /\ pc[t] \in {"topSent", "topRead"}
        BY <3>2 DEF Asking, InFlight, Resting
      <4>2. Asked(t) = Top(t, next[t])
        BY <4>1 DEF Asked
      <4>3. command \in Conns
        BY <4>1, Start DEF ForThread
      <4>4. Len(unread[command]) = 1 /\ unread[command][1].cmd = Top(t, next[t])
        BY <3>2, <4>1, <4>2, Start DEF ForThread, Pending, Silent
      <4>5. unread[command][1].world = Prefix(t, next[t])
        BY <3>2, <4>1, Start DEF WorldFor
      <4>6. Head(unread[command]) = unread[command][1]
        BY <1>1, <3>2, <4>3, HeadTail
      <4> QED
        BY <2>1, <3>2, <4>1, <4>4, <4>5, <4>6 DEF Held, Result
    <3> QED
      BY <1>5, <3>1, <3>2 DEF HasAnswer
  <2>3. PICK n \in Nat : n + 1 = next[t] /\ n = next[t] - 1
    BY <1>1
  <2>4. PICK r : r = Results(t)
    OBVIOUS
  <2>5. PICK x : x = a
    OBVIOUS
  <2>6. r \in Seq(Serving!Answer) /\ r = Given(t, n)
    BY <1>2, <2>3, <2>4, GivenGrows
  <2>7. Append(r, x) = r \o <<x>>
    BY <2>6, AppendIsConcat
  <2>8. Given(t, n + 1) = Append(r, x)
    BY <2>3, <2>5, <2>6, GivenGrows
  <2>9. Carried(t) = n + 1
    BY <1>5, <2>3 DEF Carried
  <2> QED
    BY <1>1, <1>2, <1>3, <2>2, <2>4, <2>5, <2>7, <2>8, <2>9
<1> QED
  BY <1>4, <1>5

Answered == \A t \in Threads : Results(t) \o Held(t) = Given(t, Carried(t))

LEMMA AnswersNow == RefInv => Answered
BY AnswersOfThread DEF Answered

LEMMA AnswersNext == RefInv' => Answered'
BY AnswersNow, PTL

\* A job under way or done, and how one is had from another.
JobRecord(p, st, a) == [program |-> p, state |-> st, answers |-> a, served |-> TRUE]
JobRecords(p, sts, as) == [program: {p}, state: sts, answers: as, served: {TRUE}]

LEMMA SetState ==
    ASSUME NEW p, NEW st, NEW a, NEW x, NEW j, j = JobRecord(p, st, a),
           NEW k, k = JobRecord(p, x, a)
    PROVE  k = [j EXCEPT !.state = x]
<1>1. j \in JobRecords(p, {st, x}, {a}) /\ k \in JobRecords(p, {st, x}, {a})
  BY DEF JobRecord, JobRecords
<1>2. k.state = x
  BY DEF JobRecord
<1>3. ASSUME NEW jj \in JobRecords(p, {st, x}, {a}), NEW kk \in JobRecords(p, {st, x}, {a}),
             kk.state = x
      PROVE  kk = [jj EXCEPT !.state = x]
  BY <1>3 DEF JobRecords
<1> QED
  BY ONLY <1>1, <1>2, <1>3

LEMMA SetAnswers ==
    ASSUME NEW p, NEW st, NEW a, NEW y, NEW j, j = JobRecord(p, st, a),
           NEW k, k = JobRecord(p, st, y)
    PROVE  k = [j EXCEPT !.answers = y]
<1>1. j \in JobRecords(p, {st}, {a, y}) /\ k \in JobRecords(p, {st}, {a, y})
  BY DEF JobRecord, JobRecords
<1>2. k.answers = y
  BY DEF JobRecord
<1>3. ASSUME NEW jj \in JobRecords(p, {st}, {a, y}), NEW kk \in JobRecords(p, {st}, {a, y}),
             kk.answers = y
      PROVE  kk = [jj EXCEPT !.answers = y]
  BY <1>3 DEF JobRecords
<1> QED
  BY ONLY <1>1, <1>2, <1>3

\* The job of a thread that is at work, in this state and in the next.
LEMMA ActiveJob ==
    ASSUME RefInv, NEW t \in Threads, ~Resting(t)
    PROVE  /\ JobOf(t) = JobRecord(Program(t), JobState(t), Given(t, Carried(t)))
           /\ JobState(t) \in {"begun", "running", "cut off"}
<1>1. JobState(t) \in {"begun", "running", "cut off"}
  BY DEF Resting, JobState
<1>2. Results(t) \o Held(t) = Given(t, Carried(t))
  BY AnswersOfThread
<1> QED
  BY <1>1, <1>2 DEF Resting, JobOf, JobRecord

LEMMA ActiveJobNext ==
    ASSUME RefInv', NEW t \in Threads, pc'[t] \notin {"idle", "done"}
    PROVE  /\ JobOf(t)' = JobRecord(Program(t), JobState(t)', Given(t, Carried(t)'))
           /\ JobState(t)' \in {"begun", "running", "cut off"}
<1>1. JobState(t)' \in {"begun", "running", "cut off"}
  BY DEF JobState
<1>2. Results(t)' \o Held(t)' = Given(t, Carried(t)')
  BY AnswersNext DEF Answered, Given, Prefix
<1> QED
  BY <1>1, <1>2 DEF JobOf, JobRecord, Program

\* The job of a program that is answered.
LEMMA DoneJobNext ==
    ASSUME RefInv', NEW t \in Threads, pc'[t] = "done", verdict'[t] = "success"
    PROVE  JobOf(t)' = JobRecord(Program(t), "done", Given(t, Tops[t]))
<1>1. Results(t)' \o Held(t)' = Given(t, Carried(t)')
  BY AnswersNext DEF Answered, Given, Prefix
<1>2. /\ Len(allResults'[t]) = next'[t] - 1 /\ Len(allResults'[t]) = Tops[t]
      /\ Carried(t)' = next'[t] - 1
  BY DEF RefInv, FreshInv, CountInv, Counted, Carried, HasAnswer, Asking
<1>3. JobState(t)' = "done"
  BY DEF JobState
<1> QED
  BY <1>1, <1>2, <1>3 DEF JobOf, JobRecord, Program

\* The job of a thread that rests stays as it is.
LEMMA RestingJob ==
    ASSUME NEW u \in Threads, Resting(u), pc'[u] = pc[u], verdict'[u] = verdict[u],
           allResults'[u] = allResults[u]
    PROVE  JobOf(u)' = JobOf(u)
<1>1. Results(u)' = Results(u)
  BY DEF Results
<1>2. Held(u) = <<>> /\ Held(u)' = <<>>
  BY DEF Held, Resting
<1>3. pc[u] = "done" => JobState(u)' = JobState(u)
  BY DEF JobState
<1> QED
  BY <1>1, <1>2, <1>3 DEF JobOf, Resting, Program

\* Only thread t moves, and t is at work.
OnlyMoves(t) ==
    /\ ~Resting(t)
    /\ \A u \in Threads \ {t} :
          /\ Resting(u) /\ pc'[u] = pc[u] /\ verdict'[u] = verdict[u]
          /\ allResults'[u] = allResults[u]

LEMMA OneJob ==
    ASSUME NEW t \in Threads, OnlyMoves(t), NEW k, k = JobOf(t)'
    PROVE  /\ ServerJobs' = [ServerJobs EXCEPT ![t] = k] /\ ServerJobs[t] = JobOf(t)
           /\ JobOf(t)' = JobOf(t) => ServerJobs' = ServerJobs
<1>1. \A u \in Threads \ {t} : JobOf(u)' = JobOf(u)
  BY RestingJob DEF OnlyMoves
<1> QED
  BY <1>1 DEF ServerJobs

LEMMA AtWork ==
    ASSUME RefInv, NEW t \in Threads, ~Resting(t),
           NEW j, j = JobOf(t)
    PROVE  /\ j = JobRecord(Program(t), JobState(t), Given(t, Carried(t)))
           /\ ServerJobs[t] = j /\ j.state = JobState(t) /\ j.program = Program(t)
           /\ j.answers = Given(t, Carried(t))
           /\ Serving!Served(t)
<1>1. PICK p : p = Program(t)
  OBVIOUS
<1>2. PICK a : a = Given(t, Carried(t))
  OBVIOUS
<1>3. PICK st : st = JobState(t)
  OBVIOUS
<1>4. j = JobRecord(p, st, a) /\ st \in {"begun", "running", "cut off"}
  BY <1>1, <1>2, <1>3, ActiveJob
<1>5. /\ j.program = p /\ j.state = st /\ j.answers = a /\ j.served = TRUE
      /\ j # NoJob
  <2>1. j.program = p /\ j.state = st /\ j.answers = a /\ j.served = TRUE
    BY ONLY <1>4 DEF JobRecord
  <2>2. st # "none"
    BY <1>4
  <2>3. j # NoJob
    BY ONLY <2>1, <2>2 DEF NoJob
  <2> QED
    BY ONLY <2>1, <2>3
<1>6. ServerJobs[t] = j
  BY DEF ServerJobs
<1> QED
  BY <1>1, <1>2, <1>3, <1>4, <1>5, <1>6 DEF Serving!Served, Serving!UnderWay

\* A thread goes on: its job as before, or without the reset.
LEMMA JobGoesOn ==
    ASSUME RefInv, RefInv', NEW t \in Threads, OnlyMoves(t),
           pc'[t] \notin {"idle", "done"}, UNCHANGED world, Carried(t)' = Carried(t),
           \/ JobState(t)' = JobState(t)
           \/ JobState(t) = "begun" /\ JobState(t)' = "cut off"
    PROVE  [Serving!Next]_<<ServerJobs, world>>
<1>1. PICK j : j = JobOf(t)
  OBVIOUS
<1>2. PICK k : k = JobOf(t)'
  OBVIOUS
<1>3. /\ j = JobRecord(Program(t), JobState(t), Given(t, Carried(t)))
      /\ ServerJobs[t] = j /\ j.state = JobState(t) /\ Serving!Served(t)
  BY <1>1, AtWork DEF OnlyMoves
<1>4. k = JobRecord(Program(t), JobState(t)', Given(t, Carried(t)))
  BY <1>2, ActiveJobNext
<1>5. ServerJobs' = [ServerJobs EXCEPT ![t] = k]
  BY <1>2, OneJob
<1>6. CASE JobState(t)' = JobState(t)
  <2>1. JobOf(t)' = JobOf(t)
    BY <1>1, <1>2, <1>3, <1>4, <1>6
  <2> QED
    BY <2>1, OneJob
<1>7. CASE JobState(t) = "begun" /\ JobState(t)' = "cut off"
  <2>1. k = [j EXCEPT !.state = "cut off"]
    <3>1. PICK x : x = "cut off"
      OBVIOUS
    <3>2. PICK p, st, a : p = Program(t) /\ st = JobState(t) /\ a = Given(t, Carried(t))
      OBVIOUS
    <3>3. j = JobRecord(p, st, a) /\ k = JobRecord(p, x, a)
      BY <1>3, <1>4, <1>7, <3>1, <3>2
    <3>4. k = [j EXCEPT !.state = x]
      BY ONLY <3>3, SetState
    <3> QED
      BY <3>1, <3>4
  <2>2. Serving!ResetFails(t)
    BY <1>3, <1>5, <1>7, <2>1 DEF Serving!ResetFails
  <2> QED
    BY <2>2 DEF Serving!Next, Serving!Work
<1> QED
  BY <1>6, <1>7

\* A thread ends, other than with a success.
LEMMA JobFails ==
    ASSUME RefInv, NEW t \in Threads, OnlyMoves(t), pc'[t] = "done",
           verdict'[t] # "success", UNCHANGED world
    PROVE  [Serving!Next]_<<ServerJobs, world>>
<1>1. PICK j : j = JobOf(t)
  OBVIOUS
<1>2. PICK k : k = JobOf(t)'
  OBVIOUS
<1>3. /\ j = JobRecord(Program(t), JobState(t), Given(t, Carried(t)))
      /\ ServerJobs[t] = j /\ Serving!Served(t)
  BY <1>1, AtWork DEF OnlyMoves
<1>4. PICK none : none = <<>>
  OBVIOUS
<1>5. k = JobRecord(Program(t), "failed", none)
  <2>1. JobState(t)' = "failed"
    BY DEF JobState
  <2> QED
    BY <1>2, <1>4, <2>1 DEF JobOf, JobRecord, Program
<1>6. ServerJobs' = [ServerJobs EXCEPT ![t] = k]
  BY <1>2, OneJob
<1>7. k = [j EXCEPT !.state = "failed", !.answers = none]
  <2>1. PICK x : x = "failed"
    OBVIOUS
  <2>2. PICK p, st, a : p = Program(t) /\ st = JobState(t) /\ a = Given(t, Carried(t))
    OBVIOUS
  <2>3. j = JobRecord(p, st, a) /\ k = JobRecord(p, x, none)
    BY <1>3, <1>5, <2>1, <2>2
  <2>4. /\ j \in JobRecords(p, {st, x}, {a, none}) /\ k \in JobRecords(p, {st, x}, {a, none})
        /\ k.state = x /\ k.answers = none
    BY ONLY <2>3 DEF JobRecord, JobRecords
  <2>5. ASSUME NEW jj \in JobRecords(p, {st, x}, {a, none}),
               NEW kk \in JobRecords(p, {st, x}, {a, none}),
               kk.state = x, kk.answers = none
        PROVE  kk = [jj EXCEPT !.state = x, !.answers = none]
    BY ONLY <2>5 DEF JobRecords
  <2>6. k = [j EXCEPT !.state = x, !.answers = none]
    BY ONLY <2>4, <2>5
  <2> QED
    BY <2>1, <2>6
<1>8. Serving!Fail(t)
  BY <1>3, <1>4, <1>6, <1>7 DEF Serving!Fail
<1> QED
  BY <1>8 DEF Serving!Next, Serving!Work

\* A thread ends with a success.
LEMMA JobFinishes ==
    ASSUME RefInv, RefInv', NEW t \in Threads, OnlyMoves(t), pc'[t] = "done",
           verdict'[t] = "success", UNCHANGED world, JobState(t) # "begun",
           Carried(t) = Tops[t]
    PROVE  [Serving!Next]_<<ServerJobs, world>>
<1>1. PICK j : j = JobOf(t)
  OBVIOUS
<1>2. PICK k : k = JobOf(t)'
  OBVIOUS
<1>3. /\ j = JobRecord(Program(t), JobState(t), Given(t, Tops[t]))
      /\ ServerJobs[t] = j /\ j.state = JobState(t) /\ j.program = Program(t)
      /\ j.answers = Given(t, Tops[t]) /\ Serving!Served(t)
  BY <1>1, AtWork DEF OnlyMoves
<1>4. k = JobRecord(Program(t), "done", Given(t, Tops[t]))
  BY <1>2, DoneJobNext
<1>5. ServerJobs' = [ServerJobs EXCEPT ![t] = k]
  BY <1>2, OneJob
<1>6. k = [j EXCEPT !.state = "done"]
  BY <1>3, <1>4, SetState
<1>7. Serving!Complete(j) /\ j.state \in {"running", "cut off"}
  <2>1. Len(Given(t, Tops[t])) = Tops[t] /\ Len(Program(t)) = Tops[t]
    BY GivenGrows, ProgramIsConstructs, TopsAssumption
  <2>2. JobState(t) \in {"running", "cut off"}
    BY ActiveJob DEF OnlyMoves
  <2> QED
    BY <1>3, <2>1, <2>2 DEF Serving!Complete
<1>8. Serving!Finish(t)
  BY <1>3, <1>5, <1>6, <1>7 DEF Serving!Finish
<1> QED
  BY <1>8 DEF Serving!Next, Serving!Work

LEMMA OnlyOneMoves ==
    ASSUME RefInv, NEW t \in Threads, Step(t)
    PROVE  OnlyMoves(t) /\ UNCHANGED world /\ ForThread(t) /\ Counted(t)
           /\ pc[t] \notin {"idle", "done"} /\ command \in Conns \cup {NoConn}
<1> USE DEF RefInv, FreshInv, IInv
<1>1. ~Resting(t) /\ UNCHANGED world
  BY NothingMisread DEF Step, Read, CheckBridgeConnected, Connect, SetResponse,
     SendReset, SendTop, BeginRead, ReadStdout, ReadToken, ReadEOF, TakesWhole, Readable,
     Reading, Translate, UseAnswer, Resting, bridge
<1>2. /\ pc \in [Threads -> PCs] /\ verdict \in [Threads -> Verdicts]
      /\ allResults \in [Threads -> Seq(Messages)]
  BY DEF TypeInv, TypeOK
<1>3. \A u \in Threads \ {t} :
         pc'[u] = pc[u] /\ verdict'[u] = verdict[u] /\ allResults'[u] = allResults[u]
  <2>1. CASE Translate(t) \/ UseAnswer(t)
    BY <1>2, <2>1 DEF Translate, UseAnswer, Finish, Goto
  <2>2. CASE ~Translate(t) /\ ~UseAnswer(t)
    BY <1>2, <2>2, StepMoves DEF Moves
  <2> QED
    BY <2>1, <2>2
<1> QED
  BY <1>1, <1>3, Start DEF OnlyMoves, Resting

\* An exception leaves the code of a thread whose connection does not work.
LEMMA ThrowServes ==
    ASSUME RefInv, RefInv', NEW t \in Threads, Step(t), Throw(t),
           UNCHANGED <<command, response, open, next>>,
           command = NoConn \/ ~open[command], ~HasAnswer(t), ~ResetOver(t) \/ pc[t] \notin
               {"connect", "swap", "hello", "helloRead", "reset", "resetSent", "resetRead"}
    PROVE  [Serving!Next]_<<ServerJobs, world>>
<1>1. OnlyMoves(t) /\ UNCHANGED world /\ pc[t] \notin {"idle", "done"}
  BY OnlyOneMoves
<1>2. pc \in [Threads -> PCs] /\ verdict \in [Threads -> Verdicts]
  BY DEF RefInv, FreshInv, IInv, TypeInv, TypeOK
<1>3. CASE Finish(t, "error")
  <2>1. pc'[t] = "done" /\ verdict'[t] # "success"
    BY <1>2, <1>3 DEF Finish, Goto
  <2> QED
    BY <1>1, <2>1, JobFails
<1>4. CASE Goto(t, "program") /\ ~ResetOver(t)
  <2>1. pc'[t] = "program"
    BY <1>2, <1>4 DEF Goto
  <2>2. JobState(t) = "begun" /\ JobState(t)' = "cut off"
    BY <1>1, <1>4, <2>1 DEF JobState, ResetOver
  <2>3. Carried(t)' = Carried(t)
    BY <2>1 DEF Carried, HasAnswer, Asking
  <2> QED
    BY <1>1, <2>1, <2>2, <2>3, JobGoesOn
<1> QED
  BY <1>3, <1>4 DEF Throw

LEMMA CheckBridgeConnectedServes ==
    ASSUME RefInv, RefInv', NEW t \in Threads, CheckBridgeConnected(t)
    PROVE  [Serving!Next]_<<ServerJobs, world>>
<1>1. OnlyMoves(t) /\ UNCHANGED world /\ UNCHANGED next
  BY OnlyOneMoves DEF Step, CheckBridgeConnected
<1>2. pc[t] = "check" /\ pc'[t] \in {"reset", "connect"}
  BY DEF CheckBridgeConnected, Goto, RefInv, FreshInv, IInv, TypeInv, TypeOK
<1>3. JobState(t)' = JobState(t)
  BY <1>2 DEF JobState, ResetOver
<1>4. Carried(t)' = Carried(t)
  BY <1>1, <1>2 DEF Carried, HasAnswer, Asking
<1> QED
  BY <1>1, <1>2, <1>3, <1>4, JobGoesOn

LEMMA ConnectServes ==
    ASSUME RefInv, RefInv', NEW t \in Threads, Connect(t)
    PROVE  [Serving!Next]_<<ServerJobs, world>>
<1>1. /\ OnlyMoves(t) /\ UNCHANGED world /\ UNCHANGED <<next, response>>
      /\ command \in Conns \cup {NoConn}
  BY OnlyOneMoves DEF Step, Connect
<1>2. pc[t] = "connect" /\ ~ResetOver(t) /\ ~HasAnswer(t)
  BY DEF Connect, ResetOver, HasAnswer, Asking
<1>3. CASE up
  <2>1. pc'[t] = "swap"
    BY <1>3 DEF Connect, Goto, RefInv, FreshInv, IInv, TypeInv, TypeOK
  <2>2. JobState(t)' = JobState(t)
    BY <1>2, <2>1 DEF JobState, ResetOver
  <2>3. Carried(t)' = Carried(t)
    BY <1>1, <1>2, <2>1 DEF Carried, HasAnswer, Asking
  <2> QED
    BY <1>1, <2>1, <2>2, <2>3, JobGoesOn
<1>4. CASE ~up
  <2>1. Throw(t) /\ UNCHANGED <<open, command>>
    BY <1>4 DEF Connect
  <2>2. command = NoConn \/ ~open[command]
    BY <1>1, <1>4 DEF RefInv, FreshInv, Dead
  <2> QED
    BY <1>1, <1>2, <2>1, <2>2, ThrowServes DEF Step
<1> QED
  BY <1>3, <1>4

LEMMA SetResponseServes ==
    ASSUME RefInv, RefInv', NEW t \in Threads, SetResponse(t)
    PROVE  [Serving!Next]_<<ServerJobs, world>>
<1>1. OnlyMoves(t) /\ UNCHANGED world /\ UNCHANGED next
  BY OnlyOneMoves DEF Step, SetResponse
<1>2. pc[t] = "swap" /\ pc'[t] = "hello"
  BY DEF SetResponse, Goto, RefInv, FreshInv, IInv, TypeInv, TypeOK
<1>3. JobState(t)' = JobState(t)
  BY <1>2 DEF JobState, ResetOver
<1>4. Carried(t)' = Carried(t)
  BY <1>1, <1>2 DEF Carried, HasAnswer, Asking
<1> QED
  BY <1>1, <1>2, <1>3, <1>4, JobGoesOn

LEMMA SendServes ==
    ASSUME RefInv, RefInv', NEW t \in Threads, SendReset(t) \/ SendTop(t)
    PROVE  [Serving!Next]_<<ServerJobs, world>>
<1>1. /\ OnlyMoves(t) /\ UNCHANGED <<world, next, command, response, unread, open>>
      /\ ForThread(t) /\ pc[t] \in {"reset", "send"} /\ spoiled = {}
  BY OnlyOneMoves DEF Step, SendReset, SendTop, client, bridge, RefInv
<1>2. ~HasAnswer(t) /\ (pc[t] = "reset" => ~ResetOver(t))
  BY <1>1 DEF HasAnswer, Asking, ResetOver
<1>3. CASE pc[t] = "reset" /\ command = NoConn
  <2>1. Throw(t)
    BY <1>3 DEF SendReset, SendTop, Write
  <2> QED
    BY <1>1, <1>2, <1>3, <2>1, ThrowServes DEF Step
<1>4. CASE pc[t] = "send" /\ Throw(t)
  <2>1. pc'[t] = "done" /\ verdict'[t] # "success"
    BY <1>4 DEF Throw, Finish, Goto, RefInv, FreshInv, IInv, TypeInv, TypeOK
  <2> QED
    BY <1>1, <2>1, JobFails
<1>5. CASE command # NoConn /\ ~(pc[t] = "send" /\ Throw(t))
  <2>1. unread[command] = <<>> /\ command = response
    BY <1>1, <1>5 DEF ForThread, InFlight, Reading, Silent
  <2>2. \/ pc[t] = "reset" /\ pc'[t] = "resetSent"
        \/ pc[t] = "send" /\ pc'[t] = "topSent"
    BY <1>5 DEF SendReset, SendTop, Write, Goto, RefInv, FreshInv, IInv, TypeInv, TypeOK
  <2>3. JobState(t)' = JobState(t)
    BY <1>1, <2>1, <2>2 DEF JobState, ResetOver
  <2>4. Carried(t)' = Carried(t)
    BY <1>1, <1>2, <2>1, <2>2 DEF Carried, HasAnswer
  <2> QED
    BY <1>1, <2>2, <2>3, <2>4, JobGoesOn
<1>6. command = NoConn => Throw(t)
  BY DEF SendReset, SendTop, Write
<1> QED
  BY <1>1, <1>3, <1>4, <1>5, <1>6

LEMMA BeginReadServes ==
    ASSUME RefInv, RefInv', NEW t \in Threads, BeginRead(t)
    PROVE  [Serving!Next]_<<ServerJobs, world>>
<1>1. /\ OnlyMoves(t) /\ UNCHANGED <<world, next, command, response, unread, open>>
      /\ ForThread(t) /\ pc[t] \in {"hello", "resetSent", "topSent"} /\ spoiled = {}
  BY OnlyOneMoves DEF Step, BeginRead, wire, bridge, RefInv
<1>2. response # NoConn
  BY <1>1 DEF ForThread, InFlight
<1>3. \/ pc[t] = "hello" /\ pc'[t] = "helloRead"
      \/ pc[t] = "resetSent" /\ pc'[t] = "resetRead"
      \/ pc[t] = "topSent" /\ pc'[t] = "topRead"
  BY <1>1, <1>2 DEF BeginRead, Goto, RefInv, FreshInv, IInv, TypeInv, TypeOK
<1>4. JobState(t)' = JobState(t)
  BY <1>1, <1>3 DEF JobState, ResetOver
<1>5. Carried(t)' = Carried(t)
  BY <1>1, <1>3 DEF Carried, HasAnswer, Asking
<1> QED
  BY <1>1, <1>3, <1>4, <1>5, JobGoesOn

LEMMA ReadStdoutServes ==
    ASSUME RefInv, RefInv', NEW t \in Threads, ReadStdout(t)
    PROVE  [Serving!Next]_<<ServerJobs, world>>
<1>1. /\ OnlyMoves(t) /\ UNCHANGED <<world, next, command, response, pc, open>>
      /\ pc[t] \notin {"idle", "done"}
  BY OnlyOneMoves DEF Step, Read, ReadStdout, client, thread, bridge
<1>2. /\ sock[t] = command /\ response = command /\ command \in Conns
      /\ unread[command] # <<>>
  BY ReadsCommandSocket DEF ReadStdout, TakesWhole, RefInv, FreshInv
<1>3. unread'[command] # <<>>
  <2>1. unread[command] \in Seq(Messages) /\ unread \in [Conns -> Seq(Messages)]
    BY <1>2 DEF RefInv, FreshInv, IInv, TypeInv, TypeOK
  <2>2. unread'[command] = [unread[command] EXCEPT ![1].out = @ - 1]
    BY <1>2, <2>1 DEF ReadStdout
  <2>3. Len(unread[command]) > 0 /\ Len(unread'[command]) = Len(unread[command])
    BY <1>2, <2>1, <2>2, HeadTail
  <2> QED
    BY <2>3
<1>4. JobState(t)' = JobState(t)
  BY <1>1, <1>2, <1>3 DEF JobState, ResetOver
<1>5. Carried(t)' = Carried(t)
  BY <1>1, <1>2, <1>3 DEF Carried, HasAnswer, Asking
<1> QED
  BY <1>1, <1>4, <1>5, JobGoesOn

LEMMA ReadTokenServes ==
    ASSUME RefInv, RefInv', NEW t \in Threads, ReadToken(t)
    PROVE  [Serving!Next]_<<ServerJobs, world>>
<1>1. /\ OnlyMoves(t) /\ UNCHANGED <<world, next, command, response, open>>
      /\ pc[t] \notin {"idle", "done"}
  BY OnlyOneMoves DEF Step, Read, ReadToken, bridge
<1>2. /\ sock[t] = command /\ response = command /\ unread[command] # <<>>
      /\ pc[t] \in Reading
  BY ReadsCommandSocket DEF ReadToken, TakesWhole, RefInv, FreshInv
<1>3. /\ Layout(Head(unread[command])) = Expected(t) /\ at[command] = phase[t]
  BY ReadsItsAnswer DEF ReadToken, TakesWhole, RefInv, FreshInv
<1>4. CASE phase[t] + 1 # Len(Expected(t))
  <2>1. pc' = pc /\ unread' = unread
    BY <1>2, <1>3, <1>4 DEF ReadToken, Consume
  <2>2. JobState(t)' = JobState(t)
    BY <1>1, <2>1 DEF JobState, ResetOver
  <2>3. Carried(t)' = Carried(t)
    BY <1>1, <2>1 DEF Carried, HasAnswer, Asking
  <2> QED
    BY <1>1, <2>1, <2>2, <2>3, JobGoesOn
<1>5. CASE phase[t] + 1 = Len(Expected(t))
  <2>1. \/ pc[t] = "helloRead" /\ pc'[t] = "reset"
        \/ pc[t] = "resetRead" /\ pc'[t] = "program"
        \/ pc[t] = "topRead" /\ pc'[t] = "use"
    BY <1>2, <1>5 DEF ReadToken, Complete, Goto, Reading, RefInv, FreshInv, IInv, TypeInv, TypeOK
  <2>2. JobState(t)' = JobState(t)
    BY <1>1, <1>2, <2>1 DEF JobState, ResetOver
  <2>3. Carried(t)' = Carried(t)
    BY <1>1, <1>2, <2>1 DEF Carried, HasAnswer, Asking
  <2> QED
    BY <1>1, <2>1, <2>2, <2>3, JobGoesOn
<1> QED
  BY <1>4, <1>5

LEMMA ReadEOFServes ==
    ASSUME RefInv, RefInv', NEW t \in Threads, ReadEOF(t)
    PROVE  [Serving!Next]_<<ServerJobs, world>>
<1>1. /\ OnlyMoves(t) /\ UNCHANGED <<world, next, command, response, open>>
      /\ ForThread(t) /\ pc[t] \in Reading /\ unread[sock[t]] = <<>> /\ ~open[sock[t]]
  BY OnlyOneMoves DEF Step, Read, ReadEOF, client, bridge
<1>2. sock[t] = command /\ response = command
  BY <1>1 DEF ForThread, Reading
<1>3. ~HasAnswer(t) /\ (pc[t] # "topRead" => ~ResetOver(t))
  BY <1>1, <1>2 DEF HasAnswer, ResetOver, Reading
<1>4. Throw(t)
  BY DEF ReadEOF
<1> QED
  BY <1>1, <1>2, <1>3, <1>4, ThrowServes DEF Step, Read

LEMMA TranslateServes ==
    ASSUME RefInv, RefInv', NEW t \in Threads, Translate(t)
    PROVE  [Serving!Next]_<<ServerJobs, world>>
<1>1. /\ OnlyMoves(t) /\ UNCHANGED <<world, next, command, response, unread, open>>
      /\ pc[t] = "program" /\ Counted(t)
  BY OnlyOneMoves DEF Step, Translate, client, wire, bridge
<1>2. pc \in [Threads -> PCs] /\ verdict \in [Threads -> Verdicts]
  BY DEF RefInv, FreshInv, IInv, TypeInv, TypeOK
<1>3. CASE pc'[t] = "send"
  <2>1. JobState(t)' = JobState(t)
    BY <1>1, <1>3 DEF JobState, ResetOver
  <2>2. Carried(t)' = Carried(t)
    BY <1>1, <1>3 DEF Carried, HasAnswer, Asking
  <2> QED
    BY <1>1, <1>3, <2>1, <2>2, JobGoesOn
<1>4. CASE Tops[t] = 0 /\ Finish(t, "success")
  <2>1. pc'[t] = "done" /\ verdict'[t] = "success"
    BY <1>2, <1>4 DEF Finish, Goto
  <2>2. JobState(t) # "begun"
    BY <1>1 DEF JobState, ResetOver
  <2>3. Carried(t) = Tops[t]
    BY <1>1, <1>4 DEF Carried, HasAnswer, Asking, Counted, InLoop
  <2> QED
    BY <1>1, <2>1, <2>2, <2>3, JobFinishes
<1>5. CASE Finish(t, "error") \/ Finish(t, "internal")
  <2>1. pc'[t] = "done" /\ verdict'[t] # "success"
    BY <1>2, <1>5 DEF Finish, Goto
  <2> QED
    BY <1>1, <2>1, JobFails
<1> QED
  BY <1>2, <1>3, <1>4, <1>5 DEF Translate, Goto

LEMMA UseAnswerServes ==
    ASSUME RefInv, RefInv', NEW t \in Threads, UseAnswer(t)
    PROVE  [Serving!Next]_<<ServerJobs, world>>
<1>1. /\ OnlyMoves(t) /\ UNCHANGED <<world, command, response, unread, open>>
      /\ pc[t] = "use"
  BY OnlyOneMoves DEF Step, UseAnswer, client, wire, bridge
<1>2. /\ pc \in [Threads -> PCs] /\ verdict \in [Threads -> Verdicts]
      /\ next \in [Threads -> Nat]
  BY DEF RefInv, FreshInv, IInv, TypeInv, TypeOK
<1>3. JobState(t) # "begun" /\ Carried(t) = next[t]
  BY <1>1 DEF JobState, ResetOver, Carried, HasAnswer
<1>4. CASE Finish(t, "error")
  <2>1. pc'[t] = "done" /\ verdict'[t] # "success"
    BY <1>2, <1>4 DEF Finish, Goto
  <2> QED
    BY <1>1, <2>1, JobFails
<1>5. CASE next[t] = Tops[t] /\ Finish(t, "success")
  <2>1. pc'[t] = "done" /\ verdict'[t] = "success"
    BY <1>2, <1>5 DEF Finish, Goto
  <2> QED
    BY <1>1, <1>3, <1>5, <2>1, JobFinishes
<1>6. CASE next' = [next EXCEPT ![t] = @ + 1] /\ Goto(t, "send")
  <2>1. pc'[t] = "send" /\ next'[t] = next[t] + 1
    BY <1>2, <1>6 DEF Goto
  <2>2. JobState(t)' = JobState(t)
    BY <1>1, <2>1 DEF JobState, ResetOver
  <2>3. Carried(t)' = Carried(t)
    BY <1>2, <1>3, <2>1 DEF Carried, HasAnswer, Asking
  <2> QED
    BY <1>1, <2>1, <2>2, <2>3, JobGoesOn
<1> QED
  BY <1>4, <1>5, <1>6 DEF UseAnswer

LEMMA StepServes ==
    ASSUME RefInv, RefInv', NEW t \in Threads, Step(t)
    PROVE  [Serving!Next]_<<ServerJobs, world>>
BY NothingMisread, CheckBridgeConnectedServes, ConnectServes, SetResponseServes,
   SendServes, BeginReadServes, ReadStdoutServes, ReadTokenServes, ReadEOFServes,
   TranslateServes, UseAnswerServes
   DEF Step, Read

\* ACL2 carries out the command thread t waits for the answer to.
LEMMA ServeServes ==
    ASSUME RefInv, RefInv', "refused" \notin Kinds, NEW c \in Conns, Serve(c)
    PROVE  [Serving!Next]_<<ServerJobs, world>>
<1>1. PICK t \in Threads :
         /\ pc[t] \in InFlight /\ ~Resting(t)
         /\ inbox[command] = <<Asked(t)>> /\ unread[command] = <<>>
         /\ \E m : /\ m.cmd = Asked(t) /\ m.world = world
                   /\ unread' = [unread EXCEPT ![command] = Append(@, m)]
         /\ world' = IF Asked(t).kind = "hello" THEN world
                     ELSE IF Asked(t).kind = "reset" THEN <<>>
                     ELSE Append(world, Asked(t))
  BY ServesItsCommand DEF RefInv
<1>2. c = command /\ open[command] /\ command # NoConn
  BY ServesItsCommand, ThreadsAssumption DEF RefInv, Conns
<1>3. UNCHANGED <<command, response, pc, next, open, allResults, verdict>>
  BY DEF Serve, client, thread, report
<1>4. /\ ForThread(t) /\ (\A u \in Threads \ {t} : Resting(u)) /\ WorldFor(t)
      /\ NoStrays /\ Counted(t) /\ TypeInv
  BY <1>1, Start DEF RefInv
<1>5. OnlyMoves(t)
  BY <1>1, <1>3, <1>4 DEF OnlyMoves
<1>6. unread'[command] # <<>>
  <2>1. unread[command] \in Seq(Messages) /\ unread \in [Conns -> Seq(Messages)]
    BY <1>2, <1>4 DEF TypeInv, TypeOK
  <2>2. PICK m : unread' = [unread EXCEPT ![command] = Append(@, m)]
    BY <1>1
  <2>3. unread'[command] = <<m>>
    BY <1>1, <1>2, <2>1, <2>2
  <2> QED
    BY <2>3
<1>7. CASE pc[t] \in {"swap", "hello", "helloRead"}
  <2>1. UNCHANGED world
    BY <1>1, <1>7 DEF Asked, Hello
  <2>2. JobState(t)' = JobState(t) /\ Carried(t)' = Carried(t)
    BY <1>3, <1>7 DEF JobState, ResetOver, Carried, HasAnswer, Asking
  <2> QED
    BY <1>1, <1>3, <1>5, <2>1, <2>2, JobGoesOn DEF InFlight
<1>8. CASE pc[t] \in {"resetSent", "resetRead"}
  <2>1. world' = <<>>
    BY <1>1, <1>8 DEF Asked, Reset
  <2>2. command = response
    BY <1>4, <1>8 DEF ForThread
  <2>3. JobState(t) = "begun" /\ JobState(t)' = "running"
    BY <1>1, <1>2, <1>3, <1>6, <1>8, <2>2 DEF JobState, ResetOver
  <2>4. Carried(t)' = Carried(t)
    BY <1>3, <1>8 DEF Carried, HasAnswer, Asking
  <2>5. PICK j : j = JobOf(t)
    OBVIOUS
  <2>6. PICK k : k = JobOf(t)'
    OBVIOUS
  <2>7. /\ j = JobRecord(Program(t), "begun", Given(t, Carried(t)))
        /\ ServerJobs[t] = j /\ j.state = "begun" /\ Serving!Served(t)
    BY <1>1, <2>3, <2>5, AtWork
  <2>8. k = JobRecord(Program(t), "running", Given(t, Carried(t)))
    BY <1>3, <1>8, <2>3, <2>4, <2>6, ActiveJobNext
  <2>9. ServerJobs' = [ServerJobs EXCEPT ![t] = k]
    BY <1>5, <2>6, OneJob
  <2>10. k = [j EXCEPT !.state = "running"]
    <3>1. PICK st, x : st = "begun" /\ x = "running"
      OBVIOUS
    <3>2. PICK p, a : p = Program(t) /\ a = Given(t, Carried(t))
      OBVIOUS
    <3>3. j = JobRecord(p, st, a) /\ k = JobRecord(p, x, a)
      BY <2>7, <2>8, <3>1, <3>2
    <3>4. k = [j EXCEPT !.state = x]
      BY ONLY <3>3, SetState
    <3> QED
      BY <3>1, <3>4
  <2>11. Serving!Reset(t)
    BY <2>1, <2>7, <2>9, <2>10 DEF Serving!Reset
  <2> QED
    BY <2>11 DEF Serving!Next, Serving!Work
<1>9. CASE pc[t] \in {"topSent", "topRead"}
  <2>1. /\ Asked(t) = Top(t, next[t]) /\ Asking(t) /\ world' = Append(world, Top(t, next[t]))
    BY <1>1, <1>9 DEF Asked, Top, Asking
  <2>2. world = Prefix(t, next[t])
    BY <1>1, <1>4, <2>1 DEF WorldFor
  <2>3. PICK n \in Nat : /\ next[t] = n + 1 /\ n < Tops[t] /\ Carried(t) = n
                         /\ Carried(t)' = n + 1
    <3>1. next[t] \in Nat \ {0} /\ next[t] <= Tops[t] /\ next'[t] = next[t]
      BY <1>3, <1>4, <1>9, AnswersOfThread DEF Counted, InLoop
    <3>2. Carried(t) = next[t] - 1 /\ Carried(t)' = next[t]
      BY <1>1, <1>3, <1>6, <1>9 DEF Carried, HasAnswer, Asking
    <3>3. next[t] = (next[t] - 1) + 1 /\ next[t] - 1 \in Nat /\ next[t] - 1 < Tops[t]
      BY <3>1, TopsAssumption
    <3> QED
      BY <3>2, <3>3
  <2>4. JobState(t) = "running" /\ JobState(t)' = "running"
    BY <1>2, <1>3, <1>9 DEF JobState, ResetOver
  <2>5. PICK j : j = JobOf(t)
    OBVIOUS
  <2>6. PICK k : k = JobOf(t)'
    OBVIOUS
  <2>7. /\ j = JobRecord(Program(t), "running", Given(t, n))
        /\ ServerJobs[t] = j /\ j.state = "running" /\ j.program = Program(t)
        /\ j.answers = Given(t, n) /\ Serving!Served(t)
    BY <1>1, <2>3, <2>4, <2>5, AtWork
  <2>8. k = JobRecord(Program(t), "running", Given(t, n + 1))
    BY <1>3, <1>9, <2>3, <2>4, <2>6, ActiveJobNext
  <2>9. ServerJobs' = [ServerJobs EXCEPT ![t] = k]
    BY <1>5, <2>6, OneJob
  <2>10. ~Serving!Complete(j) /\ Serving!NextConstruct(j) = Top(t, n + 1)
    <3>1. /\ Len(Given(t, n)) = n /\ Len(Program(t)) = Tops[t]
          /\ Program(t)[n + 1] = Top(t, n + 1)
      <4>1. n + 1 \in 1..Tops[t]
        BY <2>3, TopsAssumption
      <4> QED
        BY <4>1, GivenGrows, ProgramIsConstructs
    <3>2. n # Tops[t]
      BY <2>3, TopsAssumption
    <3> QED
      BY <2>7, <3>1, <3>2 DEF Serving!Complete, Serving!NextConstruct
  <2>11. PICK y : y = Given(t, n + 1)
    OBVIOUS
  <2>12. k = [j EXCEPT !.answers = y]
    <3>1. PICK p, st, a : p = Program(t) /\ st = "running" /\ a = Given(t, n)
      OBVIOUS
    <3>2. j = JobRecord(p, st, a) /\ k = JobRecord(p, st, y)
      BY <2>7, <2>8, <2>11, <3>1
    <3> QED
      BY ONLY <3>2, SetAnswers
  <2>13. y = Append(j.answers, [construct |-> Serving!NextConstruct(j), world |-> world])
    BY <2>2, <2>3, <2>7, <2>10, <2>11, GivenGrows
  <2>14. Serving!Evaluate(t)
    <3>1. ServerJobs' = [ServerJobs EXCEPT ![t].answers = y]
      BY <2>7, <2>9, <2>12
    <3> QED
      BY <2>1, <2>3, <2>7, <2>10, <2>13, <3>1 DEF Serving!Evaluate
  <2> QED
    BY <2>14 DEF Serving!Next, Serving!Work
<1> QED
  BY <1>1, <1>7, <1>8, <1>9 DEF InFlight

\* A program is taken up, or is invalid.
LEMMA BeginServes ==
    ASSUME RefInv, RefInv', MaxParallel = 1, NEW t \in Threads, Begin(t)
    PROVE  [Serving!Next]_<<ServerJobs, world>>
<1>1. /\ UNCHANGED <<world, next, allResults>> /\ pc[t] = "idle"
      /\ \A u \in Threads \ {t} : Resting(u)
  BY BeginsAlone DEF RefInv, FreshInv, IInv, Begin, bridge, Active, Resting
<1>2. /\ pc \in [Threads -> PCs] /\ verdict \in [Threads -> Verdicts]
      /\ next[t] = 1
  BY <1>1 DEF RefInv, FreshInv, IInv, TypeInv, TypeOK, CountInv, Counted, InLoop
<1>3. \A u \in Threads \ {t} : JobOf(u)' = JobOf(u)
  <2>1. \A u \in Threads \ {t} : pc'[u] = pc[u] /\ verdict'[u] = verdict[u]
    BY <1>2 DEF Begin, Goto, Finish
  <2> QED
    BY <1>1, <2>1, RestingJob
<1>4. PICK k : k = JobOf(t)'
  OBVIOUS
<1>5. PICK p, none : p = Program(t) /\ none = <<>>
  OBVIOUS
<1>6. PICK st \in {"begun", "failed"} : k = JobRecord(p, st, none)
  <2>1. CASE pc'[t] = "done" /\ verdict'[t] = "violations"
    <3>1. JobState(t)' = "failed"
      BY <2>1 DEF JobState
    <3> QED
      BY <1>4, <1>5, <2>1, <3>1 DEF JobOf, JobRecord, Program
  <2>2. CASE pc'[t] \in {"check", "connect"}
    <3>1. JobState(t)' = "begun"
      BY <2>2 DEF JobState, ResetOver
    <3>2. Carried(t)' = 0
      BY <1>1, <1>2, <2>2 DEF Carried, HasAnswer, Asking
    <3>3. Given(t, 0) = none
      BY <1>5 DEF Given
    <3> QED
      BY <1>4, <1>5, <2>2, <3>1, <3>2, <3>3, ActiveJobNext
  <2> QED
    BY <1>2, <2>1, <2>2 DEF Begin, Finish, Goto
<1>7. k.program = p /\ k \in Serving!Job
  <2>1. p \in Seq(Commands) /\ none \in Seq(Serving!Answer)
    BY <1>5, ProgramIsConstructs
  <2> QED
    BY <1>6, <2>1 DEF JobRecord, Serving!Job
<1>8. PICK new : new = Serving!NewJob(p)
  OBVIOUS
<1>9. k = new \/ k = [new EXCEPT !.state = "failed"]
  <2>1. new = JobRecord(p, "begun", none)
    BY <1>5, <1>8 DEF Serving!NewJob, JobRecord
  <2>2. PICK begun, failed : begun = "begun" /\ failed = "failed"
    OBVIOUS
  <2>3. new = JobRecord(p, begun, none) /\ k \in {JobRecord(p, begun, none), JobRecord(p, failed, none)}
    BY <1>6, <2>1, <2>2
  <2>4. k = new \/ k = JobRecord(p, failed, none)
    BY <2>3
  <2>5. k = JobRecord(p, failed, none) => k = [new EXCEPT !.state = failed]
    BY ONLY <2>3, SetState
  <2> QED
    BY <2>2, <2>4, <2>5
<1>10. /\ ServerJobs[t] = NoJob /\ ServerJobs'[t] = k
       /\ ServerJobs' = [r \in Threads |-> IF r \in {t} THEN ServerJobs'[r] ELSE ServerJobs[r]]
  BY <1>1, <1>3, <1>4 DEF ServerJobs, JobOf
<1>11. Serving!Begin({t})
  BY <1>1, <1>7, <1>8, <1>9, <1>10 DEF Serving!Begin
<1> QED
  BY <1>11 DEF Serving!Next

\* What ACL2 did for a job that runs is lost with it.
LEMMA CrashServes ==
    ASSUME RefInv, RefInv', Crash
    PROVE  [Serving!Next]_<<ServerJobs, world>>
<1>1. /\ UNCHANGED <<pc, next, verdict, allResults, command, response, unread>>
      /\ open' = [c \in Conns |-> FALSE] /\ world' = <<>>
  BY DEF Crash, client, thread, report
<1>2. ASSUME NEW u \in Threads
      PROVE  JobOf(u)' = IF Serving!UnderWay(u) /\ ServerJobs[u].state = "running"
                           THEN [ServerJobs[u] EXCEPT !.state = "cut off"]
                           ELSE ServerJobs[u]
  <2>1. PICK j : j = JobOf(u)
    OBVIOUS
  <2>2. PICK k : k = JobOf(u)'
    OBVIOUS
  <2>3. ServerJobs[u] = j
    BY <2>1 DEF ServerJobs
  <2>4. CASE Resting(u)
    <3>1. k = j
      BY <1>1, <2>1, <2>2, <2>4, RestingJob
    <3>2. ~Serving!UnderWay(u)
      <4>1. CASE pc[u] = "idle"
        BY <2>1, <2>3, <4>1 DEF JobOf, Serving!UnderWay
      <4>2. CASE pc[u] = "done"
        <5>1. PICK p, st, a : /\ j = [program |-> p, state |-> st, answers |-> a,
                                      served |-> TRUE]
                              /\ st \in {"done", "failed"}
          BY <2>1, <4>2 DEF JobOf, JobState
        <5>2. j.state = st
          BY ONLY <5>1
        <5> QED
          BY <2>3, <5>1, <5>2 DEF Serving!UnderWay
      <4> QED
        BY <2>4, <4>1, <4>2 DEF Resting
    <3> QED
      BY <2>2, <2>3, <3>1, <3>2
  <2>5. CASE ~Resting(u)
    <3>1. /\ j = JobRecord(Program(u), JobState(u), Given(u, Carried(u)))
          /\ j.state = JobState(u) /\ Serving!UnderWay(u)
      BY <2>1, <2>5, AtWork DEF Serving!Served
    <3>2. Carried(u)' = Carried(u)
      BY <1>1 DEF Carried, HasAnswer, Asking
    <3>3. JobState(u)' = IF JobState(u) = "running" THEN "cut off" ELSE JobState(u)
      <4>1. command \in Conns \cup {NoConn}
        BY DEF RefInv, FreshInv, IInv, TypeInv, TypeOK
      <4>2. ~(command # NoConn /\ open'[command])
        BY <1>1, <4>1
      <4> QED
        BY <1>1, <2>5, <4>2 DEF JobState, ResetOver, Resting
    <3>4. k = JobRecord(Program(u), JobState(u)', Given(u, Carried(u)))
      BY <1>1, <2>2, <2>5, <3>2, ActiveJobNext DEF Resting
    <3>5. CASE JobState(u) = "running"
      <4>1. PICK p, st, x, a : /\ p = Program(u) /\ st = "running" /\ x = "cut off"
                               /\ a = Given(u, Carried(u))
        OBVIOUS
      <4>2. j = JobRecord(p, st, a) /\ k = JobRecord(p, x, a)
        BY <3>1, <3>3, <3>4, <3>5, <4>1
      <4>3. k = [j EXCEPT !.state = x]
        BY ONLY <4>2, SetState
      <4> QED
        BY <2>2, <2>3, <3>1, <3>5, <4>1, <4>3
    <3>6. CASE JobState(u) # "running"
      <4>1. k = j
        BY <3>1, <3>3, <3>4, <3>6
      <4> QED
        BY <2>2, <2>3, <3>1, <3>6, <4>1
    <3> QED
      BY <3>5, <3>6
  <2> QED
    BY <2>4, <2>5
<1>3. Serving!ACL2Dies
  BY <1>1, <1>2 DEF ServerJobs, Serving!ACL2Dies
<1> QED
  BY <1>3 DEF Serving!Next

LEMMA IdleServes ==
    ASSUME Restart \/ UNCHANGED vars
    PROVE  UNCHANGED <<ServerJobs, world>>
<1>1. UNCHANGED <<pc, next, verdict, allResults, command, response, unread, lastParsed,
                  open, world>>
  BY DEF Restart, vars, client, thread, report, wire, bridge
<1>2. ASSUME NEW u \in Threads PROVE JobOf(u)' = JobOf(u)
  <2>1. Results(u)' = Results(u) /\ Held(u)' = Held(u)
    BY <1>1 DEF Results, Held
  <2>2. JobState(u)' = JobState(u)
    BY <1>1 DEF JobState, ResetOver
  <2> QED
    BY <1>1, <2>1, <2>2 DEF JobOf, Program
<1> QED
  BY <1>1, <1>2 DEF ServerJobs

LEMMA InitServes == Init => Serving!Init
BY DEF Init, ServerJobs, JobOf, Serving!Init

LEMMA NextServes ==
    ASSUME RefInv, RefInv', MaxParallel = 1, "refused" \notin Kinds, [Next]_vars
    PROVE  [Serving!Next]_<<ServerJobs, world>>
BY BeginServes, StepServes, ServeServes, CrashServes, IdleServes DEF Next

(* Between Evaluator and the sockets, the session over the bridge does for     *)
(* each program what a language server does in JobServer, in the one world     *)
(* they share: one reset, then each construct once, in order and in the world  *)
(* the one before it left, till all are answered or the program fails; and     *)
(* once ACL2 has died under a program, nothing more is carried out for it.     *)
(* It is the server the notebook is checked with in NotebookSession.           *)
THEOREM SessionImplementsJobServer ==
    ASSUME MaxParallel = 1, "refused" \notin Kinds, "unreadable" \notin Kinds
    PROVE  Spec => ImplementsJobServer
<1>1. RefInv /\ [Next]_vars => RefInv'
  BY RefStep
<1>2. RefInv /\ RefInv' /\ [Next]_vars => [Serving!Next]_<<ServerJobs, world>>
  BY NextServes
<1> QED
  BY <1>1, <1>2, InitRef, InitServes, PTL DEF Spec, ImplementsJobServer, Serving!Spec
=============================================================================
