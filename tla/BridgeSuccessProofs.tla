------------------------- MODULE BridgeSuccessProofs -------------------------
(***************************************************************************)
(* What holds of the session however many executions overlap: the flag is  *)
(* only set over a complete connection, and a program reported as a        *)
(* success has an answer for each of its constructs.                       *)
(***************************************************************************)
EXTENDS BridgeSessionProofs

-----------------------------------------------------------------------------
(* The flag. *)

\* A thread that goes through connectToBridge has set command by now; that one
\* that reads has found response set is part of TypeInv.
Attached ==
    \A t \in Threads : pc[t] \in {"swap", "hello", "helloRead"} => command # NoConn

FlagInv == TypeInv /\ InitializedMeansConnected /\ Attached

LEMMA InitFlag == Init => FlagInv
BY InitTypeInv DEF Init, FlagInv, InitializedMeansConnected, Attached

\* No step takes command or response away.
LEMMA Connected ==
    ASSUME TypeInv, [Next]_vars
    PROVE  /\ command # NoConn => command' # NoConn
           /\ response # NoConn => response' # NoConn
<1>1. \A t \in Threads : t # NoConn
  BY ThreadsAssumption
<1>2. ASSUME NEW t \in Threads, Begin(t) \/ Step(t)
      PROVE  /\ command' = command \/ command' = t
             /\ response' = response \/ response' = t
  BY <1>2 DEF Begin, Step, Read, CheckBridgeConnected, Connect, SetResponse, SendReset,
     SendTop, BeginRead, ReadStdout, ReadToken, Misread, ReadPart, ReadEOF, Translate,
     UseAnswer, client
<1>3. ASSUME (\E c \in Conns : Serve(c)) \/ Crash \/ Restart \/ UNCHANGED vars
      PROVE  UNCHANGED <<command, response>>
  BY <1>3 DEF Serve, Crash, Restart, vars, client
<1> QED
  BY <1>1, <1>2, <1>3 DEF Next

\* A thread is only attached by connecting, or was so before.
LEMMA AttachedStep ==
    ASSUME FlagInv, [Next]_vars
    PROVE  Attached'
<1> USE DEF FlagInv
<1>1. SUFFICES ASSUME NEW t \in Threads, pc'[t] \in {"swap", "hello", "helloRead"}
               PROVE  command' # NoConn
  BY DEF Attached
<1>2. CASE pc[t] \in {"swap", "hello", "helloRead"}
  BY <1>2, Connected DEF Attached
<1>3. CASE pc[t] \notin {"swap", "hello", "helloRead"}
  <2>1. Connect(t)
    <3>1. ASSUME NEW u \in Threads, Begin(u) \/ Step(u) PROVE u = t /\ Connect(t)
      <4>1. pc \in [Threads -> PCs]
        BY DEF TypeInv, TypeOK
      <4>2. u = t
        <5>1. pc'[t] # pc[t]
          BY <1>1, <1>3
        <5>2. ASSUME NEW where, pc' = [pc EXCEPT ![u] = where] PROVE u = t
          BY <4>1, <5>1, <5>2
        <5> QED
          BY <3>1, <5>1, <5>2 DEF Begin, Step, Read, CheckBridgeConnected, Connect,
             SetResponse, SendReset, SendTop, Write, BeginRead, ReadStdout, ReadToken,
             Misread, ReadPart, Complete, ReadEOF, Translate, UseAnswer, Goto, Finish,
             Throw, thread
      <4>3. ~Begin(t) /\ ~CheckBridgeConnected(t) /\ ~Translate(t) /\ ~UseAnswer(t)
        BY <1>1, <1>3, <4>1 DEF Begin, CheckBridgeConnected, Translate, UseAnswer, Goto,
           Finish
      <4>4. ~SendReset(t) /\ ~SendTop(t)
        BY <1>1, <1>3, <4>1 DEF SendReset, SendTop, Write, Throw, Goto, Finish
      <4>5. ~SetResponse(t) /\ ~BeginRead(t)
        BY <1>1, <1>3, <4>1 DEF SetResponse, BeginRead, Throw, Goto, Finish
      <4>6. ~Read(t)
        BY <1>1, <1>3, <4>1 DEF Read, ReadStdout, ReadToken, Misread, ReadPart, Complete,
           ReadEOF, TakesWhole, Readable, Reading, thread, Throw, Goto, Finish
      <4> QED
        BY <3>1, <4>2, <4>3, <4>4, <4>5, <4>6 DEF Step
    <3>2. ASSUME (\E c \in Conns : Serve(c)) \/ Crash \/ Restart \/ UNCHANGED vars
          PROVE  FALSE
      BY <1>1, <1>3, <3>2 DEF Serve, Crash, Restart, vars, thread
    <3> QED
      BY <3>1, <3>2 DEF Next
  <2>2. t # NoConn
    BY ThreadsAssumption
  <2>3. command' = t \/ pc'[t] \in {"program", "done"}
    BY <2>1 DEF Connect, Throw, Finish, Goto, TypeInv, TypeOK
  <2> QED
    BY <1>1, <2>2, <2>3
<1> QED
  BY <1>2, <1>3

\* The flag is set by the thread that has read the greeting to its end.
LEMMA FlagStep ==
    ASSUME FlagInv, [Next]_vars
    PROVE  InitializedMeansConnected'
<1> USE DEF FlagInv
<1>1. SUFFICES ASSUME isBridgeInitialized' PROVE command' # NoConn /\ response' # NoConn
  BY DEF InitializedMeansConnected
<1>2. CASE isBridgeInitialized
  BY <1>2, Connected DEF InitializedMeansConnected
<1>3. CASE ~isBridgeInitialized
  <2>1. PICK t \in Threads : pc[t] = "helloRead"
    BY ZenonT(40), <1>1, <1>3 DEF Next, Begin, Step, Read, CheckBridgeConnected, Connect,
       SetResponse, SendReset, SendTop, BeginRead, ReadStdout, ReadToken, Misread,
       ReadPart, Complete, ReadEOF, Translate, UseAnswer, Serve, Crash, Restart, vars, client
  <2>2. command # NoConn
    BY <2>1 DEF Attached
  <2>3. response # NoConn
    BY <2>1 DEF TypeInv, InRange, Reading
  <2> QED
    BY SMTT(30), <2>2, <2>3, Connected
<1> QED
  BY <1>2, <1>3

(* checkBridgeConnected only finds isBridgeInitialized set when BridgeClient's *)
(* command and response are both there to use, however executions and builds   *)
(* overlap and whatever fails.                                                 *)
THEOREM FlagMeansConnected == Spec => []InitializedMeansConnected
<1>1. FlagInv /\ [Next]_vars => FlagInv'
  BY TypeStep, AttachedStep, FlagStep DEF FlagInv
<1>2. FlagInv => InitializedMeansConnected
  BY DEF FlagInv
<1> QED
  BY <1>1, <1>2, InitFlag, PTL DEF Spec

-----------------------------------------------------------------------------
(* Successes. *)

InLoop == {"send", "topSent", "topRead", "use"}

\* The loop of generate is at the construct after those answered; a thread not
\* in it yet has answers to none; and only a thread that is done has succeeded.
Counted(t) ==
    /\ Len(allResults[t]) = next[t] - 1
    /\ pc[t] \in InLoop => next[t] <= Tops[t]
    /\ pc[t] \notin InLoop \cup {"done"} => next[t] = 1
    /\ verdict[t] = "success" => pc[t] = "done" /\ Len(allResults[t]) = Tops[t]

CountInv == TypeInv /\ \A t \in Threads : Counted(t)

LEMMA InitCount == Init => CountInv
<1> SUFFICES ASSUME Init PROVE \A t \in Threads : Counted(t)
  BY InitTypeInv DEF CountInv
<1> QED
  BY DEF Init, Counted, InLoop

\* A thread that reports nothing moves on, in or out of the loop as it was, or
\* ends without success.
Moves(t) ==
    /\ UNCHANGED <<allResults, next>>
    /\ pc[t] # "done"
    /\ \E where \in PCs :
          /\ pc' = [pc EXCEPT ![t] = where]
          /\ \/ /\ where # "done" /\ (where \in InLoop <=> pc[t] \in InLoop)
                /\ UNCHANGED verdict
             \/ /\ where = "done"
                /\ \E how \in Verdicts \ {"success"} :
                      verdict' = [verdict EXCEPT ![t] = how]

LEMMA MovesCount ==
    ASSUME CountInv, NEW t \in Threads, Moves(t), NEW u \in Threads
    PROVE  Counted(u)'
<1>1. pc \in [Threads -> PCs] /\ verdict \in [Threads -> Verdicts]
  BY DEF CountInv, TypeInv, TypeOK
<1>2. Counted(u) /\ allResults' = allResults /\ next' = next
  BY DEF CountInv, Moves
<1>3. CASE u # t
  <2>1. pc'[u] = pc[u] /\ verdict'[u] = verdict[u]
    BY <1>1, <1>3 DEF Moves
  <2> QED
    BY <1>2, <2>1 DEF Counted
<1>4. CASE u = t
  <2>1. CASE pc'[t] # "done" /\ (pc'[t] \in InLoop <=> pc[t] \in InLoop)
             /\ verdict'[t] = verdict[t]
    BY <1>2, <1>4, <2>1 DEF Counted, Moves
  <2>2. CASE pc'[t] = "done" /\ verdict'[t] # "success"
    BY <1>2, <1>4, <2>2 DEF Counted, InLoop
  <2> QED
    BY <1>1, <2>1, <2>2 DEF Moves
<1> QED
  BY <1>3, <1>4

LEMMA GotoMoves ==
    ASSUME NEW t \in Threads, NEW where \in PCs, Goto(t, where), where # "done",
           pc[t] # "done", where \in InLoop <=> pc[t] \in InLoop,
           UNCHANGED <<allResults, next, verdict>>
    PROVE  Moves(t)
BY DEF Goto, Moves

LEMMA ThrowMoves ==
    ASSUME NEW t \in Threads, Throw(t), UNCHANGED <<allResults, next>>,
           pc[t] # "done"
    PROVE  Moves(t)
<1>1. CASE Goto(t, "program") /\ UNCHANGED verdict /\ pc[t] \notin InLoop
  BY <1>1, GotoMoves DEF PCs, InLoop
<1>2. CASE Finish(t, "error")
  BY <1>2 DEF Finish, Goto, Moves, PCs, Verdicts
<1> QED
  BY <1>1, <1>2 DEF Throw, InLoop

\* Every step of a thread but the two that deal with its constructs.
LEMMA StepMoves ==
    ASSUME TypeInv, NEW t \in Threads, Begin(t) \/ Step(t),
           ~Translate(t), ~UseAnswer(t)
    PROVE  Moves(t)
<1>1. CASE Begin(t)
  BY <1>1 DEF Begin, Finish, Goto, Moves, PCs, Verdicts, InLoop
<1>2. CASE CheckBridgeConnected(t)
  BY <1>2, GotoMoves DEF CheckBridgeConnected, report, PCs, InLoop
<1>3. CASE Connect(t)
  <2>1. CASE up
    BY <1>3, <2>1 DEF Connect, Goto, Moves, PCs, InLoop
  <2>2. CASE ~up
    BY <1>3, <2>2, ThrowMoves DEF Connect
  <2> QED
    BY <2>1, <2>2
<1>4. CASE SetResponse(t)
  BY <1>4, GotoMoves DEF SetResponse, report, PCs, InLoop
<1>5. CASE SendReset(t)
  <2>1. CASE command = NoConn
    BY <1>5, <2>1, ThrowMoves DEF SendReset, Write
  <2>2. CASE command # NoConn
    BY <1>5, <2>2 DEF SendReset, Write, Goto, Moves, PCs, InLoop
  <2> QED
    BY <2>1, <2>2
<1>6. CASE SendTop(t)
  <2>1. CASE Throw(t)
    BY <1>6, <2>1, ThrowMoves DEF SendTop
  <2>2. CASE ~Throw(t)
    BY <1>6, <2>2 DEF SendTop, Write, Goto, Moves, PCs, InLoop
  <2> QED
    BY <2>1, <2>2
<1>7. CASE BeginRead(t)
  <2>1. CASE response = NoConn
    BY <1>7, <2>1, ThrowMoves DEF BeginRead
  <2>2. CASE response # NoConn
    BY <1>7, <2>2 DEF BeginRead, Goto, Moves, PCs, InLoop, Reading
  <2> QED
    BY <2>1, <2>2
<1>8. CASE ReadStdout(t)
  <2>1. pc' = pc /\ UNCHANGED <<allResults, next, verdict>> /\ pc[t] \in Reading
    BY <1>8 DEF ReadStdout, TakesWhole, Readable, thread, report
  <2>2. pc' = [pc EXCEPT ![t] = pc[t]] /\ pc[t] \in PCs
    BY <2>1 DEF TypeInv, TypeOK
  <2> QED
    BY <2>1, <2>2 DEF Moves, Reading, InLoop
<1>9. CASE ReadToken(t)
  <2>1. pc[t] \in Reading /\ UNCHANGED <<allResults, next, verdict>>
    BY <1>9 DEF ReadToken, TakesWhole, Readable, report
  <2>2. CASE pc' = pc
    <3>1. pc' = [pc EXCEPT ![t] = pc[t]] /\ pc[t] \in PCs
      BY <2>2 DEF TypeInv, TypeOK
    <3> QED
      BY <2>1, <3>1 DEF Moves, Reading
  <2>3. CASE pc' # pc
    BY <1>9, <2>1, <2>3 DEF ReadToken, Complete, Goto, Moves, PCs, InLoop, Reading
  <2> QED
    BY <2>2, <2>3
<1>10. CASE Misread(t)
  BY <1>10, ThrowMoves DEF Misread, TakesWhole, Readable, Reading
<1>11. CASE ReadEOF(t)
  BY <1>11, ThrowMoves DEF ReadEOF, Reading, report
<1>12. CASE ReadPart(t)
  <2>1. pc[t] \in Reading /\ pc[t] # "done" /\ UNCHANGED <<allResults, next>>
    BY <1>12 DEF ReadPart, Readable, Reading
  <2>2. CASE UNCHANGED <<pc, verdict>>
    <3>1. pc' = [pc EXCEPT ![t] = pc[t]] /\ pc[t] \in PCs
      BY <2>2 DEF TypeInv, TypeOK
    <3>2. Goto(t, pc[t])
      BY <3>1 DEF Goto
    <3> QED
      BY <2>1, <2>2, <3>1, <3>2, GotoMoves
  <2>3. CASE Complete(t) /\ UNCHANGED verdict
    <3>1. PICK where \in {"reset", "program", "use"} :
             Goto(t, where) /\ (where = "use" <=> pc[t] = "topRead")
      BY <2>1, <2>3 DEF Complete, Reading
    <3>2. where \in PCs /\ where # "done" /\ (where \in InLoop <=> pc[t] \in InLoop)
      BY <2>1, <3>1 DEF PCs, InLoop, Reading
    <3> QED
      BY <2>1, <2>3, <3>1, <3>2, GotoMoves
  <2>4. CASE Throw(t)
    BY <2>1, <2>4, ThrowMoves DEF Reading
  <2> QED
    BY <1>12, <2>2, <2>3, <2>4 DEF ReadPart
<1> QED
  BY <1>1, <1>2, <1>3, <1>4, <1>5, <1>6, <1>7, <1>8, <1>9, <1>10, <1>11,
     <1>12 DEF Step, Read

LEMMA TranslateCount ==
    ASSUME CountInv, NEW t \in Threads, Translate(t), NEW u \in Threads
    PROVE  Counted(u)'
<1>1. /\ pc \in [Threads -> PCs] /\ verdict \in [Threads -> Verdicts]
      /\ Tops \in [Threads -> Nat]
  BY TopsAssumption DEF CountInv, TypeInv, TypeOK
<1>2. Counted(u) /\ allResults' = allResults /\ next' = next
  BY DEF CountInv, Translate, report
<1>3. CASE u # t
  <2>1. pc'[u] = pc[u] /\ verdict'[u] = verdict[u]
    BY <1>1, <1>3 DEF Translate, Finish, Goto
  <2> QED
    BY <1>2, <2>1 DEF Counted
<1>4. CASE u = t
  <2>1. pc[t] = "program" /\ next[t] = 1 /\ Len(allResults[t]) = 0
    BY <1>2, <1>4 DEF Translate, Counted, InLoop
  <2>2. \/ pc'[t] = "done" /\ (verdict'[t] = "success" => Tops[t] = 0)
        \/ pc'[t] = "send" /\ verdict'[t] = verdict[t] /\ Tops[t] > 0
    BY <1>1 DEF Translate, Finish, Goto
  <2> QED
    BY <1>1, <1>2, <1>4, <2>1, <2>2 DEF Counted, InLoop
<1> QED
  BY <1>3, <1>4

LEMMA UseAnswerCount ==
    ASSUME CountInv, NEW t \in Threads, UseAnswer(t), NEW u \in Threads
    PROVE  Counted(u)'
<1>1. /\ pc \in [Threads -> PCs] /\ verdict \in [Threads -> Verdicts]
      /\ next \in [Threads -> Nat] /\ allResults \in [Threads -> Seq(Messages)]
      /\ Tops \in [Threads -> Nat] /\ allResults' \in [Threads -> Seq(Messages)]
  BY TopsAssumption, UseAnswerType DEF CountInv, TypeInv, TypeOK
<1>2. Counted(u)
  BY DEF CountInv
<1>3. CASE u # t
  <2>1. /\ pc'[u] = pc[u] /\ verdict'[u] = verdict[u]
        /\ allResults'[u] = allResults[u] /\ next'[u] = next[u]
    BY <1>1, <1>3 DEF UseAnswer, Finish, Goto
  <2> QED
    BY <1>2, <2>1 DEF Counted
<1>4. CASE u = t
  <2> DEFINE answer == lastParsed[response]
  <2>1. /\ pc[t] = "use" /\ next[t] <= Tops[t] /\ Len(allResults[t]) = next[t] - 1
        /\ verdict[t] # "success"
    BY <1>2, <1>4 DEF UseAnswer, Counted, InLoop
  <2>2. CASE allResults' = allResults
    <3>1. pc'[t] = "done" /\ verdict'[t] = "error" /\ next' = next
      <4>1. allResults' # [allResults EXCEPT ![t] = Append(@, answer)]
        <5>1. Len(Append(allResults[t], answer)) = Len(allResults[t]) + 1
          BY <1>1
        <5> QED
          BY <1>1, <2>2, <5>1
      <4> QED
        BY <1>1, <4>1 DEF UseAnswer, Finish, Goto
    <3> QED
      BY <1>4, <2>1, <2>2, <3>1 DEF Counted, InLoop
  <2>3. CASE /\ allResults' = [allResults EXCEPT ![t] = Append(@, answer)]
             /\ next' = [next EXCEPT ![t] = @ + 1]
             /\ IF next[t] = Tops[t]
                  THEN Finish(t, "success")
                  ELSE Goto(t, "send") /\ UNCHANGED verdict
    <3>1. Len(allResults'[t]) = next[t] /\ next'[t] = next[t] + 1
      BY <1>1, <2>1, <2>3
    <3>2. CASE next[t] = Tops[t]
      <4>1. pc'[t] = "done"
        BY <1>1, <2>3, <3>2 DEF Finish, Goto
      <4> QED
        BY <1>1, <1>4, <3>1, <3>2, <4>1 DEF Counted, InLoop
    <3>3. CASE next[t] # Tops[t]
      <4>1. pc'[t] = "send" /\ verdict'[t] = verdict[t]
        BY <1>1, <2>3, <3>3 DEF Goto
      <4> QED
        BY <1>1, <1>4, <2>1, <3>1, <3>3, <4>1 DEF Counted, InLoop
    <3> QED
      BY <3>2, <3>3
  <2> QED
    BY <2>2, <2>3 DEF UseAnswer
<1> QED
  BY <1>3, <1>4

LEMMA CountStep ==
    ASSUME CountInv, [Next]_vars
    PROVE  CountInv'
<1>1. TypeInv'
  BY TypeStep DEF CountInv
<1>2. SUFFICES ASSUME NEW u \in Threads PROVE Counted(u)'
  BY <1>1 DEF CountInv
<1>3. ASSUME NEW t \in Threads, Begin(t) \/ Step(t) PROVE Counted(u)'
  BY <1>3, StepMoves, MovesCount, TranslateCount, UseAnswerCount DEF CountInv
<1>4. CASE (\E c \in Conns : Serve(c)) \/ Crash \/ Restart \/ UNCHANGED vars
  <2>1. UNCHANGED <<pc, next, allResults, verdict>>
    BY <1>4 DEF Serve, Crash, Restart, vars, thread, report
  <2> QED
    BY <2>1 DEF CountInv, Counted
<1> QED
  BY <1>3, <1>4 DEF Next

(* A program that generate or doGenerate reports as a success has an answer to *)
(* each of its constructs, whatever other executions did to the connection,    *)
(* and whatever ACL2 did, meanwhile.                                           *)
THEOREM SuccessesAreComplete == Spec => []SuccessIsComplete
<1>1. CountInv => SuccessIsComplete
  BY DEF CountInv, Counted, SuccessIsComplete
<1> QED
  BY <1>1, InitCount, CountStep, PTL DEF Spec
=============================================================================
