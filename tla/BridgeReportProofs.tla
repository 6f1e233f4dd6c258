------------------------- MODULE BridgeReportProofs -------------------------
(***************************************************************************)
(* When executions do not overlap, no answer of ACL2 is reported twice,    *)
(* even when messages are misread and readers lose step.  Every construct  *)
(* is sent once, and is in one place from then on: on its line, that is in *)
(* a command not carried out or an answer not read to its end; held by the *)
(* thread about to use it; or reported.                                    *)
(***************************************************************************)
EXTENDS BridgePairingProofs

\* The commands sent on socket c whose answers were not read to their end: the
\* first ones are answered already, the others wait to be carried out.
Places(c) == 1..(Len(unread[c]) + Len(inbox[c]))

Line(c, i) == IF i <= Len(unread[c]) THEN unread[c][i].cmd
                                     ELSE inbox[c][i - Len(unread[c])]

\* The construct was sent by its thread.
Sent(cmd) ==
    cmd.kind = "top" =>
        \/ cmd.n < next[cmd.by]
        \/ cmd.n = next[cmd.by] /\ pc[cmd.by] \in {"topSent", "topRead", "use", "done"}

Reports(cmd) == \E t \in Threads : \E i \in 1..Len(allResults[t]) : allResults[t][i].cmd = cmd

OnLine ==
    \A c \in Conns : \A i \in Places(c) :
        Sent(Line(c, i)) /\ (Line(c, i).kind = "top" => ~Reports(Line(c, i)))

OneLine ==
    \A c, d \in Conns : \A i \in Places(c), j \in Places(d) :
        Line(c, i).kind = "top" /\ Line(c, i) = Line(d, j) => c = d /\ i = j

Reported ==
    \A t \in Threads : \A i \in 1..Len(allResults[t]) :
        allResults[t][i].cmd.kind = "top" /\ Sent(allResults[t][i].cmd)

\* Only constructs are answered with a form.
Useful == {"outcome", "opaque"}

Forms ==
    \A c \in Conns : \A i \in 1..Len(unread[c]) :
        unread[c][i].val \in Useful => unread[c][i].cmd.kind = "top"

\* A reader that has read a value is in step with the stream, and what it has
\* parsed is in front of it.
Parsing(t) ==
    pc[t] \in {"resetRead", "topRead"} /\ phase[t] >= 2 =>
        /\ unread[sock[t]] # <<>> /\ at[sock[t]] = phase[t]
        /\ lastParsed[sock[t]] = unread[sock[t]][1]
        /\ Layout(unread[sock[t]][1]) = AnswerLayout

\* What a thread is about to use is on no line any more and was not reported.
Holding(t) ==
    pc[t] = "use" /\ lastParsed[response].val \in Useful =>
        LET cmd == lastParsed[response].cmd IN
        /\ cmd.kind = "top" /\ Sent(cmd) /\ ~Reports(cmd)
        /\ \A c \in Conns : \A i \in Places(c) : Line(c, i) # cmd

ToReport(t) == Parsing(t) /\ Holding(t)

OnceInv ==
    /\ IInv /\ OnLine /\ OneLine /\ Reported /\ Forms /\ ReportedOnce
    /\ \A t \in Threads : ToReport(t)

-----------------------------------------------------------------------------
(* Lines and what was sent. *)

LEMMA LineType ==
    ASSUME TypeInv, NEW c \in Conns
    PROVE  /\ unread[c] \in Seq(Messages) /\ inbox[c] \in Seq(Commands)
           /\ Len(unread[c]) \in Nat /\ Len(inbox[c]) \in Nat
           /\ \A i \in Places(c) : i \in Nat /\ Line(c, i) \in Commands
<1>1. unread[c] \in Seq(Messages) /\ inbox[c] \in Seq(Commands)
  BY DEF TypeInv, TypeOK
<1>2. Len(unread[c]) \in Nat /\ Len(inbox[c]) \in Nat
  BY <1>1
<1>3. ASSUME NEW i \in Places(c) PROVE i \in Nat /\ Line(c, i) \in Commands
  <2>1. CASE i <= Len(unread[c])
    <3>1. i \in 1..Len(unread[c]) /\ unread[c][i] \in Messages
      BY <1>1, <1>2, <2>1 DEF Places
    <3> QED
      BY <2>1, <3>1 DEF Line, Messages
  <2>2. CASE i > Len(unread[c])
    <3>1. i \in Nat /\ i - Len(unread[c]) \in 1..Len(inbox[c])
      <4>1. PICK m \in Nat, n \in Nat : m = Len(unread[c]) /\ n = Len(inbox[c])
        BY <1>2
      <4>2. i \in 1..(m + n) /\ i > m
        BY <2>2, <4>1 DEF Places
      <4>3. i \in Nat /\ i - m \in 1..n
        BY <4>2
      <4> QED
        BY <4>1, <4>3
    <3>2. inbox[c][i - Len(unread[c])] \in Commands
      BY <1>1, <3>1
    <3> QED
      BY <1>2, <2>2, <3>1, <3>2 DEF Line
  <2> QED
    BY <1>2, <2>1, <2>2 DEF Places
<1> QED
  BY <1>1, <1>2, <1>3

\* Where a thread that has sent a construct goes on to: its own steps.
LEMMA AfterSending ==
    ASSUME TypeInv, NEW t \in Threads, Begin(t) \/ Step(t),
           pc[t] \in {"topSent", "topRead", "use", "done"}
    PROVE  \/ /\ \E where \in {"topSent", "topRead", "use", "done"} :
                     pc' = [pc EXCEPT ![t] = where]
              /\ UNCHANGED next
           \/ UseAnswer(t) /\ next' = [next EXCEPT ![t] = @ + 1]
<1>0. pc \in [Threads -> PCs] /\ pc = [pc EXCEPT ![t] = pc[t]]
  BY DEF TypeInv, TypeOK
<1>1. CASE pc[t] = "topSent"
  <2>1. BeginRead(t)
    BY <1>1 DEF Begin, Step, Read, CheckBridgeConnected, Connect, SetResponse, SendReset,
       SendTop, ReadStdout, ReadToken, Misread, ReadPart, ReadEOF, TakesWhole, Readable, Reading, Translate,
       UseAnswer
  <2> QED
    BY <1>1, <2>1 DEF BeginRead, Throw, Goto, Finish
<1>2. CASE pc[t] = "topRead"
  <2>1. Read(t)
    BY <1>2 DEF Begin, Step, CheckBridgeConnected, Connect, SetResponse, SendReset,
       SendTop, BeginRead, Translate, UseAnswer
  <2>2. CASE ReadStdout(t)
    BY <1>0, <1>2, <2>2 DEF ReadStdout, thread
  <2>3. CASE Misread(t) \/ ReadEOF(t)
    BY <1>2, <2>3 DEF Misread, ReadEOF, Throw, Goto, Finish
  <2>5. CASE ReadPart(t)
    BY <1>0, <1>2, <2>5 DEF ReadPart, Complete, Throw, Goto, Finish
  <2>4. CASE ReadToken(t)
    BY <1>0, <1>2, <2>4 DEF ReadToken, Complete, Goto
  <2> QED
    BY <2>1, <2>2, <2>3, <2>4, <2>5 DEF Read
<1>3. CASE pc[t] = "use"
  <2>1. UseAnswer(t)
    BY <1>3 DEF Begin, Step, Read, CheckBridgeConnected, Connect, SetResponse, SendReset,
       SendTop, BeginRead, ReadStdout, ReadToken, Misread, ReadPart, ReadEOF, TakesWhole, Readable, Reading,
       Translate
  <2> QED
    BY <2>1 DEF UseAnswer, Finish, Goto
<1>4. pc[t] # "done"
  BY DEF Begin, Step, Read, CheckBridgeConnected, Connect, SetResponse, SendReset,
     SendTop, BeginRead, ReadStdout, ReadToken, Misread, ReadPart, ReadEOF, TakesWhole, Readable, Reading,
     Translate, UseAnswer
<1> QED
  BY <1>1, <1>2, <1>3, <1>4

LEMMA ThreadMoves ==
    ASSUME TypeInv, NEW t \in Threads, Begin(t) \/ Step(t)
    PROVE  /\ \A u \in Threads \ {t} : pc'[u] = pc[u] /\ next'[u] = next[u]
           /\ next'[t] \in {next[t], next[t] + 1}
<1>1. pc \in [Threads -> PCs] /\ next \in [Threads -> Nat]
  BY DEF TypeInv, TypeOK
<1>2. \E where : pc' = [pc EXCEPT ![t] = where]
  <2>1. pc = [pc EXCEPT ![t] = pc[t]]
    BY <1>1
  <2> QED
    BY <2>1 DEF Begin, Step, Read, CheckBridgeConnected, Connect, SetResponse, SendReset,
       SendTop, Write, BeginRead, ReadStdout, ReadToken, Misread, ReadPart, Complete,
       ReadEOF, Translate, UseAnswer, Throw, Goto, Finish, thread
<1>3. next' = next \/ next' = [next EXCEPT ![t] = @ + 1]
  BY DEF Begin, Step, Read, CheckBridgeConnected, Connect, SetResponse, SendReset,
     SendTop, BeginRead, ReadStdout, ReadToken, Misread, ReadPart, ReadEOF, Translate,
     UseAnswer, thread
<1> QED
  BY <1>1, <1>2, <1>3

\* What was sent stays so.
LEMMA SentStays ==
    ASSUME TypeInv, [Next]_vars, NEW cmd \in Commands, Sent(cmd)
    PROVE  Sent(cmd)'
<1> DEFINE u == cmd.by
<1>1. /\ u \in Threads /\ cmd.n \in Nat /\ next \in [Threads -> Nat]
      /\ pc \in [Threads -> PCs]
  BY DEF Commands, TypeInv, TypeOK
<1>2. SUFFICES ASSUME cmd.kind = "top" PROVE Sent(cmd)'
  BY DEF Sent
<1>3. ASSUME NEW t \in Threads, Begin(t) \/ Step(t) PROVE Sent(cmd)'
  <2>1. CASE t # u
    BY <1>1, <1>2, <1>3, <2>1, ThreadMoves DEF Sent
  <2>2. CASE t = u /\ cmd.n < next[u]
    BY <1>1, <1>2, <1>3, <2>2, ThreadMoves DEF Sent
  <2>3. CASE t = u /\ cmd.n = next[u] /\ pc[u] \in {"topSent", "topRead", "use", "done"}
    BY <1>1, <1>2, <1>3, <2>3, AfterSending DEF Sent
  <2> QED
    BY <1>2, <2>1, <2>2, <2>3 DEF Sent
<1>4. CASE (\E c \in Conns : Serve(c)) \/ Crash \/ Restart \/ UNCHANGED vars
  BY <1>4 DEF Serve, Crash, Restart, vars, thread, Sent
<1> QED
  BY <1>3, <1>4 DEF Next

-----------------------------------------------------------------------------
(* Steps by what they do to the lines. *)

Lines == OnLine /\ OneLine

\* No line got a command: what is on one now was there before, K[c] places on.
Shrinks(K) ==
    \A c \in Conns : \A i \in Places(c)' :
        i + K[c] \in Places(c) /\ Line(c, i)' = Line(c, i + K[c])

\* At most one line got a command, at its end.
Adds(d, cmd) ==
    \A c \in Conns : \A i \in Places(c)' :
        \/ i \in Places(c) /\ Line(c, i)' = Line(c, i)
        \/ c = d /\ i = Len(unread[d]) + Len(inbox[d]) + 1 /\ Line(c, i)' = cmd

LEMMA ReportedStays ==
    ASSUME OnceInv, [Next]_vars, UNCHANGED allResults
    PROVE  Reported' /\ ReportedOnce'
<1>1. ASSUME NEW t \in Threads, NEW i \in 1..Len(allResults[t])
      PROVE  allResults[t][i].cmd.kind = "top" /\ Sent(allResults[t][i].cmd)'
  <2>1. allResults[t][i] \in Messages
    BY DEF OnceInv, IInv, TypeInv, TypeOK
  <2>2. PICK cmd \in Commands : cmd = allResults[t][i].cmd
    BY <2>1 DEF Messages
  <2>3. cmd.kind = "top" /\ Sent(cmd)
    BY <2>2 DEF OnceInv, Reported
  <2>4. Sent(cmd)'
    BY <2>3, SentStays DEF OnceInv, IInv
  <2> QED
    BY <2>2, <2>3, <2>4
<1> QED
  BY <1>1 DEF OnceInv, Reported, ReportedOnce, Sent

LEMMA LinesShrink ==
    ASSUME OnceInv, [Next]_vars, UNCHANGED allResults,
           NEW K \in [Conns -> Nat], Shrinks(K)
    PROVE  Lines'
<1>1. OnLine'
  <2>1. ASSUME NEW c \in Conns, NEW i \in Places(c)'
        PROVE  /\ Sent(Line(c, i))'
               /\ (Line(c, i).kind = "top")' => ~Reports(Line(c, i))'
    <3>1. i + K[c] \in Places(c) /\ Line(c, i)' = Line(c, i + K[c])
      BY <2>1 DEF Shrinks
    <3>2. PICK cmd \in Commands : cmd = Line(c, i + K[c])
      BY <3>1, LineType DEF OnceInv, IInv
    <3>3. Sent(cmd) /\ (cmd.kind = "top" => ~Reports(cmd))
      BY <3>1, <3>2 DEF OnceInv, OnLine
    <3>4. Sent(cmd)' /\ (cmd.kind = "top" => ~Reports(cmd)')
      BY <3>2, <3>3, SentStays DEF OnceInv, IInv, Reports
    <3>5. Line(c, i)' = cmd
      BY <3>1, <3>2
    <3> QED
      BY <3>4, <3>5 DEF Sent, Reports
  <2> QED
    BY <2>1 DEF OnLine
<1>2. OneLine'
  <2>1. ASSUME NEW c \in Conns, NEW d \in Conns, NEW i \in Places(c)',
               NEW j \in Places(d)', Line(c, i)'.kind = "top", Line(c, i)' = Line(d, j)'
        PROVE  c = d /\ i = j
    <3>1. /\ i + K[c] \in Places(c) /\ Line(c, i)' = Line(c, i + K[c])
          /\ j + K[d] \in Places(d) /\ Line(d, j)' = Line(d, j + K[d])
      BY <2>1 DEF Shrinks
    <3>2. c = d /\ i + K[c] = j + K[d]
      BY <2>1, <3>1 DEF OnceInv, OneLine
    <3> QED
      BY <3>2 DEF Places
  <2> QED
    BY <2>1 DEF OneLine
<1> QED
  BY <1>1, <1>2 DEF Lines

LEMMA LinesAdd ==
    ASSUME OnceInv, [Next]_vars, UNCHANGED allResults,
           NEW e \in Conns, NEW new \in Commands, Adds(e, new),
           new.kind = "top" => ~Sent(new), Sent(new)'
    PROVE  Lines'
<1>1. new.kind = "top" => ~Reports(new)
  BY DEF OnceInv, Reported, Reports
<1>2. OnLine'
  <2>1. ASSUME NEW c \in Conns, NEW i \in Places(c)'
        PROVE  /\ Sent(Line(c, i))'
               /\ (Line(c, i).kind = "top")' => ~Reports(Line(c, i))'
    <3>1. CASE i \in Places(c) /\ Line(c, i)' = Line(c, i)
      <4>2. PICK cmd \in Commands : cmd = Line(c, i)
        BY <3>1, LineType DEF OnceInv, IInv
      <4>3. Sent(cmd) /\ (cmd.kind = "top" => ~Reports(cmd))
        BY <3>1, <4>2 DEF OnceInv, OnLine
      <4>4. Sent(cmd)' /\ (cmd.kind = "top" => ~Reports(cmd)')
        BY <4>2, <4>3, SentStays DEF OnceInv, IInv, Reports
      <4>5. Line(c, i)' = cmd
        BY <3>1, <4>2
      <4> QED
        BY <4>4, <4>5 DEF Sent, Reports
    <3>2. CASE Line(c, i)' = new
      BY <1>1, <3>2 DEF Sent, Reports
    <3> QED
      BY <2>1, <3>1, <3>2 DEF Adds
  <2> QED
    BY <2>1 DEF OnLine
<1>3. OneLine'
  <2>1. ASSUME NEW c \in Conns, NEW d \in Conns, NEW i \in Places(c)',
               NEW j \in Places(d)', Line(c, i)'.kind = "top", Line(c, i)' = Line(d, j)'
        PROVE  c = d /\ i = j
    <3> DEFINE end == Len(unread[e]) + Len(inbox[e]) + 1
    <3>1. /\ \/ i \in Places(c) /\ Line(c, i)' = Line(c, i)
             \/ c = e /\ i = end /\ Line(c, i)' = new
          /\ \/ j \in Places(d) /\ Line(d, j)' = Line(d, j)
             \/ d = e /\ j = end /\ Line(d, j)' = new
      BY <2>1 DEF Adds
    <3>2. \A b \in Conns : \A k \in Places(b) : Line(b, k).kind = "top" => Line(b, k) # new
      BY DEF OnceInv, OnLine
    <3>3. CASE Line(c, i)' = new
      <4>1. new.kind = "top" /\ Line(d, j)' = new
        BY <2>1, <3>3
      <4>2. c = e /\ i = end
        BY <3>1, <3>2, <3>3, <4>1
      <4>3. d = e /\ j = end
        BY <3>1, <3>2, <4>1
      <4> QED
        BY <4>2, <4>3
    <3>4. CASE Line(c, i)' # new
      <4>1. i \in Places(c) /\ Line(c, i)' = Line(c, i)
        BY <3>1, <3>4
      <4>2. j \in Places(d) /\ Line(d, j)' = Line(d, j)
        BY <2>1, <3>1, <3>4
      <4>3. Line(c, i).kind = "top" /\ Line(c, i) = Line(d, j)
        BY <2>1, <4>1, <4>2
      <4> QED
        BY <4>1, <4>2, <4>3 DEF OnceInv, OneLine
    <3> QED
      BY <3>3, <3>4
  <2> QED
    BY <2>1 DEF OneLine
<1> QED
  BY <1>2, <1>3 DEF Lines

\* A step of one thread leaves nothing to say of the others: they rest.
LEMMA OthersHold ==
    ASSUME OnceInv, MaxParallel = 1, NEW t \in Threads, Begin(t) \/ Step(t)
    PROVE  \A u \in Threads \ {t} : ToReport(u)'
<1>1. \A u \in Threads \ {t} : Resting(u)
  <2>1. CASE Begin(t)
    BY <2>1, BeginsAlone DEF OnceInv, Active, Resting
  <2>2. CASE ~Resting(t)
    BY <2>2, OneThread DEF OnceInv, IInv
  <2>3. Step(t) => ~Resting(t)
    BY DEF Resting, Step, Read, CheckBridgeConnected, Connect, SetResponse, SendReset,
       SendTop, BeginRead, ReadStdout, ReadToken, Misread, ReadPart, ReadEOF, TakesWhole, Readable, Reading,
       Translate, UseAnswer
  <2> QED
    BY <2>1, <2>2, <2>3
<1>2. \A u \in Threads \ {t} : pc'[u] = pc[u]
  BY ThreadMoves DEF OnceInv, IInv
<1> QED
  BY <1>1, <1>2 DEF Resting, ToReport, Parsing, Holding

-----------------------------------------------------------------------------
(* The steps of a thread. *)

Orderly == Lines /\ Reported /\ ReportedOnce /\ Forms

LEMMA FormsStay ==
    ASSUME OnceInv, UNCHANGED unread
    PROVE  Forms'
BY DEF OnceInv, Forms, Useful

LEMMA QuietOrderly ==
    ASSUME OnceInv, [Next]_vars, UNCHANGED <<inbox, unread, allResults>>
    PROVE  Orderly'
<1> DEFINE K == [c \in Conns |-> 0]
<1>1. Shrinks(K)
  <2>1. ASSUME NEW c \in Conns, NEW i \in Places(c)'
        PROVE  i + K[c] \in Places(c) /\ Line(c, i)' = Line(c, i + K[c])
    <3>1. i \in Places(c) /\ Line(c, i)' = Line(c, i)
      BY DEF Places, Line
    <3>2. i + K[c] = i
      BY <3>1, LineType DEF OnceInv, IInv
    <3> QED
      BY <3>1, <3>2
  <2> QED
    BY <2>1 DEF Shrinks
<1>2. Lines'
  BY <1>1, LinesShrink
<1> QED
  BY <1>2, ReportedStays, FormsStay DEF Orderly

\* Where a thread is that has nothing to use and has read no value.
LEMMA NothingToReport ==
    ASSUME NEW t \in Threads, pc'[t] # "use", pc'[t] \notin Reading \/ phase'[t] < 2,
           phase'[t] \in Nat
    PROVE  ToReport(t)'
BY DEF ToReport, Parsing, Holding, Reading

LEMMA QuietOnce ==
    ASSUME OnceInv, [Next]_vars, NEW t \in Threads,
           \/ Begin(t) \/ CheckBridgeConnected(t) \/ SetResponse(t) \/ BeginRead(t)
           \/ ReadEOF(t) \/ Translate(t)
    PROVE  Orderly' /\ ToReport(t)'
<1>1. UNCHANGED <<inbox, unread, allResults>>
  BY DEF Begin, CheckBridgeConnected, SetResponse, BeginRead, ReadEOF, Translate, wire,
     report
<1>2. Orderly'
  BY <1>1, QuietOrderly
<1>3. TypeInv /\ pc \in [Threads -> PCs] /\ phase \in [Threads -> 0..9]
  BY DEF OnceInv, IInv, TypeInv, TypeOK
<1>4. phase'[t] \in Nat
  BY <1>3 DEF Begin, CheckBridgeConnected, SetResponse, BeginRead, ReadEOF, Translate
<1>5. pc'[t] # "use" /\ (pc'[t] \notin Reading \/ phase'[t] < 2)
  <2>1. CASE Begin(t) \/ CheckBridgeConnected(t) \/ SetResponse(t) \/ Translate(t)
    BY <1>3, <2>1 DEF Begin, CheckBridgeConnected, SetResponse, Translate, Finish, Goto,
       Reading
  <2>2. CASE BeginRead(t) /\ response # NoConn
    BY <1>3, <2>2 DEF BeginRead, Goto
  <2>3. CASE ReadEOF(t) \/ (BeginRead(t) /\ response = NoConn)
    BY <1>3, <2>3 DEF ReadEOF, BeginRead, Throw, Finish, Goto, Reading
  <2> QED
    BY <2>1, <2>2, <2>3
<1> QED
  BY <1>2, <1>4, <1>5, NothingToReport

LEMMA ConnectOnce ==
    ASSUME OnceInv, [Next]_vars, NEW t \in Threads, Connect(t)
    PROVE  Orderly' /\ ToReport(t)'
<1>0. /\ TypeInv /\ pc \in [Threads -> PCs] /\ inbox \in [Conns -> Seq(Commands)]
      /\ phase \in [Threads -> 0..9]
  BY DEF OnceInv, IInv, TypeInv, TypeOK
<1>1. UNCHANGED <<phase, unread, allResults>> /\ phase[t] \in Nat
  BY <1>0 DEF Connect
<1>2. ToReport(t)'
  <2>1. pc'[t] \notin Reading \cup {"use"}
    BY <1>0 DEF Connect, Throw, Finish, Goto, Reading
  <2> QED
    BY <1>0, <1>1, <2>1, NothingToReport
<1>3. CASE up
  <2>1. inbox' = [inbox EXCEPT ![t] = <<Hello(t)>>] /\ Silent(t)
    BY <1>3 DEF Connect, OnceInv, IInv, PairedExchange, Unopened
  <2>2. Hello(t) \in Commands /\ Hello(t).kind # "top" /\ Sent(Hello(t))'
    BY DEF Hello, Commands, Sent
  <2>3. Adds(t, Hello(t))
    <3>1. ASSUME NEW c \in Conns, NEW i \in Places(c)', c # t
          PROVE  i \in Places(c) /\ Line(c, i)' = Line(c, i)
      BY <1>0, <1>1, <2>1, <3>1 DEF Places, Line
    <3>2. ASSUME NEW i \in Places(t)' PROVE i = 1 /\ Line(t, i)' = Hello(t)
      BY <1>0, <1>1, <2>1 DEF Places, Line, Silent, Conns
    <3>3. Len(unread[t]) + Len(inbox[t]) + 1 = 1
      BY <2>1 DEF Silent
    <3> QED
      BY <3>1, <3>2, <3>3 DEF Adds
  <2>4. Lines'
    BY <1>0, <1>1, <2>2, <2>3, LinesAdd DEF Conns
  <2> QED
    BY <1>0, <1>1, <1>2, <2>4, ReportedStays, FormsStay DEF Orderly
<1>4. CASE ~up
  BY <1>0, <1>1, <1>2, <1>4, QuietOrderly DEF Connect
<1> QED
  BY <1>3, <1>4

\* A command written to a socket is the last one on its line.
LEMMA WriteAdds ==
    ASSUME TypeInv, NEW t \in Threads, NEW cmd \in Commands, NEW sent,
           Write(t, cmd, sent), UNCHANGED unread, command # NoConn
    PROVE  command \in Conns /\ Adds(command, cmd)
<1>1. command \in Conns
  BY DEF TypeInv, TypeOK
<1>2. inbox \in [Conns -> Seq(Commands)]
  BY DEF TypeInv, TypeOK
<1>3. \A c \in Conns :
         inbox'[c] = inbox[c] \/ (c = command /\ inbox'[c] = Append(inbox[c], cmd))
  BY <1>1, <1>2 DEF Write
<1>4. ASSUME NEW c \in Conns, NEW i \in Places(c)'
      PROVE  \/ i \in Places(c) /\ Line(c, i)' = Line(c, i)
             \/ /\ c = command /\ i = Len(unread[command]) + Len(inbox[command]) + 1
                /\ Line(c, i)' = cmd
  <2>1. CASE inbox'[c] = inbox[c]
    BY <2>1 DEF Places, Line
  <2>2. CASE c = command /\ inbox'[c] = Append(inbox[c], cmd)
    <3>1. PICK m \in Nat, n \in Nat :
             m = Len(unread[c]) /\ m = Len(unread'[c]) /\ n = Len(inbox[c])
      BY LineType
    <3>2. inbox[c] \in Seq(Commands)
      BY LineType
    <3>3. Len(inbox'[c]) = n + 1 /\ inbox'[c][n + 1] = cmd
      BY <2>2, <3>1, <3>2
    <3>4. \A j \in 1..n : inbox'[c][j] = inbox[c][j]
      BY <2>2, <3>1, <3>2
    <3>5. i \in 1..(m + n + 1)
      <4>1. i \in 1..(m + (n + 1))
        BY <3>1, <3>3 DEF Places
      <4> QED
        BY <4>1
    <3>6. CASE i = m + n + 1
      <4>0. ~(i <= m) /\ i - m = n + 1
        BY <3>6
      <4>1. Line(c, i)' = inbox'[c][i - m]
        BY <3>1, <4>0 DEF Line
      <4>2. inbox'[c][i - m] = cmd
        BY <3>3, <4>0
      <4>3. i = Len(unread[command]) + Len(inbox[command]) + 1
        BY <2>2, <3>1, <3>6
      <4> QED
        BY <2>2, <4>1, <4>2, <4>3
    <3>7. CASE i \in 1..m
      <4>1. i <= m /\ i \in 1..(m + n)
        BY <3>7
      <4> QED
        BY <3>1, <4>1 DEF Line, Places
    <3>8. CASE i \in (m + 1)..(m + n)
      <4>1. i - m \in 1..n /\ i \in 1..(m + n) /\ ~(i <= m)
        BY <3>8
      <4>2. Line(c, i)' = inbox'[c][i - m] /\ Line(c, i) = inbox[c][i - m]
        BY <3>1, <4>1 DEF Line
      <4> QED
        BY <3>1, <3>4, <4>1, <4>2 DEF Places
    <3>9. i = m + n + 1 \/ i \in 1..m \/ i \in (m + 1)..(m + n)
      BY <3>5
    <3> QED
      BY <3>6, <3>7, <3>8, <3>9
  <2> QED
    BY <1>3, <2>1, <2>2
<1> QED
  BY <1>1, <1>4 DEF Adds

LEMMA SendOnce ==
    ASSUME OnceInv, [Next]_vars, NEW t \in Threads, SendReset(t) \/ SendTop(t)
    PROVE  Orderly' /\ ToReport(t)'
<1>0. /\ TypeInv /\ pc \in [Threads -> PCs] /\ next \in [Threads -> Nat]
      /\ phase \in [Threads -> 0..9]
  BY DEF OnceInv, IInv, TypeInv, TypeOK
<1>1. UNCHANGED <<next, phase, unread, allResults>> /\ phase[t] \in Nat
  BY <1>0 DEF SendReset, SendTop
<1>2. CASE Throw(t) /\ UNCHANGED inbox
  <2>1. pc'[t] \notin Reading \cup {"use"}
    BY <1>0, <1>2, ThrowType DEF Reading
  <2> QED
    BY <1>0, <1>1, <1>2, <2>1, QuietOrderly, NothingToReport
<1>3. CASE ~(Throw(t) /\ UNCHANGED inbox)
  <2>1. PICK cmd \in Commands, sent \in {"resetSent", "topSent"} :
           /\ Write(t, cmd, sent)
           /\ \/ cmd.kind = "reset"
              \/ sent = "topSent" /\ cmd = Top(t, next[t]) /\ pc[t] = "send"
    <3>1. Reset(t) \in Commands /\ Top(t, next[t]) \in Commands /\ Reset(t).kind = "reset"
      BY <1>0 DEF Reset, Top, Commands
    <3> QED
      BY <1>3, <3>1 DEF SendReset, SendTop
  <2>2. command # NoConn /\ pc'[t] = sent
    BY <1>0, <1>3, <2>1 DEF Write, Goto
  <2>3. command \in Conns /\ Adds(command, cmd)
    BY <1>0, <1>1, <2>1, <2>2, WriteAdds
  <2>4. (cmd.kind = "top" => ~Sent(cmd)) /\ Sent(cmd)'
    BY <1>0, <1>1, <2>1, <2>2 DEF Sent, Top
  <2>5. Lines'
    BY <1>0, <1>1, <2>3, <2>4, LinesAdd
  <2>6. ToReport(t)'
    BY <1>0, <1>1, <2>2, NothingToReport DEF Reading
  <2> QED
    BY <1>0, <1>1, <2>5, <2>6, ReportedStays, FormsStay DEF Orderly
<1> QED
  BY <1>2, <1>3

\* A STDOUT frame read is off the first message, which stays the answer it is.
LEMMA ReadStdoutOnce ==
    ASSUME OnceInv, [Next]_vars, NEW t \in Threads, ReadStdout(t)
    PROVE  Orderly' /\ ToReport(t)'
<1>1. /\ sock[t] = command /\ command \in Conns /\ unread[command] # <<>>
      /\ pc[t] \in Reading
  BY ReadsCommandSocket DEF ReadStdout, TakesWhole, OnceInv, IInv
<1>2. PICK c \in Conns : c = command
  BY <1>1
<1>3. /\ UNCHANGED <<pc, phase, inbox, allResults>> /\ phase[t] = 0
      /\ unread' = [unread EXCEPT ![c][1].out = @ - 1]
  BY <1>1, <1>2 DEF ReadStdout, Printed, client, thread, report
<1>4. ToReport(t)'
  BY <1>1, <1>3, NothingToReport DEF Reading
<1>5. TypeInv /\ unread \in [Conns -> Seq(Messages)]
  BY DEF OnceInv, IInv, TypeInv, TypeOK
<1>6. unread[c] \in Seq(Messages) /\ Len(unread[c]) \in Nat /\ Len(unread[c]) > 0
      /\ unread[c][1] \in Messages
  BY <1>1, <1>2, <1>5, HeadTail
<1>7. unread'[c] = [unread[c] EXCEPT ![1].out = @ - 1]
  BY <1>3, <1>5
<1>8. ASSUME NEW d \in Conns
      PROVE  /\ Len(unread'[d]) = Len(unread[d])
             /\ \A i \in 1..Len(unread[d]) : /\ unread'[d][i].cmd = unread[d][i].cmd
                                             /\ unread'[d][i].val = unread[d][i].val
  <2>1. CASE d = c
    BY SMTT(30), <1>6, <1>7, <2>1 DEF Messages
  <2>2. CASE d # c
    BY <1>3, <1>5, <2>2
  <2> QED
    BY <2>1, <2>2
<1>9. Forms'
  BY <1>8 DEF OnceInv, Forms, Useful
<1>10. ASSUME NEW d \in Conns, NEW i \in Places(d)'
       PROVE  i \in Places(d) /\ Line(d, i)' = Line(d, i)
  <2>1. i \in Places(d) /\ i \in Nat /\ Len(unread[d]) \in Nat
    BY <1>3, <1>5, <1>8, LineType DEF Places
  <2>2. CASE i <= Len(unread[d])
    <3>1. i \in 1..Len(unread[d])
      BY <2>1, <2>2 DEF Places
    <3> QED
      BY <1>8, <2>1, <2>2, <3>1 DEF Line
  <2>3. CASE ~(i <= Len(unread[d]))
    BY <1>3, <1>8, <2>1, <2>3 DEF Line
  <2> QED
    BY <2>1, <2>2, <2>3
<1>11. Lines'
  <2> DEFINE K == [d \in Conns |-> 0]
  <2>1. Shrinks(K)
    BY <1>5, <1>10, LineType DEF Shrinks
  <2> QED
    BY <1>3, <2>1, LinesShrink
<1> QED
  BY <1>3, <1>4, <1>9, <1>11, ReportedStays DEF Orderly

\* The reader past the end of a message: the line moves on by one.
LEMMA TailShrinks ==
    ASSUME TypeInv, NEW c \in Conns, unread[c] # <<>>,
           unread' = [unread EXCEPT ![c] = Tail(@)], UNCHANGED inbox
    PROVE  /\ Shrinks([d \in Conns |-> IF d = c THEN 1 ELSE 0])
           /\ \A d \in Conns : \A i \in 1..Len(unread'[d]) :
                 \E j \in 1..Len(unread[d]) : unread'[d][i] = unread[d][j]
<1> DEFINE K == [d \in Conns |-> IF d = c THEN 1 ELSE 0]
<1>1. PICK n \in Nat, k \in Nat : n + 1 = Len(unread[c]) /\ k = Len(inbox[c])
  <2>1. Len(unread[c]) \in Nat /\ Len(unread[c]) > 0 /\ Len(inbox[c]) \in Nat
    BY LineType, HeadTail
  <2> QED
    BY SMTT(30), <2>1
<1>2. /\ unread'[c] = Tail(unread[c]) /\ unread[c] \in Seq(Messages)
      /\ \A d \in Conns \ {c} : unread'[d] = unread[d]
  BY DEF TypeInv, TypeOK
<1>3. Len(unread'[c]) = n /\ \A i \in 1..n : unread'[c][i] = unread[c][i + 1]
  <2>1. unread[c] # <<>>
    OBVIOUS
  <2>2. Len(Tail(unread[c])) = Len(unread[c]) - 1 /\ Tail(unread[c]) \in Seq(Messages)
    BY <1>2, <2>1, HeadTail
  <2>3. \A i \in 1..(Len(unread[c]) - 1) : Tail(unread[c])[i] = unread[c][i + 1]
    BY <1>2, <2>1
  <2>4. Len(unread[c]) - 1 = n
    BY <1>1
  <2> QED
    BY <1>2, <2>2, <2>3, <2>4
<1>4. ASSUME NEW i \in Places(c)'
      PROVE  i + 1 \in Places(c) /\ Line(c, i)' = Line(c, i + 1)
  <2>1. i \in 1..(n + k)
    BY <1>1, <1>3 DEF Places
  <2>2. i + 1 \in 1..((n + 1) + k)
    BY <2>1
  <2>3. i + 1 \in Places(c)
    BY <1>1, <2>2 DEF Places
  <2>4. CASE i \in 1..n
    <3>1. i <= n /\ i + 1 <= n + 1
      BY <2>4
    <3>2. Line(c, i)' = unread'[c][i].cmd /\ Line(c, i + 1) = unread[c][i + 1].cmd
      BY <1>1, <1>3, <3>1 DEF Line
    <3> QED
      BY <1>3, <2>3, <2>4, <3>2
  <2>5. CASE i > n
    <3>1. ~(i <= n) /\ ~(i + 1 <= n + 1) /\ i - n = (i + 1) - (n + 1)
      BY <2>1, <2>5
    <3>2. Line(c, i)' = inbox[c][i - n] /\ Line(c, i + 1) = inbox[c][(i + 1) - (n + 1)]
      BY <1>1, <1>3, <3>1 DEF Line
    <3> QED
      BY <2>3, <3>1, <3>2
  <2> QED
    BY <2>1, <2>4, <2>5
<1>5. ASSUME NEW d \in Conns \ {c}, NEW i \in Places(d)'
      PROVE  i \in Nat /\ i \in Places(d) /\ Line(d, i)' = Line(d, i)
  <2>0. unread'[d] = unread[d] /\ inbox'[d] = inbox[d] /\ d \in Conns
    BY <1>2
  <2>1. i \in Places(d)
    BY <2>0 DEF Places
  <2>2. Line(d, i)' = Line(d, i)
    BY <2>0 DEF Line
  <2> QED
    BY <2>1, <2>2, LineType
<1>6. Shrinks(K)
  BY <1>4, <1>5 DEF Shrinks
<1>7. ASSUME NEW d \in Conns, NEW i \in 1..Len(unread'[d])
      PROVE  \E j \in 1..Len(unread[d]) : unread'[d][i] = unread[d][j]
  <2>1. CASE d = c
    <3>1. i \in 1..n /\ i + 1 \in 1..(n + 1)
      BY <1>3, <2>1
    <3> QED
      BY <1>1, <1>3, <2>1, <3>1
  <2>2. CASE d # c
    BY <1>2, <2>2
  <2> QED
    BY <2>1, <2>2
<1> QED
  BY <1>6, <1>7

LEMMA ConsumeOrderly ==
    ASSUME OnceInv, [Next]_vars, NEW c \in Conns, unread[c] # <<>>, Consume(c),
           UNCHANGED <<inbox, allResults>>
    PROVE  Orderly'
<1>1. CASE at[c] + 1 = Len(Layout(Head(unread[c])))
  <2> DEFINE K == [d \in Conns |-> IF d = c THEN 1 ELSE 0]
  <2>1. unread' = [unread EXCEPT ![c] = Tail(@)]
    BY <1>1 DEF Consume
  <2>2. /\ Shrinks(K)
        /\ \A d \in Conns : \A i \in 1..Len(unread'[d]) :
              \E j \in 1..Len(unread[d]) : unread'[d][i] = unread[d][j]
    BY <2>1, TailShrinks DEF OnceInv, IInv
  <2>3. Forms'
    BY SMTT(30), <2>2 DEF OnceInv, Forms
  <2>4. Lines'
    BY <2>2, LinesShrink
  <2> QED
    BY <2>3, <2>4, ReportedStays DEF Orderly
<1>2. CASE at[c] + 1 # Len(Layout(Head(unread[c])))
  BY <1>2, QuietOrderly DEF Consume
<1> QED
  BY <1>1, <1>2

LEMMA MisreadOnce ==
    ASSUME OnceInv, [Next]_vars, NEW t \in Threads, Misread(t)
    PROVE  Orderly' /\ ToReport(t)'
<1>1. sock[t] = command /\ command \in Conns /\ unread[command] # <<>>
  BY ReadsCommandSocket DEF Misread, TakesWhole, OnceInv, IInv
<1>2. PICK c \in Conns : c = command
  BY <1>1
<1>3. Consume(c) /\ UNCHANGED <<inbox, allResults>>
  BY <1>1, <1>2 DEF Misread
<1>4. Orderly'
  BY <1>1, <1>2, <1>3, ConsumeOrderly
<1>5. pc \in [Threads -> PCs] /\ phase \in [Threads -> 0..9]
  BY DEF OnceInv, IInv, TypeInv, TypeOK
<1>6. pc'[t] \notin Reading \cup {"use"} /\ phase'[t] = 0
  BY <1>5 DEF Misread, Throw, Finish, Goto, Reading
<1> QED
  BY <1>4, <1>6, NothingToReport

\* The reader in step with a message it has begun to parse: where it is, and what
\* the next token is not.
LEMMA ParsingOn ==
    ASSUME OnceInv, NEW t \in Threads, Readable(t), Parsing(t), phase[t] >= 2,
           pc[t] \in {"resetRead", "topRead"}
    PROVE  /\ command \in Conns /\ unread[command] \in Seq(Messages)
           /\ unread[command] # <<>> /\ at[command] = phase[t] /\ phase[t] \in 2..9
           /\ Head(unread[command]) = unread[command][1]
           /\ lastParsed[command] = unread[command][1]
           /\ Layout(Head(unread[command])) = AnswerLayout
           /\ NextToken(t) # "value" /\ Len(Expected(t)) = 10
<1>1. sock[t] = command /\ command \in Conns /\ unread[command] # <<>>
  BY ReadsCommandSocket DEF OnceInv, IInv
<1>2. /\ unread[command] \in Seq(Messages) /\ Head(unread[command]) = unread[command][1]
      /\ phase[t] \in 0..9
  BY <1>1, HeadTail DEF OnceInv, IInv, TypeInv, TypeOK
<1>3. /\ at[command] = phase[t] /\ lastParsed[command] = unread[command][1]
      /\ Layout(unread[command][1]) = AnswerLayout
  BY <1>1 DEF Parsing
<1>4. NextToken(t) # "value"
  <2>1. NextToken(t) = Layout(Head(unread[command]))[phase[t] + 1]
    BY <1>1, <1>2, <1>3 DEF NextToken, TokenAt
  <2>2. Len(Layout(Head(unread[command]))) = 10
    BY <1>2, <1>3, Layouts
  <2>3. phase[t] \in Nat /\ phase[t] < 10 /\ phase[t] # 1
    <3>1. phase[t] \in 0..9 /\ phase[t] >= 2
      BY <1>2
    <3> QED
      BY <3>1
  <2> QED
    BY <2>1, <2>2, <2>3, LayoutTokens
<1>5. Len(Expected(t)) = 10
  BY Layouts DEF Expected
<1> QED
  BY <1>1, <1>2, <1>3, <1>4, <1>5

LEMMA ReadTokenOnce ==
    ASSUME OnceInv, [Next]_vars, NEW t \in Threads, ReadToken(t)
    PROVE  Orderly' /\ ToReport(t)'
<1> DEFINE m == Head(unread[command])
<1>1. /\ sock[t] = command /\ command \in Conns /\ unread[command] # <<>>
      /\ response = command /\ pc[t] \in Reading /\ Readable(t)
  BY ReadsCommandSocket DEF ReadToken, TakesWhole, OnceInv, IInv
<1>2. /\ Consume(command) /\ UNCHANGED <<command, response, sock, next, inbox, allResults>>
      /\ NextToken(t) = Expected(t)[phase[t] + 1]
  BY <1>1 DEF ReadToken, Expects, report
<1>3. Orderly'
  <2>1. PICK c \in Conns : c = command
    BY <1>1
  <2> QED
    BY <1>1, <1>2, <2>1, ConsumeOrderly
<1>4. /\ TypeInv /\ pc \in [Threads -> PCs] /\ phase \in [Threads -> 0..9]
      /\ lastParsed \in [Conns -> Messages \cup {Nothing}] /\ at \in [Conns -> 0..9]
      /\ unread \in [Conns -> Seq(Messages)]
  BY DEF OnceInv, IInv, TypeInv, TypeOK
<1>5. Parsing(t)
  BY DEF OnceInv, ToReport
<1>6. CASE phase[t] + 1 = Len(Expected(t)) /\ pc[t] = "topRead"
  <2>1. phase[t] = 9
    <3>1. Len(Expected(t)) = 10
      BY <1>6, Layouts DEF Expected
    <3>2. phase[t] \in 0..9
      BY <1>4
    <3> QED
      BY <1>6, <3>1, <3>2
  <2>2. /\ unread[command] \in Seq(Messages) /\ at[command] = 9 /\ m = unread[command][1]
        /\ lastParsed[command] = m /\ Layout(m) = AnswerLayout /\ NextToken(t) # "value"
    BY <1>1, <1>5, <1>6, <2>1, ParsingOn
  <2>3. unread' = [unread EXCEPT ![command] = Tail(@)] /\ UNCHANGED lastParsed
    BY <1>1, <1>2, <2>2, Layouts DEF Consume, ReadToken
  <2>4. pc'[t] = "use"
    BY <1>4, <1>6 DEF ReadToken, Complete, Goto
  <2>5. PICK c \in Conns, answer \in {m} : c = command /\ answer = m
    BY <1>1
  <2>6. ASSUME answer.val \in Useful
        PROVE  /\ answer.cmd.kind = "top" /\ Sent(answer.cmd)' /\ ~Reports(answer.cmd)'
               /\ \A d \in Conns : \A i \in Places(d)' : Line(d, i)' # answer.cmd
    <3>1. 1 \in 1..Len(unread[c]) /\ 1 \in Places(c) /\ Line(c, 1) = answer.cmd
      <4>1. Len(unread[c]) \in Nat /\ Len(unread[c]) > 0 /\ Len(inbox[c]) \in Nat
        BY <1>1, <1>4, <2>5, HeadTail, LineType
      <4>2. \A a, b \in Nat : a > 0 => 1 <= a /\ 1 \in 1..a /\ 1 \in 1..(a + b)
        OBVIOUS
      <4> QED
        BY <2>2, <2>5, <4>1, <4>2 DEF Places, Line
    <3>2. PICK cmd \in Commands : cmd = answer.cmd
      BY <1>4, <3>1, LineType
    <3>3. cmd.kind = "top" /\ Sent(cmd) /\ ~Reports(cmd)
      BY <2>2, <2>5, <2>6, <3>1, <3>2 DEF OnceInv, Forms, OnLine
    <3>4. Sent(cmd)' /\ ~Reports(cmd)'
      BY <1>2, <1>4, <3>3, SentStays DEF Reports
    <3>5. ASSUME NEW d \in Conns, NEW i \in Places(d)' PROVE Line(d, i)' # cmd
      <4> DEFINE K == [e \in Conns |-> IF e = c THEN 1 ELSE 0]
      <4>1. Shrinks(K)
        BY <1>1, <1>2, <1>4, <2>3, <2>5, TailShrinks
      <4>2. i + K[d] \in Places(d) /\ Line(d, i)' = Line(d, i + K[d])
        BY <4>1 DEF Shrinks
      <4>3. SUFFICES ASSUME Line(d, i + K[d]) = cmd PROVE FALSE
        BY <4>2
      <4>4. c = d /\ 1 = i + K[d]
        BY <3>1, <3>2, <3>3, <4>2, <4>3 DEF OnceInv, OneLine
      <4> QED
        BY <4>4 DEF Places
    <3> QED
      BY <3>2, <3>3, <3>4, <3>5
  <2>7. lastParsed'[response'] = answer
    BY <1>1, <1>2, <2>2, <2>3, <2>5
  <2>8. Holding(t)'
    BY <2>6, <2>7 DEF Holding
  <2>9. Parsing(t)'
    BY <2>4 DEF Parsing
  <2> QED
    BY <1>3, <2>8, <2>9 DEF ToReport
<1>7. CASE phase[t] + 1 = Len(Expected(t)) /\ pc[t] # "topRead"
  <2>1. pc'[t] \notin Reading \cup {"use"} /\ phase'[t] = 0
    BY <1>1, <1>4, <1>7 DEF ReadToken, Complete, Goto, Reading
  <2> QED
    BY <1>3, <2>1, NothingToReport
<1>8. CASE phase[t] + 1 # Len(Expected(t))
  <2>0. pc' = pc /\ phase' = [phase EXCEPT ![t] = @ + 1]
    BY <1>8 DEF ReadToken
  <2>1. pc' = pc /\ phase'[t] = phase[t] + 1 /\ phase[t] \in 0..9
    BY <1>4, <2>0
  <2>2. Holding(t)'
    BY <1>1, <2>1 DEF Holding, Reading
  <2>3. ASSUME pc[t] \in {"resetRead", "topRead"}, phase[t] = 1 PROVE Parsing(t)'
    <3>1. NextToken(t) = "value"
      BY <1>2, <2>3, Layouts DEF Expected
    <3>2. at[command] = 1 /\ Layout(m) = AnswerLayout
      <4>1. at[command] \in 0..9 /\ at[command] < Len(Layout(m))
        BY <1>1, <1>4, Position
      <4>2. Layout(m)[at[command] + 1] = "value"
        BY <1>1, <3>1 DEF NextToken, TokenAt
      <4> QED
        BY <4>1, <4>2, LayoutTokens
    <3>3. unread' = unread /\ at'[command] = 2
      <4>1. Len(Layout(m)) = 10
        BY <3>2, Layouts
      <4>2. at[command] + 1 # Len(Layout(m)) /\ at[command] + 1 = 2
        BY <3>2, <4>1
      <4> QED
        BY <1>1, <1>2, <1>4, <4>2 DEF Consume
    <3>4. lastParsed'[command] = m
      BY <1>1, <1>4, <3>1 DEF ReadToken
    <3>5. m = unread[command][1]
      BY <1>1, <1>4, HeadTail
    <3> QED
      BY <1>1, <1>2, <2>1, <2>3, <3>2, <3>3, <3>4, <3>5 DEF Parsing
  <2>4. ASSUME pc[t] \in {"resetRead", "topRead"}, phase[t] >= 2 PROVE Parsing(t)'
    <3>1. /\ at[command] = phase[t] /\ phase[t] \in 2..9 /\ m = unread[command][1]
          /\ lastParsed[command] = unread[command][1] /\ Layout(m) = AnswerLayout
          /\ NextToken(t) # "value" /\ Len(Expected(t)) = 10
      BY <1>1, <1>5, <2>4, ParsingOn
    <3>2. unread' = unread /\ at'[command] = phase[t] + 1
      <4>1. Len(Layout(m)) = 10
        BY <3>1, Layouts
      <4>2. at[command] + 1 # Len(Layout(m))
        BY <1>8, <3>1, <4>1
      <4> QED
        BY <1>1, <1>2, <1>4, <3>1, <4>2 DEF Consume
    <3>3. lastParsed' = lastParsed
      BY <3>1 DEF ReadToken
    <3> QED
      BY <1>1, <1>2, <2>1, <3>1, <3>2, <3>3 DEF Parsing
  <2>5. Parsing(t)'
    BY <1>4, <2>1, <2>3, <2>4 DEF Parsing
  <2> QED
    BY <1>3, <2>2, <2>5 DEF ToReport
<1> QED
  BY <1>6, <1>7, <1>8

\* What a thread held is reported, and was on no line.
LEMMA UseAnswerOnce ==
    ASSUME OnceInv, [Next]_vars, NEW t \in Threads, UseAnswer(t)
    PROVE  Orderly' /\ ToReport(t)'
<1>1. /\ TypeInv /\ pc \in [Threads -> PCs] /\ allResults \in [Threads -> Seq(Messages)]
      /\ phase \in [Threads -> 0..9] /\ lastParsed \in [Conns -> Messages \cup {Nothing}]
      /\ response \in Conns
  BY DEF OnceInv, IInv, TypeInv, TypeOK, InRange, UseAnswer
<1>2. /\ UNCHANGED <<inbox, unread, phase>> /\ pc[t] = "use"
      /\ pc'[t] \notin Reading \cup {"use"}
  BY <1>1 DEF UseAnswer, Finish, Goto, Reading, wire
<1>3. ToReport(t)'
  <2>1. pc'[t] # "use" /\ pc'[t] \notin Reading
    BY <1>2
  <2>2. phase'[t] \in Nat
    <3>1. phase' = phase /\ phase[t] \in 0..9
      BY <1>1, <1>2
    <3> QED
      BY <3>1
  <2> QED
    BY <2>1, <2>2, NothingToReport
<1> DEFINE reports == lastParsed[response].val = "outcome"
                      \/ (lastParsed[response].val = "opaque" /\ t \in Executes)
<1>4. CASE ~reports
  BY <1>2, <1>3, <1>4, QuietOrderly DEF UseAnswer
<1>5. CASE reports
  <2>1. PICK answer : answer = lastParsed[response]
    OBVIOUS
  <2>2. answer \in Messages
    BY <1>1, <1>5, <2>1 DEF Nothing
  <2>3. allResults' = [allResults EXCEPT ![t] = Append(@, answer)]
    BY <1>5, <2>1 DEF UseAnswer
  <2>4. PICK cmd \in Commands : cmd = answer.cmd
    BY <2>2 DEF Messages
  <2>5. /\ cmd.kind = "top" /\ Sent(cmd) /\ ~Reports(cmd)
        /\ \A c \in Conns : \A i \in Places(c) : Line(c, i) # cmd
    BY <1>2, <1>5, <2>1, <2>4 DEF OnceInv, ToReport, Holding, Useful
  <2>6. Sent(cmd)'
    BY <2>5, SentStays DEF OnceInv, IInv
  <2>7. PICK n \in Nat : n = Len(allResults[t])
    BY <1>1
  <2>8. /\ allResults'[t] = Append(allResults[t], answer)
        /\ \A u \in Threads \ {t} : allResults'[u] = allResults[u]
    BY <1>1, <2>3
  <2>9. /\ Len(allResults'[t]) = n + 1 /\ allResults'[t][n + 1] = answer
        /\ \A i \in 1..n : allResults'[t][i] = allResults[t][i]
    BY <1>1, <2>2, <2>7, <2>8
  <2>10. ASSUME NEW u \in Threads, NEW i \in 1..Len(allResults'[u])
         PROVE  \/ i \in 1..Len(allResults[u]) /\ allResults'[u][i] = allResults[u][i]
                \/ u = t /\ i = n + 1 /\ allResults'[u][i].cmd = cmd
    <3>1. CASE u # t
      BY <2>8, <3>1
    <3>2. CASE u = t
      <4>1. i \in 1..(n + 1)
        BY <2>9, <3>2
      <4>2. i \in 1..n \/ i = n + 1
        BY <4>1
      <4> QED
        BY <2>4, <2>7, <2>9, <3>2, <4>2
    <3> QED
      BY <3>1, <3>2
  <2>11. Reported'
    <3>1. ASSUME NEW u \in Threads, NEW i \in 1..Len(allResults'[u])
          PROVE  allResults'[u][i].cmd.kind = "top" /\ Sent(allResults[u][i].cmd)'
      <4>1. CASE allResults'[u][i].cmd = cmd
        BY <2>5, <2>6, <4>1 DEF Sent
      <4>2. CASE i \in 1..Len(allResults[u]) /\ allResults'[u][i] = allResults[u][i]
        <5>0. allResults[u][i] \in Messages
          BY <1>1, <4>2
        <5>1. PICK old \in Commands : old = allResults[u][i].cmd
          BY <5>0 DEF Messages
        <5>2. old.kind = "top" /\ Sent(old)
          BY <4>2, <5>1 DEF OnceInv, Reported
        <5>3. Sent(old)'
          BY <5>2, SentStays DEF OnceInv, IInv
        <5> QED
          BY <4>2, <5>1, <5>2, <5>3 DEF Sent
      <4> QED
        BY <2>10, <4>1, <4>2
    <3> QED
      BY <3>1 DEF Reported, Sent
  <2>12. ReportedOnce'
    <3>1. ASSUME NEW u \in Threads, NEW v \in Threads,
                 NEW i \in 1..Len(allResults'[u]), NEW j \in 1..Len(allResults'[v]),
                 allResults'[u][i].cmd = allResults'[v][j].cmd
          PROVE  u = v /\ i = j
      <4>1. \A w \in Threads : \A k \in 1..Len(allResults[w]) : allResults[w][k].cmd # cmd
        BY <2>5 DEF Reports
      <4>2. \/ i \in 1..Len(allResults[u]) /\ allResults'[u][i] = allResults[u][i]
            \/ u = t /\ i = n + 1 /\ allResults'[u][i].cmd = cmd
        BY <2>10
      <4>3. \/ j \in 1..Len(allResults[v]) /\ allResults'[v][j] = allResults[v][j]
            \/ v = t /\ j = n + 1 /\ allResults'[v][j].cmd = cmd
        BY <2>10
      <4>4. CASE allResults'[u][i].cmd = cmd
        BY <3>1, <4>1, <4>2, <4>3, <4>4
      <4>5. CASE allResults'[u][i].cmd # cmd
        <5>1. /\ i \in 1..Len(allResults[u]) /\ j \in 1..Len(allResults[v])
              /\ allResults[u][i].cmd = allResults[v][j].cmd
          BY <3>1, <4>2, <4>3, <4>5
        <5> QED
          BY <5>1 DEF OnceInv, ReportedOnce
      <4> QED
        BY <4>4, <4>5
    <3> QED
      BY <3>1 DEF ReportedOnce
  <2>13. ASSUME NEW c \in Conns, NEW i \in Places(c)'
         PROVE  i \in Places(c) /\ Line(c, i)' = Line(c, i)
    BY <1>2 DEF Places, Line
  <2>14. OnLine'
    <3>1. ASSUME NEW c \in Conns, NEW i \in Places(c)'
          PROVE  /\ Sent(Line(c, i))'
                 /\ (Line(c, i).kind = "top")' => ~Reports(Line(c, i))'
      <4>1. PICK old \in Commands : old = Line(c, i)
        BY <1>1, <2>13, LineType
      <4>2. Sent(old) /\ (old.kind = "top" => ~Reports(old)) /\ old # cmd
        BY <2>5, <2>13, <4>1 DEF OnceInv, OnLine
      <4>3. Sent(old)'
        BY <4>2, SentStays DEF OnceInv, IInv
      <4>4. old.kind = "top" => ~Reports(old)'
        BY <2>10, <4>2 DEF Reports
      <4>5. Line(c, i)' = old
        BY <2>13, <4>1
      <4> QED
        BY <4>3, <4>4, <4>5 DEF Sent, Reports
    <3> QED
      BY <3>1 DEF OnLine
  <2>15. OneLine'
    <3>1. ASSUME NEW c \in Conns, NEW d \in Conns, NEW i \in Places(c)',
                 NEW j \in Places(d)', Line(c, i)'.kind = "top", Line(c, i)' = Line(d, j)'
          PROVE  c = d /\ i = j
      <4>1. /\ i \in Places(c) /\ Line(c, i)' = Line(c, i)
            /\ j \in Places(d) /\ Line(d, j)' = Line(d, j)
        BY <2>13
      <4>2. Line(c, i).kind = "top" /\ Line(c, i) = Line(d, j)
        BY <3>1, <4>1
      <4> QED
        BY <4>1, <4>2 DEF OnceInv, OneLine
    <3> QED
      BY <3>1 DEF OneLine
  <2> QED
    BY <1>2, <1>3, <2>11, <2>12, <2>14, <2>15, FormsStay DEF Orderly, Lines
<1> QED
  BY <1>4, <1>5

-----------------------------------------------------------------------------
(* The steps of the bridge. *)

\* The bridge takes nothing out of a reader's hands.
LEMMA BridgeToReport ==
    ASSUME OnceInv, UNCHANGED <<response, lastParsed, pc, sock, phase, next, allResults, at>>,
           \A c \in Conns : unread[c] # <<>> =>
                               unread'[c] # <<>> /\ unread'[c][1] = unread[c][1],
           \A c \in Conns : \A i \in Places(c)' :
                               i \in Places(c) /\ Line(c, i)' = Line(c, i),
           NEW t \in Threads
    PROVE  ToReport(t)'
<1>1. Parsing(t)'
  <2>1. SUFFICES ASSUME pc[t] \in {"resetRead", "topRead"}, phase[t] >= 2
                 PROVE  /\ unread'[sock[t]] # <<>> /\ at[sock[t]] = phase[t]
                        /\ lastParsed[sock[t]] = unread'[sock[t]][1]
                        /\ Layout(unread'[sock[t]][1]) = AnswerLayout
    BY DEF Parsing
  <2>2. /\ unread[sock[t]] # <<>> /\ at[sock[t]] = phase[t]
        /\ lastParsed[sock[t]] = unread[sock[t]][1]
        /\ Layout(unread[sock[t]][1]) = AnswerLayout
    BY <2>1 DEF OnceInv, ToReport, Parsing
  <2>3. sock[t] \in Conns
    BY <2>1 DEF OnceInv, IInv, TypeInv, TypeOK, InRange, Reading
  <2> QED
    BY <2>2, <2>3
<1>2. Holding(t)'
  <2>1. SUFFICES ASSUME pc[t] = "use", lastParsed[response].val \in Useful
                 PROVE  /\ lastParsed[response].cmd.kind = "top"
                        /\ Sent(lastParsed[response].cmd)'
                        /\ ~Reports(lastParsed[response].cmd)'
                        /\ \A c \in Conns : \A i \in Places(c)' :
                              Line(c, i)' # lastParsed[response].cmd
    BY DEF Holding, Sent, Reports
  <2>2. /\ lastParsed[response].cmd.kind = "top" /\ Sent(lastParsed[response].cmd)
        /\ ~Reports(lastParsed[response].cmd)
        /\ \A c \in Conns : \A i \in Places(c) : Line(c, i) # lastParsed[response].cmd
    BY <2>1 DEF OnceInv, ToReport, Holding
  <2>3. Sent(lastParsed[response].cmd)' /\ ~Reports(lastParsed[response].cmd)'
    BY <2>2 DEF Sent, Reports
  <2>4. ASSUME NEW c \in Conns, NEW i \in Places(c)'
        PROVE  Line(c, i)' # lastParsed[response].cmd
    BY <2>2
  <2> QED
    BY <2>2, <2>3, <2>4
<1> QED
  BY <1>1, <1>2 DEF ToReport

LEMMA BridgeLines ==
    ASSUME OnceInv, [Next]_vars, UNCHANGED allResults,
           \A c \in Conns : \A i \in Places(c)' :
                               i \in Places(c) /\ Line(c, i)' = Line(c, i)
    PROVE  Lines'
<1> DEFINE K == [c \in Conns |-> 0]
<1>1. Shrinks(K)
  <2>1. ASSUME NEW c \in Conns, NEW i \in Places(c)'
        PROVE  i + K[c] \in Places(c) /\ Line(c, i)' = Line(c, i + K[c])
    <3>1. i \in Places(c) /\ Line(c, i)' = Line(c, i)
      OBVIOUS
    <3>2. i + K[c] = i
      BY <3>1, LineType DEF OnceInv, IInv
    <3> QED
      BY <3>1, <3>2
  <2> QED
    BY <2>1 DEF Shrinks
<1> QED
  BY <1>1, LinesShrink

\* A command that is answered keeps its place.
LEMMA ServeOnce ==
    ASSUME OnceInv, [Next]_vars, NEW c \in Conns, Serve(c)
    PROVE  Orderly' /\ \A t \in Threads : ToReport(t)'
<1>1. /\ TypeInv /\ unread \in [Conns -> Seq(Messages)]
      /\ inbox \in [Conns -> Seq(Commands)]
  BY DEF OnceInv, IInv, TypeInv, TypeOK
<1>2. /\ UNCHANGED <<response, lastParsed, pc, sock, phase, next, allResults, at>>
      /\ inbox' = [inbox EXCEPT ![c] = Tail(@)] /\ inbox[c] # <<>>
  BY DEF Serve, client, thread, report
<1>3. PICK m : /\ m.cmd = Head(inbox[c]) /\ (m.val \in Useful => m.cmd.kind = "top")
               /\ unread' = [unread EXCEPT ![c] = Append(@, m)]
  BY DEF Serve, Useful
<1>4. PICK n \in Nat, k \in Nat : n = Len(unread[c]) /\ k + 1 = Len(inbox[c])
  <2>1. Len(unread[c]) \in Nat /\ Len(inbox[c]) \in Nat /\ Len(inbox[c]) > 0
    BY <1>1, <1>2, HeadTail
  <2>2. Len(inbox[c]) - 1 \in Nat /\ (Len(inbox[c]) - 1) + 1 = Len(inbox[c])
    BY <2>1
  <2> QED
    BY <2>1, <2>2
<1>5. /\ Len(inbox'[c]) = k /\ inbox[c][1] = m.cmd
      /\ \A i \in 1..k : inbox'[c][i] = inbox[c][i + 1]
  <2>1. inbox[c] \in Seq(Commands) /\ inbox'[c] = Tail(inbox[c]) /\ Head(inbox[c]) = inbox[c][1]
    BY <1>1, <1>2, HeadTail
  <2>2. Len(Tail(inbox[c])) = k
    BY <1>2, <1>4, <2>1
  <2>3. \A i \in 1..k : Tail(inbox[c])[i] = inbox[c][i + 1]
    BY <1>2, <1>4, <2>1, <2>2
  <2> QED
    BY <1>3, <2>1, <2>2, <2>3
<1>6. /\ Len(unread'[c]) = n + 1 /\ unread'[c][n + 1] = m
      /\ \A i \in 1..n : unread'[c][i] = unread[c][i]
  BY <1>1, <1>3, <1>4
<1>7. \A d \in Conns \ {c} : unread'[d] = unread[d] /\ inbox'[d] = inbox[d]
  BY <1>1, <1>2, <1>3
<1>8. ASSUME NEW d \in Conns, NEW i \in Places(d)'
      PROVE  i \in Places(d) /\ Line(d, i)' = Line(d, i)
  <2>1. CASE d # c
    <3>1. unread'[d] = unread[d] /\ inbox'[d] = inbox[d]
      BY <1>7, <2>1
    <3>2. i \in Places(d)
      BY <3>1 DEF Places
    <3>3. Line(d, i)' = Line(d, i)
      BY <3>1 DEF Line
    <3> QED
      BY <3>2, <3>3
  <2>2. CASE d = c
    <3>1. i \in 1..((n + 1) + k)
      BY <1>5, <1>6, <2>2 DEF Places
    <3>2. i \in 1..(n + (k + 1))
      BY <3>1
    <3>3. i \in Places(c)
      BY <1>4, <3>2 DEF Places
    <3>4. CASE i \in 1..n
      <4>1. i <= n /\ i <= n + 1
        BY <3>4
      <4> QED
        BY <1>4, <1>6, <2>2, <3>3, <3>4, <4>1 DEF Line
    <3>5. CASE i = n + 1
      <4>1. i <= n + 1 /\ ~(i <= n) /\ i - n = 1
        BY <3>5
      <4>2. Line(c, i)' = unread'[c][i].cmd /\ Line(c, i) = inbox[c][i - n]
        BY <1>4, <1>6, <4>1 DEF Line
      <4> QED
        BY <1>5, <1>6, <2>2, <3>3, <3>5, <4>1, <4>2
    <3>6. CASE i \in (n + 2)..(n + (k + 1))
      <4>1. /\ ~(i <= n + 1) /\ ~(i <= n) /\ i - (n + 1) \in 1..k
            /\ (i - (n + 1)) + 1 = i - n
        BY <3>6
      <4>2. Line(c, i)' = inbox'[c][i - (n + 1)] /\ Line(c, i) = inbox[c][i - n]
        BY <1>4, <1>6, <4>1 DEF Line
      <4> QED
        BY <1>5, <2>2, <3>3, <4>1, <4>2
    <3>7. i \in 1..n \/ i = n + 1 \/ i \in (n + 2)..(n + (k + 1))
      BY <3>2
    <3> QED
      BY <3>4, <3>5, <3>6, <3>7
  <2> QED
    BY <2>1, <2>2
<1>9. Lines'
  BY <1>2, <1>8, BridgeLines
<1>10. Forms'
  <2>1. ASSUME NEW d \in Conns, NEW i \in 1..Len(unread'[d]), unread'[d][i].val \in Useful
        PROVE  unread'[d][i].cmd.kind = "top"
    <3>1. CASE d # c
      BY <1>7, <2>1, <3>1 DEF OnceInv, Forms
    <3>2. CASE d = c
      <4>1. i \in 1..(n + 1)
        BY <1>6, <3>2
      <4>2. i \in 1..n \/ i = n + 1
        BY <4>1
      <4> QED
        BY <1>3, <1>4, <1>6, <2>1, <3>2, <4>2 DEF OnceInv, Forms
    <3> QED
      BY <3>1, <3>2
  <2> QED
    BY <2>1 DEF Forms, Useful
<1>11. ASSUME NEW d \in Conns, unread[d] # <<>>
       PROVE  unread'[d] # <<>> /\ unread'[d][1] = unread[d][1]
  <2>1. CASE d # c
    BY <1>7, <1>11, <2>1
  <2>2. CASE d = c
    <3>1. n > 0
      BY <1>1, <1>4, <1>11, <2>2, HeadTail
    <3>2. 1 \in 1..n /\ n + 1 # 0
      BY <3>1
    <3>3. unread'[c] # <<>>
      BY <1>6, <3>2
    <3> QED
      BY <1>6, <2>2, <3>2, <3>3
  <2> QED
    BY <2>1, <2>2
<1>12. \A t \in Threads : ToReport(t)'
  BY <1>2, <1>8, <1>11, BridgeToReport
<1> QED
  BY <1>2, <1>9, <1>10, <1>12, ReportedStays DEF Orderly

\* A crash takes the ends off the lines.
LEMMA CrashOnce ==
    ASSUME OnceInv, [Next]_vars, Crash
    PROVE  Orderly' /\ \A t \in Threads : ToReport(t)'
<1>1. /\ UNCHANGED <<response, lastParsed, pc, sock, phase, next, allResults, at, unread>>
      /\ inbox' = [c \in Conns |-> <<>>]
  BY DEF Crash, client, thread, report
<1>2. ASSUME NEW c \in Conns, NEW i \in Places(c)'
      PROVE  i \in Places(c) /\ Line(c, i)' = Line(c, i)
  <2>1. PICK n \in Nat, k \in Nat : n = Len(unread[c]) /\ k = Len(inbox[c])
    BY LineType DEF OnceInv, IInv
  <2>2. i \in 1..n
    <3>1. Len(inbox'[c]) = 0 /\ Len(unread'[c]) = n
      BY <1>1, <2>1
    <3> QED
      BY <3>1 DEF Places
  <2>3. i <= n /\ i \in 1..(n + k)
    BY <2>2
  <2> QED
    BY <1>1, <2>1, <2>3 DEF Places, Line
<1>3. Lines'
  BY <1>1, <1>2, BridgeLines
<1>4. \A t \in Threads : ToReport(t)'
  BY <1>1, <1>2, BridgeToReport
<1> QED
  BY <1>1, <1>3, <1>4, ReportedStays, FormsStay DEF Orderly

LEMMA IdleOnce ==
    ASSUME OnceInv, [Next]_vars, Restart \/ UNCHANGED vars
    PROVE  Orderly' /\ \A t \in Threads : ToReport(t)'
<1>1. UNCHANGED <<response, lastParsed, pc, sock, phase, next, allResults, at, unread, inbox>>
  BY DEF Restart, vars, client, thread, report, wire
<1>2. ASSUME NEW c \in Conns, NEW i \in Places(c)'
      PROVE  i \in Places(c) /\ Line(c, i)' = Line(c, i)
  BY <1>1 DEF Places, Line
<1>3. \A t \in Threads : ToReport(t)'
  BY <1>1, <1>2, BridgeToReport
<1> QED
  BY <1>1, <1>3, QuietOrderly

-----------------------------------------------------------------------------
(* The theorem. *)

LEMMA InitOnce == Init => OnceInv
<1> SUFFICES ASSUME Init PROVE OnceInv
  OBVIOUS
<1>1. IInv
  BY InitTypeInv, InitPaired, InitInStep DEF IInv
<1>2. \A c \in Conns : Places(c) = {}
  BY DEF Init, Places
<1>3. OnLine /\ OneLine
  BY <1>2 DEF OnLine, OneLine
<1>4. Reported /\ ReportedOnce /\ Forms
  BY DEF Init, Reported, ReportedOnce, Forms
<1>5. \A t \in Threads : ToReport(t)
  BY DEF Init, ToReport, Parsing, Holding
<1> QED
  BY <1>1, <1>3, <1>4, <1>5 DEF OnceInv

LEMMA OnceStep ==
    ASSUME OnceInv, MaxParallel = 1, [Next]_vars
    PROVE  OnceInv'
<1>1. IInv'
  BY PairedStep DEF OnceInv
<1>2. ASSUME NEW t \in Threads, Begin(t) \/ Step(t)
      PROVE  Orderly' /\ ToReport(t)'
  BY <1>2, QuietOnce, ConnectOnce, SendOnce, ReadStdoutOnce, ReadTokenOnce, MisreadOnce,
     ReadsWhole, UseAnswerOnce DEF Step, Read, OnceInv
<1>3. ASSUME NEW t \in Threads, Begin(t) \/ Step(t)
      PROVE  Orderly' /\ \A u \in Threads : ToReport(u)'
  BY <1>2, <1>3, OthersHold
<1>4. ASSUME (\E c \in Conns : Serve(c)) \/ Crash \/ Restart \/ UNCHANGED vars
      PROVE  Orderly' /\ \A u \in Threads : ToReport(u)'
  BY <1>4, ServeOnce, CrashOnce, IdleOnce
<1>5. Orderly' /\ \A u \in Threads : ToReport(u)'
  BY <1>3, <1>4 DEF Next
<1> QED
  BY <1>1, <1>5 DEF OnceInv, Orderly, Lines

(* Executions that do not overlap never report one answer of ACL2 twice, not   *)
(* to two programs and not for two constructs of one, whatever was misread,    *)
(* however often ACL2 died and whatever a build left on its connection.        *)
THEOREM AnswersAreReportedOnce ==
    ASSUME MaxParallel = 1
    PROVE  Spec => []ReportedOnce
<1>1. OnceInv /\ [Next]_vars => OnceInv'
  BY OnceStep
<1>2. OnceInv => ReportedOnce
  BY DEF OnceInv
<1> QED
  BY <1>1, <1>2, InitOnce, PTL DEF Spec
=============================================================================
