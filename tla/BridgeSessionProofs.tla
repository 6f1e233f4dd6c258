------------------------- MODULE BridgeSessionProofs -------------------------
(***************************************************************************)
(* Theorems about BridgeSession, for any executions, builds, programs and  *)
(* answers of the bridge, any number of crashes and misread messages.      *)
(***************************************************************************)
EXTENDS BridgeSession, FiniteSetTheorems, SequenceTheorems, TLAPS

\* What the proofs use of the layouts.
LEMMA Layouts ==
    /\ Len(HelloLayout) = 8
    /\ Len(AnswerLayout) = 10
    /\ AnswerLayout[1] = "RETURN" /\ AnswerLayout[2] = "value"
    /\ \A k \in 1..8 : HelloLayout[k] \notin {"STDOUT", "value"}
    /\ \A k \in 1..10 : AnswerLayout[k] # "STDOUT"
    /\ \A k \in (1..10) \ {2} : AnswerLayout[k] # "value"
<1>1. /\ HelloLayout[1] = "HELLO" /\ HelloLayout[2] = "REA" /\ HelloLayout[3] = "D"
      /\ HelloLayout[4] = "Y" /\ HelloLayout[5] = "space" /\ HelloLayout[6] = "0"
      /\ HelloLayout[7] = "nl" /\ HelloLayout[8] = "nl"
  BY DEF HelloLayout, Ready
<1>2. Len(HelloLayout) = 8 /\ Len(AnswerLayout) = 10
  BY DEF HelloLayout, AnswerLayout, Ready
<1>3. /\ AnswerLayout[1] = "RETURN" /\ AnswerLayout[2] = "value" /\ AnswerLayout[3] = "nl"
      /\ AnswerLayout[4] = "REA" /\ AnswerLayout[5] = "D" /\ AnswerLayout[6] = "Y"
      /\ AnswerLayout[7] = "space" /\ AnswerLayout[8] = "0" /\ AnswerLayout[9] = "nl"
      /\ AnswerLayout[10] = "nl"
  BY DEF AnswerLayout, Ready
<1>4. \A k \in 1..8 : HelloLayout[k] \notin {"STDOUT", "value"}
  BY <1>1
<1>5. \A k \in 1..10 : AnswerLayout[k] # "STDOUT"
  BY <1>3
<1>6. \A k \in (1..10) \ {2} : AnswerLayout[k] # "value"
  BY <1>3
<1> QED
  BY <1>2, <1>3, <1>4, <1>5, <1>6

LEMMA LayoutLength ==
    ASSUME NEW m
    PROVE  Len(Layout(m)) \in {8, 10} /\ Len(Layout(m)) > 0
BY Layouts DEF Layout

\* The only value in a layout is the second token of an answer, and STDOUT is
\* in none.
LEMMA LayoutTokens ==
    ASSUME NEW m, NEW k \in Nat, k < Len(Layout(m))
    PROVE  /\ Layout(m)[k + 1] # "STDOUT"
           /\ Layout(m)[k + 1] = "value" => k = 1 /\ Layout(m) = AnswerLayout
<1>1. CASE Layout(m) = HelloLayout
  <2>1. k + 1 \in 1..8
    BY <1>1, Layouts
  <2> QED
    BY <1>1, <2>1, Layouts
<1>2. CASE Layout(m) = AnswerLayout
  <2>1. k + 1 \in 1..10
    BY <1>2, Layouts
  <2> QED
    BY <1>2, <2>1, Layouts
<1> QED
  BY <1>1, <1>2 DEF Layout

\* The first element of a nonempty sequence, and the rest.
LEMMA HeadTail ==
    ASSUME NEW S, NEW s \in Seq(S), s # <<>>
    PROVE  /\ Head(s) \in S /\ Head(s) = s[1] /\ s[1] \in S
           /\ Tail(s) \in Seq(S)
           /\ Len(s) \in Nat /\ Len(s) > 0 /\ Len(Tail(s)) = Len(s) - 1
OBVIOUS

LEMMA AppendHead ==
    ASSUME NEW S, NEW s \in Seq(S), NEW e \in S
    PROVE  /\ Append(s, e) \in Seq(S) /\ Append(s, e) # <<>>
           /\ s # <<>> => Head(Append(s, e)) = Head(s)
           /\ s = <<>> => Append(s, e) = <<e>> /\ Head(Append(s, e)) = e
<1>1. Append(s, e) \in Seq(S) /\ Append(s, e) # <<>>
  <2>1. Append(s, e) \in Seq(S) /\ Len(Append(s, e)) = Len(s) + 1 /\ Len(s) \in Nat
    OBVIOUS
  <2>2. Len(<<>>) = 0
    OBVIOUS
  <2> QED
    BY <2>1, <2>2
<1>2. Head(Append(s, e)) = Append(s, e)[1]
  BY <1>1
<1>3. ASSUME s # <<>> PROVE Head(Append(s, e)) = Head(s)
  BY <1>2, <1>3, HeadTail
<1>4. ASSUME s = <<>> PROVE Append(s, e) = <<e>> /\ Head(Append(s, e)) = e
  BY <1>2, <1>4
<1> QED
  BY <1>1, <1>3, <1>4

TypeInv == TypeOK /\ InRange

\* Where the reader of a socket stands in the message it reads.
LEMMA Position ==
    ASSUME TypeInv, NEW c \in Conns, unread[c] # <<>>
    PROVE  /\ unread[c] \in Seq(Messages) /\ Head(unread[c]) \in Messages
           /\ at[c] \in 0..9 /\ at[c] < Len(Layout(Head(unread[c])))
<1>1. unread[c] \in Seq(Messages) /\ at[c] \in 0..9
  BY DEF TypeInv, TypeOK
<1>2. at[c] < Len(Layout(Head(unread[c])))
  BY DEF TypeInv, InRange
<1> QED
  BY <1>1, <1>2, HeadTail

LEMMA InitTypeInv == Init => TypeInv
<1> SUFFICES ASSUME Init PROVE TypeInv
  OBVIOUS
<1>1. TypeOK
  <2>1. faults \in 0..MaxFaults
    BY BoundsAssumption DEF Init
  <2>2. /\ command \in Conns \cup {NoConn} /\ response \in Conns \cup {NoConn}
        /\ spoiled \subseteq Conns /\ torn \subseteq Conns /\ world \in Seq(Commands)
    BY DEF Init
  <2>6. isBridgeInitialized \in BOOLEAN /\ up \in BOOLEAN
    BY Zenon DEF Init
  <2>3. /\ pc \in [Threads -> PCs] /\ sock \in [Threads -> Conns \cup {NoConn}]
        /\ phase \in [Threads -> 0..9] /\ next \in [Threads -> Nat]
        /\ verdict \in [Threads -> Verdicts]
    BY DEF Init, PCs, Verdicts
  <2>4. /\ allResults \in [Threads -> Seq(Messages)]
        /\ lastParsed \in [Conns -> Messages \cup {Nothing}]
    BY DEF Init
  <2>5. /\ inbox \in [Conns -> Seq(Commands)] /\ unread \in [Conns -> Seq(Messages)]
        /\ at \in [Conns -> 0..9] /\ open \in [Conns -> BOOLEAN]
    BY DEF Init
  <2> QED
    BY <2>1, <2>2, <2>3, <2>4, <2>5, <2>6 DEF TypeOK
<1>2. InRange
  BY DEF Init, InRange, Reading
<1> QED
  BY <1>1, <1>2 DEF TypeInv

-----------------------------------------------------------------------------
LEMMA BeginType ==
    ASSUME TypeInv, NEW t \in Threads, Begin(t)
    PROVE  TypeInv'
BY ZenonT(40) DEF Begin, Finish, Goto, client, wire, bridge,
       TypeInv, TypeOK, InRange, PCs, Reading, Verdicts, Conns

LEMMA CheckBridgeConnectedType ==
    ASSUME TypeInv, NEW t \in Threads, CheckBridgeConnected(t)
    PROVE  TypeInv'
BY DEF CheckBridgeConnected, Goto, client, report, wire, bridge,
       TypeInv, TypeOK, InRange, PCs, Reading, Verdicts, Conns

LEMMA ConnectType ==
    ASSUME TypeInv, NEW t \in Threads, Connect(t)
    PROVE  TypeInv'
<1>1. <<Hello(t)>> \in Seq(Commands)
  BY DEF Hello, Commands
<1>2. CASE /\ open' = [open EXCEPT ![t] = TRUE]
           /\ inbox' = [inbox EXCEPT ![t] = <<Hello(t)>>]
           /\ command' = t
           /\ Goto(t, "swap")
           /\ UNCHANGED verdict
  <2>1. open' \in [Conns -> BOOLEAN]
    BY <1>2, Zenon DEF TypeInv, TypeOK, Conns
  <2>2. inbox' \in [Conns -> Seq(Commands)] /\ command' \in Conns
    BY <1>1, <1>2 DEF TypeInv, TypeOK, Conns
  <2>3. pc' \in [Threads -> PCs]
    BY <1>2 DEF Goto, TypeInv, TypeOK, PCs
  <2>4. TypeOK'
    BY <1>2, <2>1, <2>2, <2>3 DEF Connect, TypeInv, TypeOK
  <2>5. InRange'
    BY <1>2 DEF Connect, Goto, TypeInv, TypeOK, InRange, Reading
  <2> QED
    BY <2>4, <2>5 DEF TypeInv
<1>3. CASE Throw(t) /\ UNCHANGED <<open, inbox, command>>
  BY ZenonT(40), <1>3 DEF Connect, Throw, Goto, Finish, TypeInv, TypeOK, InRange, PCs, Reading, Verdicts
<1> QED
  BY <1>2, <1>3 DEF Connect

LEMMA SetResponseType ==
    ASSUME TypeInv, NEW t \in Threads, SetResponse(t)
    PROVE  TypeInv'
BY ThreadsAssumption DEF SetResponse, Goto, report, wire, bridge,
       TypeInv, TypeOK, InRange, PCs, Reading, Verdicts, Conns

\* A thread that throws reads no more.
LEMMA ThrowType ==
    ASSUME TypeInv, NEW t \in Threads, Throw(t)
    PROVE  /\ pc' \in [Threads -> PCs]
           /\ verdict' \in [Threads -> Verdicts]
           /\ pc'[t] \in {"program", "done"}
           /\ \A u \in Threads \ {t} : pc'[u] = pc[u]
BY DEF Throw, Goto, Finish, TypeInv, TypeOK, PCs, Verdicts

\* What a write does to the inboxes and to the thread.
LEMMA WriteType ==
    ASSUME TypeInv, NEW t \in Threads, NEW cmd \in Commands,
           NEW sent \in PCs \ (Reading \cup {"use"}), Write(t, cmd, sent)
    PROVE  /\ inbox' \in [Conns -> Seq(Commands)]
           /\ pc' \in [Threads -> PCs]
           /\ \A u \in Threads : pc'[u] \in Reading \cup {"use"} => pc'[u] = pc[u]
           /\ verdict' \in [Threads -> Verdicts]
<1>1. CASE command = NoConn
  BY ZenonT(40), <1>1 DEF Write, Throw, Goto, Finish, TypeInv, TypeOK, PCs, Reading, Verdicts
<1>2. CASE command # NoConn
  <2>1. command \in Conns
    BY <1>2 DEF TypeInv, TypeOK
  <2>2. inbox' \in [Conns -> Seq(Commands)]
    <3>1. Append(inbox[command], cmd) \in Seq(Commands)
      BY <2>1 DEF TypeInv, TypeOK
    <3>2. inbox' \in {inbox, [inbox EXCEPT ![command] = Append(inbox[command], cmd)]}
      BY <1>2 DEF Write
    <3> QED
      BY <3>1, <3>2 DEF TypeInv, TypeOK
  <2> QED
    BY <1>2, <2>2 DEF Write, Goto, TypeInv, TypeOK
<1> QED
  BY <1>1, <1>2

LEMMA SendResetType ==
    ASSUME TypeInv, NEW t \in Threads, SendReset(t)
    PROVE  TypeInv'
<1>1. /\ Reset(t) \in Commands /\ "resetSent" \in PCs \ (Reading \cup {"use"})
      /\ Write(t, Reset(t), "resetSent")
  BY DEF SendReset, Reset, Commands, PCs, Reading
<1>2. /\ inbox' \in [Conns -> Seq(Commands)]
      /\ pc' \in [Threads -> PCs]
      /\ \A u \in Threads : pc'[u] \in Reading \cup {"use"} => pc'[u] = pc[u]
      /\ verdict' \in [Threads -> Verdicts]
  BY <1>1, WriteType
<1> QED
  BY <1>2 DEF SendReset, client, bridge, TypeInv, TypeOK, InRange, Reading

LEMMA SendTopType ==
    ASSUME TypeInv, NEW t \in Threads, SendTop(t)
    PROVE  TypeInv'
<1>1. Top(t, next[t]) \in Commands /\ "topSent" \in PCs \ (Reading \cup {"use"})
  BY DEF Top, Commands, PCs, Reading, TypeInv, TypeOK
<1>2. /\ inbox' \in [Conns -> Seq(Commands)]
      /\ pc' \in [Threads -> PCs]
      /\ \A u \in Threads : pc'[u] \in Reading \cup {"use"} => pc'[u] = pc[u]
      /\ verdict' \in [Threads -> Verdicts]
  <2>1. CASE Write(t, Top(t, next[t]), "topSent")
    BY <1>1, <2>1, WriteType
  <2>2. CASE Throw(t) /\ UNCHANGED inbox
    BY <2>2, ThrowType DEF TypeInv, TypeOK, Reading
  <2> QED
    BY <2>1, <2>2 DEF SendTop
<1> QED
  BY <1>2 DEF SendTop, client, bridge, TypeInv, TypeOK, InRange, Reading

LEMMA BeginReadType ==
    ASSUME TypeInv, NEW t \in Threads, BeginRead(t)
    PROVE  TypeInv'
<1>1. CASE response = NoConn
  BY ZenonT(40), <1>1 DEF BeginRead, Throw, Goto, Finish, wire, bridge,
         TypeInv, TypeOK, InRange, PCs, Reading, Verdicts
<1>2. CASE response # NoConn
  <2>1. response \in Conns
    BY <1>2 DEF TypeInv, TypeOK
  <2>2. lastParsed' \in [Conns -> Messages \cup {Nothing}]
    BY <1>2, <2>1 DEF BeginRead, TypeInv, TypeOK
  <2>3. /\ pc' \in [Threads -> PCs]
        /\ \A u \in Threads \ {t} : pc'[u] = pc[u]
    <3>1. PICK where \in Reading : Goto(t, where)
      <4>1. CASE pc[t] = "hello"
        BY <1>2, <4>1 DEF BeginRead, Reading
      <4>2. CASE pc[t] = "resetSent"
        BY <1>2, <4>2 DEF BeginRead, Reading
      <4>3. CASE pc[t] = "topSent"
        BY <1>2, <4>3 DEF BeginRead, Reading
      <4> QED
        BY <4>1, <4>2, <4>3 DEF BeginRead
    <3> QED
      BY <3>1 DEF Goto, TypeInv, TypeOK, PCs
  <2>4. sock' = [sock EXCEPT ![t] = response] /\ phase' = [phase EXCEPT ![t] = 0]
    BY <1>2 DEF BeginRead
  <2>5. TypeOK'
    <3>1. sock' \in [Threads -> Conns \cup {NoConn}] /\ phase' \in [Threads -> 0..9]
      BY SMTT(30), <2>1, <2>4 DEF TypeInv, TypeOK
    <3> QED
      BY <1>2, <2>2, <2>3, <3>1 DEF BeginRead, wire, bridge, TypeInv, TypeOK
  <2>6. InRange'
    BY SMTT(30), <1>2, <2>3, <2>4, Layouts DEF BeginRead, wire, bridge, TypeInv, TypeOK, InRange, Reading
  <2> QED
    BY <2>5, <2>6 DEF TypeInv
<1> QED
  BY <1>1, <1>2

LEMMA ReadEOFType ==
    ASSUME TypeInv, NEW t \in Threads, ReadEOF(t)
    PROVE  TypeInv'
BY ZenonT(40) DEF ReadEOF, Throw, Goto, Finish, client, wire, bridge,
       TypeInv, TypeOK, InRange, PCs, Reading, Verdicts, Conns

LEMMA TranslateType ==
    ASSUME TypeInv, NEW t \in Threads, Translate(t)
    PROVE  TypeInv'
BY ZenonT(40) DEF Translate, Goto, Finish, client, wire, bridge,
       TypeInv, TypeOK, InRange, PCs, Reading, Verdicts, Conns

LEMMA ReadStdoutType ==
    ASSUME TypeInv, NEW t \in Threads, ReadStdout(t)
    PROVE  TypeInv'
<1> DEFINE c == sock[t]
           m == Head(unread[c])
           m1 == [m EXCEPT !.out = @ - 1]
<1>1. c \in Conns /\ unread[c] # <<>> /\ unread[c] \in Seq(Messages)
  BY DEF ReadStdout, TakesWhole, Readable, TypeInv, TypeOK, InRange
<1>2. m \in Messages /\ unread[c][1] = m /\ Len(unread[c]) \in Nat /\ Len(unread[c]) > 0
  BY <1>1, HeadTail
<1>3. m.out > 0
  <2>1. Layout(m)[at[c] + 1] # "STDOUT"
    <3>1. at[c] \in Nat /\ at[c] < Len(Layout(m))
      BY <1>1, Position
    <3> QED
      BY <3>1, LayoutTokens
  <2>2. m.out \in Nat
    BY <1>2 DEF Messages
  <2> QED
    BY <2>1, <2>2 DEF ReadStdout, Printed, NextToken, TokenAt
<1>4. m1 \in Messages /\ m1.cmd = m.cmd
  BY <1>2, <1>3 DEF Messages
<1>5. unread' = [unread EXCEPT ![c] = [@ EXCEPT ![1] = m1]]
  BY <1>1, <1>2 DEF ReadStdout
<1>6. [unread[c] EXCEPT ![1] = m1] \in Seq(Messages) /\ [unread[c] EXCEPT ![1] = m1] # <<>>
  BY <1>1, <1>2, <1>4
<1>7. Head([unread[c] EXCEPT ![1] = m1]) = m1
  BY <1>2, <1>6, HeadTail
<1>8. unread' \in [Conns -> Seq(Messages)]
  BY <1>5, <1>6 DEF TypeInv, TypeOK
<1>9. TypeOK'
  BY <1>8 DEF ReadStdout, client, thread, report, bridge, TypeInv, TypeOK
<1>10. Layout(m1) = Layout(m)
  BY <1>4 DEF Layout
<1>11. InRange'
  BY <1>1, <1>5, <1>6, <1>7, <1>10 DEF ReadStdout, client, thread, report, bridge, TypeInv, TypeOK, InRange
<1> QED
  BY <1>9, <1>11 DEF TypeInv

LEMMA NextPosition ==
    ASSUME NEW k \in 0..9, NEW n \in {8, 10}, k < n, k + 1 # n
    PROVE  k + 1 \in 0..9 /\ k + 1 < n
OBVIOUS

\* What consuming a token does to the stream of a socket.
LEMMA ConsumeType ==
    ASSUME TypeInv, NEW c \in Conns, unread[c] # <<>>, Consume(c)
    PROVE  /\ at' \in [Conns -> 0..9] /\ unread' \in [Conns -> Seq(Messages)]
           /\ \A d \in Conns :
                 IF unread'[d] = <<>> THEN at'[d] = 0
                                      ELSE at'[d] < Len(Layout(Head(unread'[d])))
<1> DEFINE m == Head(unread[c])
<1>1. /\ unread[c] \in Seq(Messages) /\ m \in Messages
      /\ at[c] \in 0..9 /\ at[c] < Len(Layout(m)) /\ Len(Layout(m)) \in {8, 10}
  BY Position, LayoutLength
<1>2. at \in [Conns -> 0..9] /\ unread \in [Conns -> Seq(Messages)]
  BY DEF TypeInv, TypeOK
<1>3. CASE at[c] + 1 = Len(Layout(m))
  <2>1. at' = [at EXCEPT ![c] = 0] /\ unread' = [unread EXCEPT ![c] = Tail(@)]
    BY <1>3 DEF Consume
  <2>2. Tail(unread[c]) \in Seq(Messages)
    BY <1>1, HeadTail
  <2>3. \A d : Len(Layout(d)) > 0
    BY LayoutLength
  <2> QED
    BY <1>2, <2>1, <2>2, <2>3 DEF TypeInv, InRange
<1>4. CASE at[c] + 1 # Len(Layout(m))
  <2>1. at' = [at EXCEPT ![c] = @ + 1] /\ unread' = unread
    BY <1>4 DEF Consume
  <2>2. at[c] + 1 \in 0..9 /\ at[c] + 1 < Len(Layout(m))
    BY <1>1, <1>4, NextPosition
  <2> QED
    BY <1>2, <2>1, <2>2 DEF TypeInv, InRange
<1> QED
  BY <1>3, <1>4

LEMMA MisreadType ==
    ASSUME TypeInv, NEW t \in Threads, Misread(t)
    PROVE  TypeInv'
<1>1. sock[t] \in Conns /\ unread[sock[t]] # <<>> /\ Consume(sock[t])
  BY DEF Misread, TakesWhole, Readable, TypeInv, TypeOK, InRange
<1>2. /\ at' \in [Conns -> 0..9] /\ unread' \in [Conns -> Seq(Messages)]
      /\ \A d \in Conns :
            IF unread'[d] = <<>> THEN at'[d] = 0
                                 ELSE at'[d] < Len(Layout(Head(unread'[d])))
  BY <1>1, ConsumeType
<1>3. /\ pc' \in [Threads -> PCs]
      /\ verdict' \in [Threads -> Verdicts]
      /\ pc'[t] \in {"program", "done"}
      /\ \A u \in Threads \ {t} : pc'[u] = pc[u]
  BY ThrowType DEF Misread
<1>4. phase' \in [Threads -> 0..9] /\ phase' = [phase EXCEPT ![t] = 0]
  BY DEF Misread, TypeInv, TypeOK
<1>5. TypeOK'
  BY <1>1, <1>2, <1>3, <1>4 DEF Misread, client, bridge, TypeInv, TypeOK
<1>6. InRange'
  BY <1>1, <1>2, <1>3, <1>4 DEF Misread, client, bridge, TypeInv, TypeOK, InRange, Reading
<1> QED
  BY <1>5, <1>6 DEF TypeInv

\* A read that returns.
LEMMA CompleteType ==
    ASSUME NEW t \in Threads, pc[t] \in Reading, Complete(t)
    PROVE  /\ \E where \in {"reset", "program", "use"} : Goto(t, where)
           /\ phase' = [phase EXCEPT ![t] = 0]
           /\ isBridgeInitialized' \in BOOLEAN
BY DEF Complete, Reading

LEMMA ReadTokenType ==
    ASSUME TypeInv, NEW t \in Threads, ReadToken(t)
    PROVE  TypeInv'
<1>1. /\ sock[t] \in Conns /\ unread[sock[t]] # <<>> /\ Consume(sock[t])
      /\ pc[t] \in Reading
  BY DEF ReadToken, TakesWhole, Readable, TypeInv, TypeOK, InRange
<1>2. /\ at' \in [Conns -> 0..9] /\ unread' \in [Conns -> Seq(Messages)]
      /\ \A d \in Conns :
            IF unread'[d] = <<>> THEN at'[d] = 0
                                 ELSE at'[d] < Len(Layout(Head(unread'[d])))
  BY <1>1, ConsumeType
<1>3. lastParsed' \in [Conns -> Messages \cup {Nothing}]
  <2>1. Head(unread[sock[t]]) \in Messages
    BY <1>1, Position
  <2>2. lastParsed' \in {lastParsed,
                         [lastParsed EXCEPT ![sock[t]] = Head(unread[sock[t]])]}
    BY DEF ReadToken
  <2> QED
    BY <1>1, <2>1, <2>2 DEF TypeInv, TypeOK
<1>4. CASE phase[t] + 1 = Len(Expected(t))
  <2>1. PICK where \in {"reset", "program", "use"} :
           Goto(t, where) /\ phase' = [phase EXCEPT ![t] = 0]
    BY <1>1, <1>4, CompleteType DEF ReadToken
  <2>2. isBridgeInitialized' \in BOOLEAN
    BY <1>1, <1>4, CompleteType DEF ReadToken
  <2>3. TypeOK'
    BY SMTT(30), <1>2, <1>3, <2>1, <2>2 DEF ReadToken, Goto, report, bridge, TypeInv, TypeOK, PCs
  <2>4. InRange'
    BY <1>1, <1>2, <2>1 DEF ReadToken, Goto, report, bridge, TypeInv, TypeOK, InRange, Reading
  <2> QED
    BY <2>3, <2>4 DEF TypeInv
<1>5. CASE phase[t] + 1 # Len(Expected(t))
  <2>1. phase' = [phase EXCEPT ![t] = @ + 1] /\ UNCHANGED <<pc, isBridgeInitialized>>
    BY <1>5 DEF ReadToken
  <2>2. phase[t] + 1 < Len(Expected(t)) /\ phase[t] + 1 \in 0..9
    <3>1. phase[t] \in 0..9 /\ Len(Expected(t)) \in {8, 10}
      BY Layouts DEF Expected, TypeInv, TypeOK
    <3>2. phase[t] < Len(Expected(t))
      <4>1. CASE pc[t] = "helloRead"
        BY <4>1 DEF Expected, TypeInv, InRange
      <4>2. CASE pc[t] # "helloRead"
        BY SMTT(30), <3>1, <4>2, Layouts DEF Expected
      <4> QED
        BY <4>1, <4>2
    <3> QED
      BY <1>5, <3>1, <3>2, NextPosition
  <2>3. TypeOK'
    BY <1>2, <1>3, <2>1, <2>2 DEF ReadToken, report, bridge, TypeInv, TypeOK
  <2>4. InRange'
    BY <1>1, <1>2, <2>1, <2>2 DEF ReadToken, Expected, report, bridge, TypeInv, TypeOK, InRange
  <2> QED
    BY <2>3, <2>4 DEF TypeInv
<1> QED
  BY <1>4, <1>5

\* A read in parts ends, well or not, or goes on with the next message.
LEMMA ReadPartMoves ==
    ASSUME TypeInv, NEW t \in Threads, ReadPart(t)
    PROVE  /\ pc' \in [Threads -> PCs]
           /\ verdict' \in [Threads -> Verdicts]
           /\ isBridgeInitialized' \in BOOLEAN
           /\ phase' = [phase EXCEPT ![t] = 0]
           /\ pc'[t] \in {pc[t], "reset", "program", "use", "done"}
           /\ \A u \in Threads \ {t} : pc'[u] = pc[u]
<1>1. /\ pc \in [Threads -> PCs] /\ verdict \in [Threads -> Verdicts]
      /\ isBridgeInitialized \in BOOLEAN /\ pc[t] \in Reading
  BY DEF ReadPart, Readable, TypeInv, TypeOK
<1>2. CASE /\ phase' = [phase EXCEPT ![t] = 0]
           /\ UNCHANGED <<pc, isBridgeInitialized, verdict>>
  BY <1>1, <1>2
<1>3. CASE Complete(t) /\ UNCHANGED verdict
  <2>1. PICK where \in {"reset", "program", "use"} : Goto(t, where)
    BY <1>1, <1>3, CompleteType
  <2>2. phase' = [phase EXCEPT ![t] = 0] /\ isBridgeInitialized' \in BOOLEAN
    BY <1>1, <1>3, CompleteType
  <2> QED
    BY <1>1, <1>3, <2>1, <2>2 DEF Goto, PCs
<1>4. CASE Throw(t) /\ phase' = [phase EXCEPT ![t] = 0] /\ UNCHANGED isBridgeInitialized
  BY <1>1, <1>4, ThrowType
<1> QED
  BY <1>2, <1>3, <1>4 DEF ReadPart

LEMMA ReadPartType ==
    ASSUME TypeInv, NEW t \in Threads, ReadPart(t)
    PROVE  TypeInv'
<1> DEFINE c == sock[t]
           m == Head(unread[c])
<1>1. /\ c \in Conns /\ unread[c] # <<>> /\ unread[c] \in Seq(Messages)
      /\ pc[t] \in Reading /\ m \in Messages /\ Tail(unread[c]) \in Seq(Messages)
  BY HeadTail DEF ReadPart, Readable, TypeInv, TypeOK, InRange
<1>2. /\ pc' \in [Threads -> PCs]
      /\ verdict' \in [Threads -> Verdicts]
      /\ isBridgeInitialized' \in BOOLEAN
      /\ phase' = [phase EXCEPT ![t] = 0]
      /\ pc'[t] \in {pc[t], "reset", "program", "use", "done"}
      /\ \A u \in Threads \ {t} : pc'[u] = pc[u]
  BY ReadPartMoves
<1>3. lastParsed' \in [Conns -> Messages \cup {Nothing}]
  <2>1. \A val \in Kinds : [m EXCEPT !.val = val] \in Messages
    BY <1>1, KindsAssumption DEF Messages
  <2>2. lastParsed' = lastParsed \/ \E val \in Kinds :
           lastParsed' = [lastParsed EXCEPT ![c] = [m EXCEPT !.val = val]]
    BY DEF ReadPart
  <2> QED
    BY <1>1, <2>1, <2>2 DEF TypeInv, TypeOK
<1>4. /\ unread' = unread \/ unread' = [unread EXCEPT ![c] = Tail(unread[c])]
      /\ at' = [at EXCEPT ![c] = 0]
  BY DEF ReadPart
<1>5. unread' \in [Conns -> Seq(Messages)] /\ at' \in [Conns -> 0..9]
  <2>1. at \in [Conns -> 0..9] /\ unread \in [Conns -> Seq(Messages)]
    BY DEF TypeInv, TypeOK
  <2>2. \A rest \in Seq(Messages) :
           [unread EXCEPT ![c] = rest] \in [Conns -> Seq(Messages)]
    BY <2>1
  <2>3. unread' \in [Conns -> Seq(Messages)]
    BY Zenon, <1>1, <1>4, <2>1, <2>2
  <2>4. at' \in [Conns -> 0..9]
    <3>1. at' = [at EXCEPT ![c] = 0] /\ 0 \in 0..9
      BY <1>4
    <3> QED
      BY <2>1, <3>1
  <2> QED
    BY <2>3, <2>4
<1>6. phase' \in [Threads -> 0..9]
  BY <1>2 DEF TypeInv, TypeOK
<1>7. TypeOK'
  BY <1>1, <1>2, <1>3, <1>5, <1>6 DEF ReadPart, bridge, TypeInv, TypeOK
<1>8. InRange'
  <2>1. \A d \in Conns : IF unread'[d] = <<>> THEN at'[d] = 0
                                             ELSE at'[d] < Len(Layout(Head(unread'[d])))
    <3>1. \A d : Len(Layout(d)) > 0
      BY LayoutLength, SMT
    <3> QED
      BY <1>1, <1>4, <3>1 DEF TypeInv, TypeOK, InRange
  <2>2. \A u \in Threads : /\ pc'[u] \in Reading => pc[u] \in Reading /\ pc'[u] = pc[u]
                           /\ pc'[u] = "use" => pc[u] \in Reading \cup {"use"}
    BY <1>1, <1>2 DEF Reading
  <2>3. phase'[t] = 0 /\ \A u \in Threads \ {t} : phase'[u] = phase[u]
    BY <1>2 DEF TypeInv, TypeOK
  <2>4. ASSUME NEW u \in Threads
        PROVE  /\ pc'[u] = "helloRead" => phase'[u] < Len(HelloLayout)
               /\ pc'[u] \in Reading => sock'[u] # NoConn
               /\ pc'[u] \in Reading \cup {"use"} => response' # NoConn
    <3>1. sock' = sock /\ response' = response
      BY DEF ReadPart
    <3>2. pc'[u] = "helloRead" => phase'[u] < Len(HelloLayout)
      <4>1. CASE u = t
        BY <2>3, <4>1, Layouts
      <4>2. CASE u # t
        BY <1>2, <2>3, <4>2 DEF TypeInv, InRange
      <4> QED
        BY <4>1, <4>2
    <3>3. (pc[u] \in Reading => sock[u] # NoConn)
          /\ (pc[u] \in Reading \cup {"use"} => response # NoConn)
      BY DEF TypeInv, InRange
    <3> QED
      BY <2>2, <3>1, <3>2, <3>3
  <2> QED
    BY <2>1, <2>4 DEF InRange
<1> QED
  BY <1>7, <1>8 DEF TypeInv

LEMMA UseAnswerType ==
    ASSUME TypeInv, NEW t \in Threads, UseAnswer(t)
    PROVE  TypeInv'
<1> DEFINE answer == lastParsed[response]
<1>1. response \in Conns /\ answer \in Messages \cup {Nothing}
  BY DEF UseAnswer, TypeInv, TypeOK, InRange
<1>2. CASE answer.val = "outcome" \/ (answer.val = "opaque" /\ t \in Executes)
  <2>1. answer \in Messages
    BY <1>1, <1>2 DEF Nothing
  <2>2. /\ allResults' = [allResults EXCEPT ![t] = Append(@, answer)]
        /\ next' = [next EXCEPT ![t] = @ + 1]
    BY <1>2 DEF UseAnswer
  <2>3. Append(allResults[t], answer) \in Seq(Messages)
    BY <2>1, AppendHead DEF TypeInv, TypeOK
  <2>4. allResults' \in [Threads -> Seq(Messages)] /\ next' \in [Threads -> Nat]
    BY <2>2, <2>3 DEF TypeInv, TypeOK
  <2>5. CASE Finish(t, "success")
    BY <1>2, <2>4, <2>5 DEF UseAnswer, Finish, Goto, client, wire, bridge,
           TypeInv, TypeOK, InRange, PCs, Reading, Verdicts
  <2>6. CASE Goto(t, "send") /\ UNCHANGED verdict
    BY <1>2, <2>4, <2>6 DEF UseAnswer, Goto, client, wire, bridge,
           TypeInv, TypeOK, InRange, PCs, Reading
  <2> QED
    BY <1>2, <2>5, <2>6 DEF UseAnswer
<1>3. CASE ~ (answer.val = "outcome" \/ (answer.val = "opaque" /\ t \in Executes))
  BY <1>3 DEF UseAnswer, Finish, Goto, client, wire, bridge,
         TypeInv, TypeOK, InRange, PCs, Reading, Verdicts
<1> QED
  BY <1>2, <1>3

LEMMA ServeType ==
    ASSUME TypeInv, NEW c \in Conns, Serve(c)
    PROVE  TypeInv'
<1> DEFINE cmd == Head(inbox[c])
           hello == cmd.kind = "hello"
           fault(val) == ~hello /\ val \in {"refused", "unreadable"}
           m(val, out) == [cmd |-> cmd,
                           val |-> IF fault(val) \/ cmd.kind = "top"
                                     THEN val ELSE "noform",
                           world |-> world,
                           out |-> IF hello THEN 0 ELSE out]
<1>1. cmd \in Commands /\ Tail(inbox[c]) \in Seq(Commands)
  BY HeadTail DEF Serve, TypeInv, TypeOK
<1>2. PICK val \in Kinds, out \in 0..MaxOut :
         /\ fault(val) => faults < MaxFaults
         /\ faults' = IF fault(val) THEN faults + 1 ELSE faults
         /\ unread' = [unread EXCEPT ![c] = Append(@, m(val, out))]
         /\ world' = IF hello \/ val = "refused" THEN world
                     ELSE IF cmd.kind = "reset" THEN <<>>
                     ELSE Append(world, cmd)
  BY DEF Serve
<1>3. m(val, out) \in Messages
  <2>1. val \in Values /\ "noform" \in Values /\ out \in Nat /\ world \in Seq(Commands)
    BY KindsAssumption, BoundsAssumption DEF Values, TypeInv, TypeOK
  <2> QED
    BY <1>1, <2>1 DEF Messages
<1> HIDE DEF m
<1>4. /\ unread[c] \in Seq(Messages)
      /\ Append(unread[c], m(val, out)) \in Seq(Messages)
      /\ Append(unread[c], m(val, out)) # <<>>
      /\ unread[c] # <<>> => Head(Append(unread[c], m(val, out))) = Head(unread[c])
  BY ZenonT(40), <1>3, AppendHead DEF TypeInv, TypeOK
<1>5. world' \in Seq(Commands)
  BY <1>1, <1>2, AppendHead DEF TypeInv, TypeOK
<1>6. faults' \in 0..MaxFaults
  BY <1>2, BoundsAssumption DEF TypeInv, TypeOK
<1>7. unread' \in [Conns -> Seq(Messages)] /\ inbox' \in [Conns -> Seq(Commands)]
  BY <1>1, <1>2, <1>4 DEF Serve, TypeInv, TypeOK
<1>8. TypeOK'
  BY <1>5, <1>6, <1>7 DEF Serve, client, thread, report, TypeInv, TypeOK
<1>9. InRange'
  <2>1. \A d : Len(Layout(d)) > 0
    BY LayoutLength, SMT
  <2>2. ASSUME NEW d \in Conns
        PROVE  IF unread'[d] = <<>> THEN at'[d] = 0
                                    ELSE at'[d] < Len(Layout(Head(unread'[d])))
    <3>1. CASE d # c
      BY <1>2, <3>1 DEF Serve, TypeInv, TypeOK, InRange
    <3>2. CASE d = c
      <4>1. unread'[c] = Append(unread[c], m(val, out)) /\ at' = at
        BY <1>2 DEF Serve, TypeInv, TypeOK
      <4> QED
        BY <1>4, <2>1, <3>2, <4>1 DEF TypeInv, InRange
    <3> QED
      BY <3>1, <3>2
  <2> QED
    BY <2>2 DEF Serve, client, thread, report, TypeInv, InRange
<1> QED
  BY <1>8, <1>9 DEF TypeInv

LEMMA CrashType ==
    ASSUME TypeInv, Crash
    PROVE  TypeInv'
<1>1. faults' \in 0..MaxFaults
  BY BoundsAssumption DEF Crash, TypeInv, TypeOK
<1>2. inbox' \in [Conns -> Seq(Commands)] /\ world' \in Seq(Commands)
  BY DEF Crash
<1>3. open' \in [Conns -> BOOLEAN] /\ up' \in BOOLEAN
  BY Zenon DEF Crash
<1>4. TypeOK'
  BY <1>1, <1>2, <1>3 DEF Crash, client, thread, report, TypeInv, TypeOK
<1>5. InRange'
  BY DEF Crash, client, thread, report, TypeInv, InRange
<1> QED
  BY <1>4, <1>5 DEF TypeInv

LEMMA RestartType ==
    ASSUME TypeInv, Restart
    PROVE  TypeInv'
BY DEF Restart, client, thread, report, wire, TypeInv, TypeOK, InRange

LEMMA StutterType ==
    ASSUME TypeInv, UNCHANGED vars
    PROVE  TypeInv'
BY DEF vars, client, thread, report, wire, bridge, TypeInv, TypeOK, InRange

LEMMA TypeStep ==
    ASSUME TypeInv, [Next]_vars
    PROVE  TypeInv'
<1>1. ASSUME NEW t \in Threads, Begin(t) PROVE TypeInv'
  BY <1>1, BeginType
<1>2. ASSUME NEW t \in Threads, Step(t) PROVE TypeInv'
  BY <1>2, CheckBridgeConnectedType, ConnectType, SetResponseType, SendResetType,
     SendTopType, BeginReadType, ReadStdoutType, ReadTokenType, MisreadType,
     ReadPartType, ReadEOFType, TranslateType, UseAnswerType DEF Step, Read
<1>3. ASSUME NEW c \in Conns, Serve(c) PROVE TypeInv'
  BY <1>3, ServeType
<1>4. CASE Crash
  BY <1>4, CrashType
<1>5. CASE Restart
  BY <1>5, RestartType
<1>6. CASE UNCHANGED vars
  BY <1>6, StutterType
<1> QED
  BY <1>1, <1>2, <1>3, <1>4, <1>5, <1>6 DEF Next

LEMMA TypeInvariant == Spec => []TypeInv
BY InitTypeInv, TypeStep, PTL DEF Spec

(* Every variable of the session keeps its type, for any number of threads,    *)
(* any programs and any answers, and the positions of readers in messages and  *)
(* layouts stay inside them: connectToBridge, the reads and the bridge's       *)
(* answers never leave a reader past the end of what it reads.                 *)
THEOREM TypeCorrect == Spec => []TypeOK
<1>1. TypeInv => TypeOK
  BY DEF TypeInv
<1> QED
  BY <1>1, TypeInvariant, PTL
=============================================================================
