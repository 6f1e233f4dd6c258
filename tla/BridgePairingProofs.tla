------------------------ MODULE BridgePairingProofs ------------------------
(***************************************************************************)
(* When executions do not overlap, commands and answers stay paired on     *)
(* every connection on which no message was misread, and characters are    *)
(* read in whole tokens on every connection.  The inductive invariant is   *)
(* PairedExchange with the types and with how readers stand to the stream, *)
(* misread or not; its proof reduces every step to the one thread that is  *)
(* running.                                                                *)
(***************************************************************************)
EXTENDS BridgeSessionProofs

Greeting == {"swap", "hello", "helloRead"}

\* A thread that has not read its greeting is on a socket of its own.
Greets ==
    \A t \in Threads :
        /\ pc[t] \in {"idle", "check", "connect"} \cup Greeting => t \notin spoiled
        /\ pc[t] \in Greeting => command = t

\* A greeting is on its way, or unread, only as long as its thread waits for it.
Greetings ==
    \A c \in Conns :
        /\ \A i \in 1..Len(unread[c]) : unread[c][i].cmd.kind = "hello"
              => pc[c] \in Greeting /\ unread[c][i].out = 0
        /\ \A i \in 1..Len(inbox[c]) : inbox[c][i].kind = "hello" => pc[c] \in Greeting

\* A reader past its first token has read as much of the message in front of it.
KeepsStep ==
    \A t \in Threads :
        pc[t] \in Reading /\ phase[t] > 0
            => unread[sock[t]] # <<>> /\ at[sock[t]] = phase[t]

\* No reader leaves a value next in the stream.
NoValueNext ==
    \A c \in Conns : at[c] = 1
        => \E t \in Threads : pc[t] \in Reading /\ sock[t] = c /\ phase[t] = 1

InStep == Greets /\ Greetings /\ KeepsStep /\ NoValueNext /\ TokensAreWhole

IInv == TypeInv /\ PairedExchange /\ InStep

\* What PairedExchange says of the thread that runs.
ForThread(t) ==
    /\ pc[t] = "swap" => command = t
    /\ pc[t] # "swap" => command = response
    /\ pc[t] \in Reading => sock[t] = response
    /\ command \notin spoiled /\ pc[t] \notin InFlight
          => command = NoConn \/ Silent(command)
    /\ command \notin spoiled /\ pc[t] \in InFlight
          => command # NoConn /\ Pending(command, Asked(t), Progress(t))
    /\ (/\ pc[t] = "use" \/ (pc[t] = "topRead" /\ phase[t] >= 2)
        /\ command \notin spoiled)
          => lastParsed[command].cmd = Top(t, next[t])

Resting(u) == pc[u] \in {"idle", "done"}

LEMMA OneThread ==
    ASSUME PairedExchange, NEW t \in Threads, ~Resting(t)
    PROVE  ForThread(t) /\ \A u \in Threads \ {t} : Resting(u)
<1>1. \A u \in Threads \ {t} : Resting(u)
  BY DEF PairedExchange, Alone, Active, Resting
<1>2. /\ pc[t] = "swap" => command = t
      /\ pc[t] # "swap" => command = response
      /\ pc[t] \in Reading => sock[t] = response
  BY <1>1 DEF PairedExchange, Swapping, OneConnection, ReadsCurrent, Resting
<1>3. command \notin spoiled /\ pc[t] \notin InFlight
          => command = NoConn \/ Silent(command)
  BY <1>1 DEF PairedExchange, Quiet, Resting, InFlight
<1>4. command \notin spoiled /\ pc[t] \in InFlight
          => command # NoConn /\ Pending(command, Asked(t), Progress(t))
  BY DEF PairedExchange, Exchange
<1>5. (/\ pc[t] = "use" \/ (pc[t] = "topRead" /\ phase[t] >= 2)
       /\ command \notin spoiled)
          => lastParsed[command].cmd = Top(t, next[t])
  BY DEF PairedExchange, Parsed
<1> QED
  BY <1>1, <1>2, <1>3, <1>4, <1>5 DEF ForThread

LEMMA Together ==
    ASSUME NEW t \in Threads, (\A u \in Threads \ {t} : Resting(u))', ForThread(t)',
           Abandoned', Unopened'
    PROVE  PairedExchange'
<1>1. Alone'
  BY DEF Alone, Active, Resting
<1>2. Swapping' /\ OneConnection' /\ ReadsCurrent'
  BY DEF Swapping, OneConnection, ReadsCurrent, ForThread, Resting, Reading
<1>3. Quiet'
  BY DEF Quiet, ForThread
<1>4. Exchange'
  BY DEF Exchange, ForThread, Resting, InFlight
<1>5. Parsed'
  BY DEF Parsed, ForThread, Resting
<1> QED
  BY <1>1, <1>2, <1>3, <1>4, <1>5 DEF PairedExchange

LEMMA InitPaired == Init => PairedExchange
<1> SUFFICES ASSUME Init PROVE PairedExchange
  OBVIOUS
<1>1. Alone /\ Swapping /\ Abandoned /\ OneConnection /\ ReadsCurrent
  BY DEF Init, Alone, Active, Swapping, Abandoned, OneConnection, ReadsCurrent, Reading
<1>2. Unopened
  BY ThreadsAssumption DEF Init, Unopened, Silent, Conns
<1>3. Quiet /\ Exchange /\ Parsed
  BY DEF Init, Quiet, Exchange, Parsed, InFlight
<1> QED
  BY <1>1, <1>2, <1>3 DEF PairedExchange

-----------------------------------------------------------------------------
(* The steps of the thread that runs. *)

LEMMA CheckBridgeConnectedPaired ==
    ASSUME IInv, NEW t \in Threads, CheckBridgeConnected(t)
    PROVE  PairedExchange'
<1>1. ForThread(t) /\ \A u \in Threads \ {t} : Resting(u)
  BY OneThread DEF IInv, CheckBridgeConnected, Resting
<1>2. PICK where \in {"reset", "connect"} : pc' = [pc EXCEPT ![t] = where]
  BY DEF CheckBridgeConnected, Goto
<1>3. (\A u \in Threads \ {t} : Resting(u))'
  BY <1>1, <1>2 DEF Resting
<1>4. ForThread(t)' /\ Abandoned' /\ Unopened'
  BY <1>1, <1>2 DEF CheckBridgeConnected, client, wire, bridge, ForThread, IInv,
     PairedExchange, Abandoned, Unopened, Silent, InFlight, Reading, TypeInv, TypeOK
<1> QED
  BY <1>3, <1>4, Together

LEMMA ConnectPaired ==
    ASSUME IInv, NEW t \in Threads, Connect(t)
    PROVE  PairedExchange'
<1>1. ForThread(t) /\ (\A u \in Threads \ {t} : Resting(u)) /\ pc[t] = "connect"
  BY OneThread DEF IInv, Connect, Resting
<1>2. CASE up
  <2>1. /\ open' = [open EXCEPT ![t] = TRUE]
        /\ inbox' = [inbox EXCEPT ![t] = <<Hello(t)>>]
        /\ command' = t
        /\ pc' = [pc EXCEPT ![t] = "swap"]
        /\ UNCHANGED <<response, unread, at, spoiled>>
    BY <1>2 DEF Connect, Goto
  <2>2. (\A u \in Threads \ {t} : Resting(u))' /\ pc'[t] = "swap"
    BY <1>1, <2>1 DEF Resting, IInv, TypeInv, TypeOK
  <2>3. Silent(t)
    BY <1>1 DEF IInv, PairedExchange, Unopened
  <2>4. Pending(t, Hello(t), 0)'
    BY <2>1, <2>3 DEF Pending, Silent, IInv, TypeInv, TypeOK, Conns
  <2>5. ForThread(t)'
    BY <2>1, <2>2, <2>4, ThreadsAssumption
       DEF ForThread, InFlight, Reading, Asked, Progress
  <2>6. Abandoned'
    BY <2>1 DEF IInv, PairedExchange, Abandoned, TypeInv, TypeOK, Conns
  <2>7. Unopened'
    BY <2>1, <2>2 DEF IInv, PairedExchange, Unopened, Silent, TypeInv, TypeOK, Conns
  <2> QED
    BY <2>2, <2>5, <2>6, <2>7, Together
<1>3. CASE ~up
  <2>1. Throw(t) /\ UNCHANGED <<command, response, inbox, open, unread, spoiled>>
    BY <1>3 DEF Connect
  <2>2. PICK where \in {"program", "done"} : pc' = [pc EXCEPT ![t] = where]
    BY <2>1 DEF Throw, Goto, Finish
  <2>3. (\A u \in Threads \ {t} : Resting(u))' /\ pc'[t] = where
    BY <1>1, <2>2 DEF Resting, IInv, TypeInv, TypeOK
  <2>4. ForThread(t)' /\ Abandoned' /\ Unopened'
    BY <1>1, <2>1, <2>2, <2>3 DEF ForThread, IInv,
     PairedExchange, Abandoned, Unopened, Silent, InFlight, Reading, TypeInv, TypeOK
  <2> QED
    BY <2>3, <2>4, Together
<1> QED
  BY <1>2, <1>3

LEMMA SetResponsePaired ==
    ASSUME IInv, NEW t \in Threads, SetResponse(t)
    PROVE  PairedExchange'
<1>1. ForThread(t) /\ (\A u \in Threads \ {t} : Resting(u)) /\ pc[t] = "swap"
  BY OneThread DEF IInv, SetResponse, Resting
<1>2. /\ pc' = [pc EXCEPT ![t] = "hello"] /\ response' = t
      /\ UNCHANGED <<command, inbox, unread, at, open, spoiled, sock, phase, next>>
  BY DEF SetResponse, Goto, wire, bridge
<1>3. (\A u \in Threads \ {t} : Resting(u))' /\ pc'[t] = "hello"
  BY <1>1, <1>2 DEF Resting, IInv, TypeInv, TypeOK
<1>4. command = t
  BY <1>1 DEF ForThread
<1>5. ForThread(t)'
  BY <1>1, <1>2, <1>3, <1>4 DEF ForThread, InFlight, Reading, Asked, Progress, Pending, Silent
<1>6. Abandoned' /\ Unopened'
  BY <1>2, <1>3, <1>4 DEF IInv, PairedExchange, Abandoned, Unopened, Silent, TypeInv, TypeOK
<1> QED
  BY <1>3, <1>5, <1>6, Together

\* A thread that awaits no answer leaves the connection as it is when it throws.
LEMMA ThrowPaired ==
    ASSUME IInv, NEW t \in Threads, ~Resting(t), pc[t] \notin InFlight, Throw(t),
           UNCHANGED <<command, response, inbox, unread, open, spoiled>>
    PROVE  PairedExchange'
<1>1. ForThread(t) /\ (\A u \in Threads \ {t} : Resting(u)) /\ pc[t] # "swap"
  BY OneThread DEF IInv, InFlight
<1>2. PICK where \in {"program", "done"} : pc' = [pc EXCEPT ![t] = where]
  BY DEF Throw, Goto, Finish
<1>3. (\A u \in Threads \ {t} : Resting(u))' /\ pc'[t] = where
  BY <1>1, <1>2 DEF Resting, IInv, TypeInv, TypeOK
<1>4. ForThread(t)'
  BY <1>1, <1>3 DEF ForThread, InFlight, Reading, Silent
<1>5. Abandoned' /\ Unopened'
  BY <1>2, <1>3 DEF IInv, PairedExchange, Abandoned, Unopened, Silent, TypeInv, TypeOK
<1> QED
  BY <1>3, <1>4, <1>5, Together

\* A command written on a silent connection is the only one in flight there.
LEMMA WritePaired ==
    ASSUME IInv, NEW t \in Threads, ~Resting(t), pc[t] \notin InFlight,
           pc[t] \notin {"check", "connect"},
           NEW cmd \in Commands, NEW sent \in {"resetSent", "topSent"},
           Write(t, cmd, sent),
           cmd = IF sent = "resetSent" THEN Reset(t) ELSE Top(t, next[t]),
           UNCHANGED <<command, response, unread, at, open, spoiled, sock, phase, next>>
    PROVE  PairedExchange'
<1>1. ForThread(t) /\ (\A u \in Threads \ {t} : Resting(u))
  BY OneThread DEF IInv
<1>2. CASE command = NoConn
  BY <1>2, ThrowPaired DEF Write
<1>3. CASE command # NoConn
  <2>1. command \in Conns
    BY <1>3 DEF IInv, TypeInv, TypeOK
  <2>2. /\ inbox' = IF open[command] THEN [inbox EXCEPT ![command] = Append(@, cmd)]
                                     ELSE inbox
        /\ pc' = [pc EXCEPT ![t] = sent]
    BY <1>3 DEF Write, Goto
  <2>3. (\A u \in Threads \ {t} : Resting(u))' /\ pc'[t] = sent
    BY <1>1, <2>2 DEF Resting, IInv, TypeInv, TypeOK
  <2>4. ASSUME command \notin spoiled PROVE Pending(command, cmd, 0)'
    <3>1. Silent(command)
      BY <1>1, <1>3, <2>4 DEF ForThread
    <3>2. CASE open[command]
      <4>1. inbox'[command] = <<cmd>>
        BY <2>1, <2>2, <3>1, <3>2, AppendHead DEF Silent, IInv, TypeInv, TypeOK
      <4> QED
        BY <3>1, <4>1 DEF Pending, Silent
    <3>3. CASE ~open[command]
      BY <2>2, <3>1, <3>3 DEF Pending, Silent
    <3> QED
      BY <3>2, <3>3
  <2>5. ForThread(t)'
    BY <1>1, <1>3, <2>3, <2>4 DEF ForThread, InFlight, Reading, Asked, Progress, Reset, Top
  <2>6. Abandoned'
    BY <2>1, <2>2 DEF IInv, PairedExchange, Abandoned, TypeInv, TypeOK
  <2>7. Unopened'
    BY <2>1, <2>2, <2>3 DEF IInv, PairedExchange, Unopened, Silent, TypeInv, TypeOK
  <2> QED
    BY <2>3, <2>5, <2>6, <2>7, Together
<1> QED
  BY <1>2, <1>3

LEMMA SendResetPaired ==
    ASSUME IInv, NEW t \in Threads, SendReset(t)
    PROVE  PairedExchange'
<1>1. Reset(t) \in Commands
  BY DEF Reset, Commands
<1>2. /\ pc[t] = "reset" /\ Write(t, Reset(t), "resetSent")
      /\ UNCHANGED <<command, response, unread, at, open, spoiled, sock, phase, next>>
  BY DEF SendReset, client, bridge
<1> QED
  BY <1>1, <1>2, WritePaired DEF Resting, InFlight

LEMMA SendTopPaired ==
    ASSUME IInv, NEW t \in Threads, SendTop(t)
    PROVE  PairedExchange'
<1>1. Top(t, next[t]) \in Commands
  BY DEF Top, Commands, IInv, TypeInv, TypeOK
<1>2. /\ pc[t] = "send"
      /\ UNCHANGED <<command, response, unread, at, open, spoiled, sock, phase, next>>
  BY DEF SendTop, client, bridge
<1>3. CASE Write(t, Top(t, next[t]), "topSent")
  BY <1>1, <1>2, <1>3, WritePaired DEF Resting, InFlight
<1>4. CASE Throw(t) /\ UNCHANGED inbox
  BY <1>2, <1>4, ThrowPaired DEF Resting, InFlight
<1> QED
  BY <1>3, <1>4 DEF SendTop

LEMMA BeginReadPaired ==
    ASSUME IInv, NEW t \in Threads, BeginRead(t)
    PROVE  PairedExchange'
<1>1. /\ ForThread(t) /\ (\A u \in Threads \ {t} : Resting(u))
      /\ pc[t] \in {"hello", "resetSent", "topSent"}
  BY OneThread DEF IInv, BeginRead, Resting
<1>2. UNCHANGED <<command, response, inbox, unread, at, open, spoiled, next>>
  BY DEF BeginRead, wire, bridge
<1>3. Abandoned'
  BY <1>2 DEF IInv, PairedExchange, Abandoned
<1>4. CASE response = NoConn
  <2>1. PICK where \in {"program", "done"} : pc' = [pc EXCEPT ![t] = where]
    BY <1>4 DEF BeginRead, Throw, Goto, Finish
  <2>2. (\A u \in Threads \ {t} : Resting(u))' /\ pc'[t] = where
    BY <1>1, <2>1 DEF Resting, IInv, TypeInv, TypeOK
  <2>3. command = NoConn
    BY <1>1, <1>4 DEF ForThread
  <2>4. ForThread(t)'
    BY <1>2, <1>4, <2>2, <2>3 DEF ForThread, InFlight, Reading
  <2>5. Unopened'
    BY <1>2, <2>1, <2>2 DEF IInv, PairedExchange, Unopened, Silent, TypeInv, TypeOK
  <2> QED
    BY <1>3, <2>2, <2>4, <2>5, Together
<1>5. CASE response # NoConn
  <2>1. PICK where : /\ pc' = [pc EXCEPT ![t] = where]
                     /\ where = CASE pc[t] = "hello" -> "helloRead"
                                  [] pc[t] = "resetSent" -> "resetRead"
                                  [] pc[t] = "topSent" -> "topRead"
    BY <1>5 DEF BeginRead, Goto
  <2>2. (\A u \in Threads \ {t} : Resting(u))' /\ pc'[t] = where
    BY <1>1, <2>1 DEF Resting, IInv, TypeInv, TypeOK
  <2>3. phase'[t] = 0 /\ sock'[t] = response
    BY <1>5 DEF BeginRead, IInv, TypeInv, TypeOK
  <2>4. Asked(t)' = Asked(t) /\ Progress(t)' = 0 /\ Progress(t) = 0
    BY <1>1, <1>2, <2>1, <2>2, <2>3 DEF Asked, Progress, Reading
  <2>5. where \in Reading
    BY <1>1, <2>1 DEF Reading
  <2>6. ForThread(t)'
    BY <1>1, <1>2, <2>2, <2>3, <2>4, <2>5
       DEF ForThread, InFlight, Reading, Pending, Silent
  <2>7. Unopened'
    BY <1>2, <2>1, <2>2, <2>5 DEF IInv, PairedExchange, Unopened, Silent, TypeInv, TypeOK, Reading
  <2> QED
    BY <1>3, <2>2, <2>6, <2>7, Together
<1> QED
  BY <1>4, <1>5

\* A thread that reads, reads the connection the commands go to.
LEMMA ReadsCommandSocket ==
    ASSUME IInv, NEW t \in Threads, Readable(t)
    PROVE  /\ ForThread(t) /\ (\A u \in Threads \ {t} : Resting(u))
           /\ pc[t] \in Reading /\ pc[t] \in InFlight
           /\ sock[t] = command /\ response = command /\ command \in Conns
           /\ unread[command] # <<>>
<1>1. pc[t] \in Reading /\ ~Resting(t) /\ pc[t] # "swap" /\ pc[t] \in InFlight
  BY DEF Readable, Reading, Resting, InFlight
<1>2. ForThread(t) /\ (\A u \in Threads \ {t} : Resting(u))
  BY <1>1, OneThread DEF IInv
<1>3. sock[t] = command /\ response = command
  BY <1>1, <1>2 DEF ForThread
<1>4. command # NoConn
  BY <1>1, <1>3 DEF IInv, TypeInv, InRange
<1> QED
  BY <1>1, <1>2, <1>3, <1>4 DEF Readable, IInv, TypeInv, TypeOK

\* What it reads, when nothing was misread: the answer to what it asked, from
\* where it stopped.
LEMMA ReadsItsAnswer ==
    ASSUME IInv, NEW t \in Threads, Readable(t), command \notin spoiled
    PROVE  /\ inbox[command] = <<>> /\ Len(unread[command]) = 1
           /\ unread[command] \in Seq(Messages)
           /\ unread[command][1] = Head(unread[command])
           /\ Head(unread[command]).cmd = Asked(t)
           /\ at[command] = phase[t] /\ phase[t] \in 0..9
           /\ Layout(Head(unread[command])) = Expected(t)
<1>1. /\ pc[t] \in Reading /\ command \in Conns /\ unread[command] # <<>>
      /\ Pending(command, Asked(t), Progress(t))
  BY ReadsCommandSocket DEF ForThread
<1>2. Progress(t) = phase[t] /\ phase[t] \in 0..9
  BY <1>1 DEF Progress, IInv, TypeInv, TypeOK
<1>3. /\ inbox[command] = <<>> /\ Len(unread[command]) = 1
      /\ unread[command][1].cmd = Asked(t) /\ at[command] = phase[t]
  BY <1>1, <1>2 DEF Pending, Silent
<1>4. unread[command] \in Seq(Messages) /\ unread[command][1] = Head(unread[command])
  BY <1>1, HeadTail DEF IInv, TypeInv, TypeOK
<1>5. Asked(t).kind = "hello" <=> pc[t] = "helloRead"
  BY <1>1 DEF Asked, Reading, Hello, Reset, Top
<1> QED
  BY <1>2, <1>3, <1>4, <1>5 DEF Layout, Expected

\* What follows the value of an answer.
LEMMA AnswerTail ==
    \A k \in 3..10 : AnswerLayout[k] \in {"nl", "REA", "D", "Y", "space", "0"}
<1>1. /\ AnswerLayout[3] = "nl" /\ AnswerLayout[4] = "REA" /\ AnswerLayout[5] = "D"
      /\ AnswerLayout[6] = "Y" /\ AnswerLayout[7] = "space" /\ AnswerLayout[8] = "0"
      /\ AnswerLayout[9] = "nl" /\ AnswerLayout[10] = "nl"
  BY DEF AnswerLayout, Ready
<1> QED
  BY <1>1

\* Where a reader stands in the message it reads: anywhere in an answer whose
\* beginning an earlier reader took, but not before its value; else, where it
\* stopped itself.
LEMMA ReaderStands ==
    ASSUME IInv, NEW t \in Threads, Readable(t)
    PROVE  LET m == Head(unread[command]) IN
           /\ m \in Messages /\ m = unread[command][1] /\ 1 \in 1..Len(unread[command])
           /\ phase[t] \in 0..9 /\ at[command] \in 0..9
           /\ phase[t] < Len(Expected(t)) /\ at[command] < Len(Layout(m))
           /\ Layout(m) = Expected(t)
           /\ pc[t] = "helloRead" => m.out = 0
           /\ \/ at[command] = phase[t]
              \/ phase[t] = 0 /\ at[command] >= 2 /\ pc[t] # "helloRead"
<1> DEFINE m == Head(unread[command])
<1>1. /\ ForThread(t) /\ (\A u \in Threads \ {t} : Resting(u)) /\ pc[t] \in Reading
      /\ sock[t] = command /\ command \in Conns /\ unread[command] # <<>>
  BY ReadsCommandSocket
<1>2. /\ m \in Messages /\ m = unread[command][1] /\ 1 \in 1..Len(unread[command])
      /\ phase[t] \in 0..9 /\ at[command] \in 0..9 /\ at[command] < Len(Layout(m))
  BY <1>1, HeadTail, Position DEF IInv, TypeInv, TypeOK
<1>3. phase[t] > 0 => at[command] = phase[t]
  BY <1>1 DEF IInv, InStep, KeepsStep
<1>4. CASE pc[t] = "helloRead"
  <2>1. command = t /\ command \notin spoiled
    BY <1>4 DEF IInv, InStep, Greets, Greeting
  <2>2. Layout(m) = Expected(t) /\ at[command] = phase[t] /\ m.cmd = Asked(t)
    BY <2>1, ReadsItsAnswer
  <2>3. m.cmd.kind = "hello"
    BY <1>4, <2>2 DEF Asked, Hello
  <2>4. m.out = 0
    BY <1>1, <1>2, <2>3 DEF IInv, InStep, Greetings
  <2> QED
    BY <1>2, <2>2, <2>4
<1>5. CASE pc[t] # "helloRead"
  <2>1. pc[command] \notin Greeting
    BY <1>1, <1>5 DEF Conns, Resting, Reading, Greeting
  <2>2. m.cmd.kind # "hello"
    BY <1>1, <1>2, <2>1 DEF IInv, InStep, Greetings
  <2>3. Layout(m) = Expected(t) /\ Len(Expected(t)) = 10
    BY <1>5, <2>2, Layouts DEF Layout, Expected
  <2>4. at[command] = 1 => phase[t] = 1
    BY <1>1 DEF IInv, InStep, NoValueNext, Resting, Reading
  <2> QED
    BY <1>2, <1>3, <1>5, <2>3, <2>4
<1> QED
  BY <1>4, <1>5

\* The next token, when the reader is in step and when not.
LEMMA ReaderTakes ==
    ASSUME IInv, NEW t \in Threads, Readable(t)
    PROVE  /\ at[command] = phase[t] /\ ~Printed(t) => NextToken(t) = Expects(t)
           /\ at[command] # phase[t] => /\ NextToken(t) \notin {"value", "RETURN"}
                                        /\ Expects(t) = "RETURN" /\ Unexpected(t)
                                        /\ NextToken(t) \notin Long \ {"REA"}
<1> DEFINE m == Head(unread[command])
<1>1. sock[t] = command
  BY ReadsCommandSocket
<1>2. /\ m \in Messages /\ phase[t] \in 0..9 /\ at[command] \in 0..9
      /\ at[command] < Len(Layout(m)) /\ Layout(m) = Expected(t)
      /\ pc[t] = "helloRead" => m.out = 0
      /\ \/ at[command] = phase[t]
         \/ phase[t] = 0 /\ at[command] >= 2 /\ pc[t] # "helloRead"
  BY ReaderStands
<1>3. NextToken(t) = TokenAt(m, at[command])
  BY <1>1 DEF NextToken
<1>4. CASE at[command] = phase[t]
  <2>1. CASE phase[t] = 0 /\ m.out > 0
    BY <1>2, <1>3, <1>4, <2>1 DEF Printed, TokenAt, Messages
  <2>2. CASE ~(phase[t] = 0 /\ m.out > 0)
    BY <1>2, <1>3, <1>4, <2>2 DEF TokenAt, Expects
  <2> QED
    BY <1>4, <2>1, <2>2
<1>5. CASE at[command] # phase[t]
  <2>1. phase[t] = 0 /\ at[command] >= 2 /\ Layout(m) = AnswerLayout
    BY <1>2, <1>5 DEF Expected
  <2>2. NextToken(t) = AnswerLayout[at[command] + 1]
    BY <1>2, <1>3, <2>1 DEF TokenAt
  <2>3. at[command] + 1 \in 3..10
    BY <1>2, <2>1, Layouts
  <2>4. NextToken(t) \in {"nl", "REA", "D", "Y", "space", "0"}
    BY <2>2, <2>3, AnswerTail
  <2>5. Expects(t) = "RETURN"
    BY <1>2, <2>1, Layouts DEF Expects
  <2> QED
    BY <1>5, <2>4, <2>5 DEF Unexpected, Printed, Long
<1> QED
  BY <1>4, <1>5

\* So a reader takes the tokens whole.
LEMMA ReadsWhole ==
    ASSUME IInv, NEW t \in Threads
    PROVE  ~ReadPart(t)
<1> SUFFICES ASSUME ReadPart(t) PROVE FALSE
  OBVIOUS
<1>1. Readable(t)
  BY DEF ReadPart
<1>2. torn = {}
  BY DEF IInv, InStep, TokensAreWhole
<1>3. ~Shared(t)
  BY <1>1, ReadsCommandSocket DEF Shared, Resting, Reading
<1>4. ~StopsInside(t)
  BY <1>1, ReaderTakes DEF StopsInside, Unexpected
<1> QED
  BY <1>2, <1>3, <1>4 DEF ReadPart

\* Reading moves nothing on the sockets of threads that have not connected.
LEMMA ReadKeepsUnopened ==
    ASSUME IInv, NEW t \in Threads, Readable(t),
           \A d \in Conns \ {command} : unread'[d] = unread[d],
           \A u \in Threads : pc'[u] \in {"idle", "check", "connect"} => pc'[u] = pc[u],
           UNCHANGED <<command, response, inbox, open>>
    PROVE  Abandoned' /\ Unopened'
BY DEF IInv, PairedExchange, Abandoned, Unopened, Silent, Conns

LEMMA ReadStdoutPaired ==
    ASSUME IInv, NEW t \in Threads, ReadStdout(t)
    PROVE  PairedExchange'
<1>1. /\ ForThread(t) /\ (\A u \in Threads \ {t} : Resting(u))
      /\ sock[t] = command /\ response = command /\ command \in Conns
      /\ unread[command] # <<>> /\ pc[t] \in InFlight /\ Readable(t)
  BY ReadsCommandSocket DEF ReadStdout, TakesWhole
<1>2. /\ UNCHANGED <<command, response, lastParsed, pc, sock, phase, next, inbox,
                     at, open, spoiled>>
      /\ unread' = [unread EXCEPT ![command][1].out = @ - 1]
  BY <1>1 DEF ReadStdout, client, thread, bridge
<1>3. (\A u \in Threads \ {t} : Resting(u))'
  BY <1>1, <1>2 DEF Resting
<1>4. Abandoned' /\ Unopened'
  BY <1>1, <1>2, ReadKeepsUnopened DEF IInv, TypeInv, TypeOK
<1>5. ASSUME command \notin spoiled
      PROVE  Pending(command, Asked(t), Progress(t))'
  <2>1. /\ inbox[command] = <<>> /\ Len(unread[command]) = 1
        /\ unread[command] \in Seq(Messages)
        /\ unread[command][1].cmd = Asked(t) /\ at[command] = phase[t]
        /\ unread[command][1] \in Messages
    BY <1>1, <1>5, ReadsItsAnswer, HeadTail
  <2>2. unread'[command] = [unread[command] EXCEPT ![1].out = @ - 1]
    BY <1>1, <1>2 DEF IInv, TypeInv, TypeOK
  <2>3. Len(unread'[command]) = 1 /\ unread'[command][1].cmd = Asked(t)
    BY <2>1, <2>2 DEF Messages
  <2>4. Asked(t)' = Asked(t) /\ Progress(t)' = phase[t]
    BY <1>2, ReadsCommandSocket DEF Asked, Progress, ReadStdout, TakesWhole
  <2> QED
    BY <1>2, <2>1, <2>3, <2>4 DEF Pending
<1>6. phase[t] = 0
  BY DEF ReadStdout, Printed
<1>7. ForThread(t)'
  BY <1>1, <1>2, <1>5, <1>6 DEF ForThread, InFlight
<1> QED
  BY <1>3, <1>4, <1>7, Together

LEMMA MisreadPaired ==
    ASSUME IInv, NEW t \in Threads, Misread(t)
    PROVE  PairedExchange'
<1>1. /\ ForThread(t) /\ (\A u \in Threads \ {t} : Resting(u))
      /\ sock[t] = command /\ response = command /\ command \in Conns /\ Readable(t)
  BY ReadsCommandSocket DEF Misread, TakesWhole
<1>2. /\ UNCHANGED <<command, response, inbox, open>>
      /\ spoiled' = spoiled \cup {command}
      /\ \A d \in Conns \ {command} : unread'[d] = unread[d]
  BY <1>1 DEF Misread, Consume, client, bridge, IInv, TypeInv, TypeOK
<1>3. PICK where \in {"program", "done"} : pc' = [pc EXCEPT ![t] = where]
  BY DEF Misread, Throw, Goto, Finish
<1>4. (\A u \in Threads \ {t} : Resting(u))' /\ pc'[t] = where
  BY <1>1, <1>3 DEF Resting, IInv, TypeInv, TypeOK
<1>5. ForThread(t)'
  BY <1>1, <1>2, <1>4 DEF ForThread, Reading
<1>6. Abandoned' /\ Unopened'
  <2>1. \A u \in Threads : pc'[u] \in {"idle", "check", "connect"} => pc'[u] = pc[u]
    BY <1>3, <1>4 DEF IInv, TypeInv, TypeOK
  <2> QED
    BY <1>1, <1>2, <2>1, ReadKeepsUnopened
<1> QED
  BY <1>4, <1>5, <1>6, Together

LEMMA ReadEOFPaired ==
    ASSUME IInv, NEW t \in Threads, ReadEOF(t)
    PROVE  PairedExchange'
<1>1. /\ ForThread(t) /\ (\A u \in Threads \ {t} : Resting(u))
      /\ pc[t] \in Reading /\ pc[t] \in InFlight
  BY OneThread DEF IInv, ReadEOF, Reading, Resting, InFlight
<1>2. sock[t] = command /\ response = command /\ command \in Conns
  BY <1>1 DEF ForThread, Reading, IInv, TypeInv, TypeOK, InRange
<1>3. UNCHANGED <<command, response, inbox, unread, at, open, spoiled>>
  BY DEF ReadEOF, client, wire, bridge
<1>4. PICK where \in {"program", "done"} : pc' = [pc EXCEPT ![t] = where]
  BY DEF ReadEOF, Throw, Goto, Finish
<1>5. (\A u \in Threads \ {t} : Resting(u))' /\ pc'[t] = where
  BY <1>1, <1>4 DEF Resting, IInv, TypeInv, TypeOK
<1>6. Silent(command)
  BY <1>2 DEF ReadEOF, Silent, IInv, PairedExchange, Abandoned
<1>7. ForThread(t)'
  BY <1>2, <1>3, <1>5, <1>6 DEF ForThread, Reading, InFlight, Silent
<1>8. Abandoned' /\ Unopened'
  BY <1>3, <1>4, <1>5 DEF IInv, PairedExchange, Abandoned, Unopened, Silent, TypeInv, TypeOK
<1> QED
  BY <1>5, <1>7, <1>8, Together

LEMMA ReadTokenPaired ==
    ASSUME IInv, NEW t \in Threads, ReadToken(t)
    PROVE  PairedExchange'
<1> DEFINE m == Head(unread[command])
<1>1. /\ ForThread(t) /\ (\A u \in Threads \ {t} : Resting(u))
      /\ sock[t] = command /\ response = command /\ command \in Conns
      /\ unread[command] # <<>> /\ pc[t] \in Reading /\ Readable(t)
  BY ReadsCommandSocket DEF ReadToken, TakesWhole
<1>2. UNCHANGED <<command, response, sock, next, inbox, open, spoiled>>
  BY DEF ReadToken, bridge
<1>3. \A d \in Conns \ {command} : unread'[d] = unread[d]
  BY <1>1 DEF ReadToken, Consume, IInv, TypeInv, TypeOK
<1>4. PICK where \in Reading \cup {"reset", "program", "use"} :
         /\ pc' = [pc EXCEPT ![t] = where]
         /\ IF phase[t] + 1 = Len(Expected(t))
              THEN where \in {"reset", "program"} \/ (where = "use" /\ pc[t] = "topRead")
              ELSE where = pc[t]
  <2>1. CASE phase[t] + 1 = Len(Expected(t))
    BY <1>1, <2>1 DEF ReadToken, Complete, Goto, Reading
  <2>2. CASE phase[t] + 1 # Len(Expected(t))
    <3>1. pc' = [pc EXCEPT ![t] = pc[t]]
      BY <2>2 DEF ReadToken, IInv, TypeInv, TypeOK
    <3> QED
      BY <1>1, <2>2, <3>1
  <2> QED
    BY <2>1, <2>2
<1>5. (\A u \in Threads \ {t} : Resting(u))' /\ pc'[t] = where
  BY <1>1, <1>4 DEF Resting, IInv, TypeInv, TypeOK
<1>6. Abandoned' /\ Unopened'
  <2>1. \A u \in Threads : pc'[u] \in {"idle", "check", "connect"} => pc'[u] = pc[u]
    BY <1>4, <1>5 DEF Reading, IInv, TypeInv, TypeOK
  <2> QED
    BY <1>1, <1>2, <1>3, <2>1, ReadKeepsUnopened
<1>7. CASE command \in spoiled
  <2>1. ForThread(t)'
    BY <1>1, <1>2, <1>4, <1>5, <1>7 DEF ForThread, Reading
  <2> QED
    BY <1>5, <1>6, <2>1, Together
<1>8. CASE command \notin spoiled
  <2>1. /\ inbox[command] = <<>> /\ Len(unread[command]) = 1
        /\ unread[command] \in Seq(Messages)
        /\ unread[command][1] = m /\ m.cmd = Asked(t)
        /\ at[command] = phase[t] /\ phase[t] \in 0..9
        /\ Layout(m) = Expected(t)
    BY <1>1, <1>8, ReadsItsAnswer
  <2>2. Consume(command)
    BY <1>1 DEF ReadToken
  <2>3. NextToken(t) = TokenAt(m, phase[t])
    BY <1>1, <2>1 DEF NextToken
  <2>4. phase[t] < Len(Layout(m))
    BY <1>1, <2>1, Position DEF IInv
  <2>5. phase[t] >= 2 => NextToken(t) # "value"
    BY <2>1, <2>3, <2>4, LayoutTokens DEF TokenAt
  <2>6. CASE phase[t] + 1 = Len(Expected(t))
    <3>1. where \in {"reset", "program"} \/ (where = "use" /\ pc[t] = "topRead")
      BY <1>4, <2>6
    <3>2. unread'[command] = <<>>
      <4>1. unread'[command] = Tail(unread[command])
        BY <1>1, <2>1, <2>2, <2>6 DEF Consume, IInv, TypeInv, TypeOK
      <4>2. Tail(unread[command]) \in Seq(Messages) /\ Len(Tail(unread[command])) = 0
        BY <1>1, <2>1, HeadTail
      <4> QED
        BY <4>1, <4>2, EmptySeq
    <3>3. Silent(command)'
      BY <1>2, <2>1, <3>2 DEF Silent
    <3>4. ASSUME pc[t] = "topRead"
          PROVE  lastParsed'[command].cmd = Top(t, next[t])
      <4>1. phase[t] = 9
        <5>1. Len(Expected(t)) = 10
          BY <3>4, Layouts DEF Expected
        <5> QED
          BY <2>1, <2>6, <5>1
      <4>2. lastParsed' = lastParsed
        BY <2>5, <4>1 DEF ReadToken
      <4> QED
        BY <1>1, <1>8, <3>4, <4>1, <4>2 DEF ForThread
    <3>5. ForThread(t)'
      BY <1>1, <1>2, <1>5, <3>1, <3>3, <3>4 DEF ForThread, Reading, InFlight, Top
    <3> QED
      BY <1>5, <1>6, <3>5, Together
  <2>7. CASE phase[t] + 1 # Len(Expected(t))
    <3>1. /\ where = pc[t] /\ unread' = unread /\ at'[command] = at[command] + 1
          /\ phase'[t] = phase[t] + 1
      BY <1>1, <1>4, <2>1, <2>2, <2>7 DEF ReadToken, Consume, IInv, TypeInv, TypeOK
    <3>2. Asked(t)' = Asked(t) /\ Progress(t)' = phase[t] + 1
      BY <1>1, <1>2, <1>5, <3>1 DEF Asked, Progress
    <3>3. Pending(command, Asked(t), Progress(t))'
      BY <1>2, <2>1, <3>1, <3>2 DEF Pending
    <3>4. ASSUME pc[t] = "topRead", phase[t] + 1 >= 2
          PROVE  lastParsed'[command].cmd = Top(t, next[t])
      <4>1. CASE phase[t] = 1
        <5>1. NextToken(t) = "value"
          BY <2>1, <2>3, <3>4, <4>1, Layouts DEF TokenAt, Expected
        <5>2. lastParsed'[command] = m
          BY <1>1, <5>1 DEF ReadToken, IInv, TypeInv, TypeOK
        <5> QED
          BY <2>1, <3>4, <5>2 DEF Asked
      <4>2. CASE phase[t] # 1
        <5>1. phase[t] >= 2
          BY <2>1, <3>4, <4>2
        <5>2. lastParsed' = lastParsed
          BY <2>5, <5>1 DEF ReadToken
        <5> QED
          BY <1>1, <1>8, <3>4, <5>1, <5>2 DEF ForThread
      <4> QED
        BY <4>1, <4>2
    <3>5. ForThread(t)'
      BY <1>1, <1>2, <1>5, <3>1, <3>3, <3>4, ReadsCommandSocket
         DEF ForThread, Reading, InFlight, Top
    <3> QED
      BY <1>5, <1>6, <3>5, Together
  <2> QED
    BY <2>6, <2>7
<1> QED
  BY <1>7, <1>8

LEMMA TranslatePaired ==
    ASSUME IInv, NEW t \in Threads, Translate(t)
    PROVE  PairedExchange'
<1>1. ForThread(t) /\ (\A u \in Threads \ {t} : Resting(u)) /\ pc[t] = "program"
  BY OneThread DEF IInv, Translate, Resting
<1>2. PICK where \in {"send", "done"} : pc' = [pc EXCEPT ![t] = where]
  BY DEF Translate, Goto, Finish
<1>3. (\A u \in Threads \ {t} : Resting(u))' /\ pc'[t] = where
  BY <1>1, <1>2 DEF Resting, IInv, TypeInv, TypeOK
<1>4. UNCHANGED <<command, response, inbox, unread, open, spoiled>>
  BY DEF Translate, client, wire, bridge
<1>5. ForThread(t)'
  BY <1>1, <1>3, <1>4 DEF ForThread, Reading, InFlight, Silent
<1>6. Abandoned' /\ Unopened'
  BY <1>2, <1>3, <1>4 DEF IInv, PairedExchange, Abandoned, Unopened, Silent, TypeInv, TypeOK
<1> QED
  BY <1>3, <1>5, <1>6, Together

LEMMA UseAnswerPaired ==
    ASSUME IInv, NEW t \in Threads, UseAnswer(t)
    PROVE  PairedExchange'
<1>1. ForThread(t) /\ (\A u \in Threads \ {t} : Resting(u)) /\ pc[t] = "use"
  BY OneThread DEF IInv, UseAnswer, Resting
<1>2. PICK where \in {"send", "done"} : pc' = [pc EXCEPT ![t] = where]
  BY DEF UseAnswer, Goto, Finish
<1>3. (\A u \in Threads \ {t} : Resting(u))' /\ pc'[t] = where
  BY <1>1, <1>2 DEF Resting, IInv, TypeInv, TypeOK
<1>4. UNCHANGED <<command, response, inbox, unread, open, spoiled>>
  BY DEF UseAnswer, client, wire, bridge
<1>5. ForThread(t)'
  BY <1>1, <1>2, <1>3, <1>4 DEF ForThread, Reading, InFlight, Silent
<1>6. Abandoned' /\ Unopened'
  BY <1>2, <1>3, <1>4 DEF IInv, PairedExchange, Abandoned, Unopened, Silent, TypeInv, TypeOK
<1> QED
  BY <1>3, <1>5, <1>6, Together

-----------------------------------------------------------------------------
(* The beginning of an execution, and the steps of the bridge. *)

\* Without overlap, a thread begins only when every other one rests.
LEMMA BeginsAlone ==
    ASSUME IInv, MaxParallel = 1, NEW t \in Threads, Begin(t)
    PROVE  Active = {}
<1>1. CASE t \in Builds
  BY <1>1 DEF Begin
<1>2. CASE t \notin Builds
  <2>1. Cardinality(Active) < 1
    BY <1>2 DEF Begin
  <2>2. IsFiniteSet(Active) /\ Cardinality(Active) \in Nat
    BY ThreadsAssumption, FS_Subset, FS_CardinalityType DEF Active
  <2>3. Cardinality(Active) = 0
    BY <2>1, <2>2
  <2> QED
    BY <2>2, <2>3, FS_EmptySet
<1> QED
  BY <1>1, <1>2

LEMMA BeginPaired ==
    ASSUME IInv, MaxParallel = 1, NEW t \in Threads, Begin(t)
    PROVE  PairedExchange'
<1>1. (\A u \in Threads : Resting(u)) /\ pc[t] = "idle"
  BY BeginsAlone DEF Active, Resting, Begin
<1>2. PICK where \in {"check", "connect", "done"} : pc' = [pc EXCEPT ![t] = where]
  BY DEF Begin, Goto, Finish
<1>3. (\A u \in Threads \ {t} : Resting(u))' /\ pc'[t] = where
  BY <1>1, <1>2 DEF Resting, IInv, TypeInv, TypeOK
<1>4. UNCHANGED <<command, response, inbox, unread, open, spoiled>>
  BY DEF Begin, client, wire, bridge
<1>5. /\ command = response
      /\ command \notin spoiled => command = NoConn \/ Silent(command)
  BY <1>1 DEF IInv, PairedExchange, OneConnection, Quiet, Resting, InFlight
<1>6. ForThread(t)'
  BY <1>3, <1>4, <1>5 DEF ForThread, Reading, InFlight, Silent
<1>7. Abandoned' /\ Unopened'
  BY <1>1, <1>2, <1>3, <1>4 DEF IInv, PairedExchange, Abandoned, Unopened, Silent,
     TypeInv, TypeOK
<1> QED
  BY <1>3, <1>6, <1>7, Together

\* The client's half of the state, as the steps of the bridge leave it.
ClientUnchanged ==
    UNCHANGED <<command, response, lastParsed, pc, sock, phase, next, spoiled>>

LEMMA BridgeSteps ==
    ASSUME IInv, ClientUnchanged, Abandoned',
           \A c \in Conns : Silent(c) => Silent(c)',
           \A c \in Conns : \A cmd, k : Pending(c, cmd, k) => Pending(c, cmd, k)'
    PROVE  PairedExchange'
<1>1. Alone' /\ Swapping' /\ OneConnection' /\ ReadsCurrent'
  BY DEF IInv, ClientUnchanged, PairedExchange, Alone, Active, Swapping, OneConnection,
     ReadsCurrent
<1>2. Unopened'
  BY DEF IInv, ClientUnchanged, PairedExchange, Unopened, Conns
<1>3. command \in Conns \cup {NoConn} /\ command' = command
  BY DEF IInv, ClientUnchanged, TypeInv, TypeOK
<1>4. Quiet'
  BY <1>3 DEF IInv, ClientUnchanged, PairedExchange, Quiet
<1>5. Exchange'
  <2>1. \A t \in Threads : Asked(t)' = Asked(t) /\ Progress(t)' = Progress(t)
    BY DEF ClientUnchanged, Asked, Progress
  <2>2. SUFFICES ASSUME NEW t \in Threads, pc[t] \in InFlight, command \notin spoiled
                 PROVE  command # NoConn /\ Pending(command, Asked(t), Progress(t))'
    BY DEF Exchange, ClientUnchanged
  <2>3. command # NoConn /\ Pending(command, Asked(t), Progress(t))
    BY <2>2 DEF IInv, PairedExchange, Exchange
  <2>4. PICK c, cmd, k : c = command /\ cmd = Asked(t) /\ k = Progress(t)
    OBVIOUS
  <2>5. Pending(c, cmd, k)'
    BY <1>3, <2>3, <2>4
  <2>6. command' = c /\ Asked(t)' = cmd /\ Progress(t)' = k
    BY <1>3, <2>1, <2>4
  <2> QED
    BY <2>3, <2>5, <2>6 DEF Pending, Silent
<1>6. Parsed'
  BY DEF IInv, ClientUnchanged, PairedExchange, Parsed
<1> QED
  BY <1>1, <1>2, <1>4, <1>5, <1>6 DEF PairedExchange

LEMMA ServePaired ==
    ASSUME IInv, NEW c \in Conns, Serve(c)
    PROVE  PairedExchange'
<1>1. ClientUnchanged /\ open[c] /\ inbox[c] # <<>> /\ UNCHANGED <<at, open>>
  BY DEF Serve, client, thread, ClientUnchanged
<1>2. PICK m : m.cmd = Head(inbox[c]) /\ unread' = [unread EXCEPT ![c] = Append(@, m)]
  BY DEF Serve
<1>3. inbox' = [inbox EXCEPT ![c] = Tail(@)]
  BY DEF Serve
<1>4. Abandoned'
  BY <1>1, <1>3 DEF IInv, PairedExchange, Abandoned, TypeInv, TypeOK
<1>5. ASSUME NEW d \in Conns, Silent(d) PROVE Silent(d)'
  BY <1>1, <1>2, <1>3, <1>5 DEF Silent, IInv, TypeInv, TypeOK
<1>6. ASSUME NEW d \in Conns, NEW cmd, NEW k, Pending(d, cmd, k)
      PROVE  Pending(d, cmd, k)'
  <2>1. CASE d # c
    BY <1>1, <1>2, <1>3, <1>6, <2>1 DEF Pending, Silent, IInv, TypeInv, TypeOK
  <2>2. CASE d = c
    <3>1. k = 0 /\ inbox[c] = <<cmd>> /\ unread[c] = <<>>
      BY <1>1, <1>6, <2>2 DEF Pending, Silent
    <3>2. inbox'[c] = <<>> /\ unread'[c] = <<m>> /\ m.cmd = cmd
      BY <1>2, <1>3, <3>1 DEF IInv, TypeInv, TypeOK
    <3>3. at'[c] = 0
      BY <1>1, <3>1 DEF IInv, TypeInv, InRange
    <3> QED
      BY <2>2, <3>1, <3>2, <3>3 DEF Pending
  <2> QED
    BY <2>1, <2>2
<1> QED
  BY <1>1, <1>4, <1>5, <1>6, BridgeSteps

LEMMA CrashPaired ==
    ASSUME IInv, Crash
    PROVE  PairedExchange'
<1>1. /\ ClientUnchanged /\ UNCHANGED <<unread, at>>
      /\ inbox' = [d \in Conns |-> <<>>] /\ open' = [d \in Conns |-> FALSE]
  BY DEF Crash, client, thread, ClientUnchanged
<1>2. Abandoned'
  BY <1>1 DEF Abandoned
<1>3. ASSUME NEW d \in Conns, Silent(d) PROVE Silent(d)'
  BY <1>1, <1>3 DEF Silent
<1>4. ASSUME NEW d \in Conns, NEW cmd, NEW k, Pending(d, cmd, k)
      PROVE  Pending(d, cmd, k)'
  BY <1>1, <1>4 DEF Pending, Silent
<1> QED
  BY <1>1, <1>2, <1>3, <1>4, BridgeSteps

LEMMA IdlePaired ==
    ASSUME IInv, Restart \/ UNCHANGED vars
    PROVE  PairedExchange'
<1>1. ClientUnchanged /\ UNCHANGED <<unread, at, inbox, open>>
  BY DEF Restart, vars, client, thread, wire, bridge, ClientUnchanged
<1>2. Abandoned'
  BY <1>1 DEF IInv, PairedExchange, Abandoned
<1>3. ASSUME NEW d \in Conns, Silent(d) PROVE Silent(d)'
  BY <1>1, <1>3 DEF Silent
<1>4. ASSUME NEW d \in Conns, NEW cmd, NEW k, Pending(d, cmd, k)
      PROVE  Pending(d, cmd, k)'
  BY <1>1, <1>4 DEF Pending, Silent
<1> QED
  BY <1>1, <1>2, <1>3, <1>4, BridgeSteps

-----------------------------------------------------------------------------
(* Readers stay in step, or between two tokens behind a value. *)

LEMMA InitInStep == Init => InStep
<1> SUFFICES ASSUME Init PROVE InStep
  OBVIOUS
<1>1. Greets /\ KeepsStep /\ NoValueNext /\ TokensAreWhole
  BY DEF Init, Greets, KeepsStep, NoValueNext, TokensAreWhole, Greeting, Reading
<1>2. Greetings
  BY DEF Init, Greetings
<1> QED
  BY <1>1, <1>2 DEF InStep

\* A thread that neither reads nor greets anew moves on.
LEMMA AsideInStep ==
    ASSUME IInv, NEW t \in Threads,
           \A u \in Threads \ {t} :
               pc'[u] = pc[u] /\ sock'[u] = sock[u] /\ phase'[u] = phase[u],
           pc[t] \notin Reading, pc'[t] \in Reading => phase'[t] = 0,
           pc'[t] \in {"idle", "check", "connect"}
               => pc[t] \in {"idle", "check", "connect"},
           pc'[t] \in Greeting <=> pc[t] \in Greeting,
           UNCHANGED <<command, unread, at, spoiled, torn>>,
           \A c \in Conns : \A i \in 1..Len(inbox'[c]) : inbox'[c][i].kind = "hello"
               => i \in 1..Len(inbox[c]) /\ inbox'[c][i] = inbox[c][i]
    PROVE  InStep'
<1>1. Greets'
  BY DEF IInv, InStep, Greets
<1>2. Greetings'
  <2>1. \A c \in Conns : pc[c] \in Greeting => pc'[c] \in Greeting
    BY DEF Conns
  <2> QED
    BY <2>1 DEF IInv, InStep, Greetings
<1>3. KeepsStep'
  BY DEF IInv, InStep, KeepsStep
<1>4. NoValueNext'
  BY DEF IInv, InStep, NoValueNext
<1> QED
  BY <1>1, <1>2, <1>3, <1>4 DEF IInv, InStep, TokensAreWhole

LEMMA ConnectInStep ==
    ASSUME IInv, NEW t \in Threads, Connect(t)
    PROVE  InStep'
<1>1. /\ pc[t] = "connect" /\ pc \in [Threads -> PCs]
      /\ UNCHANGED <<sock, phase, unread, at, spoiled, torn>>
  BY DEF Connect, IInv, TypeInv, TypeOK
<1>2. CASE up
  <2>1. /\ inbox' = [inbox EXCEPT ![t] = <<Hello(t)>>] /\ command' = t
        /\ pc' = [pc EXCEPT ![t] = "swap"]
    BY <1>2 DEF Connect, Goto
  <2>2. (\A u \in Threads \ {t} : Resting(u)) /\ pc'[t] = "swap"
    BY <1>1, <2>1, OneThread DEF IInv, Resting
  <2>3. Greets'
    BY <1>1, <2>1, <2>2 DEF IInv, InStep, Greets, Greeting, Resting
  <2>4. Greetings'
    <3>1. \A c \in Conns : pc[c] \in Greeting => pc'[c] \in Greeting
      BY <1>1, <2>1 DEF Conns, Greeting
    <3>2. \A c \in Conns \ {t} : inbox'[c] = inbox[c]
      BY <2>1 DEF IInv, TypeInv, TypeOK
    <3>3. pc'[t] \in Greeting
      BY <2>2 DEF Greeting
    <3> QED
      BY <1>1, <3>1, <3>2, <3>3 DEF IInv, InStep, Greetings
  <2>5. KeepsStep' /\ NoValueNext'
    BY <1>1, <2>1, <2>2 DEF IInv, InStep, KeepsStep, NoValueNext, Reading
  <2> QED
    BY <1>1, <2>3, <2>4, <2>5 DEF IInv, InStep, TokensAreWhole
<1>3. CASE ~up
  <2>1. Throw(t) /\ UNCHANGED <<command, inbox>>
    BY <1>3 DEF Connect
  <2>2. /\ pc'[t] \in {"program", "done"}
        /\ \A u \in Threads \ {t} : pc'[u] = pc[u]
    BY <2>1, ThrowType DEF IInv
  <2> QED
    BY <1>1, <2>1, <2>2, AsideInStep DEF Reading, Greeting
<1> QED
  BY <1>2, <1>3

\* What a write puts in an inbox.
LEMMA WriteGreets ==
    ASSUME IInv, NEW t \in Threads, NEW cmd \in Commands, cmd.kind # "hello",
           NEW sent \in {"resetSent", "topSent"},
           Write(t, cmd, sent) \/ (Throw(t) /\ UNCHANGED inbox)
    PROVE  /\ pc'[t] \in {sent, "program", "done"}
           /\ \A u \in Threads \ {t} : pc'[u] = pc[u]
           /\ \A c \in Conns : \A i \in 1..Len(inbox'[c]) : inbox'[c][i].kind = "hello"
               => i \in 1..Len(inbox[c]) /\ inbox'[c][i] = inbox[c][i]
<1>1. CASE Throw(t) /\ UNCHANGED inbox
  BY <1>1, ThrowType DEF IInv
<1>2. CASE command # NoConn /\ Goto(t, sent)
           /\ inbox' = IF open[command] THEN [inbox EXCEPT ![command] = Append(@, cmd)]
                                        ELSE inbox
  <2>1. command \in Conns /\ inbox \in [Conns -> Seq(Commands)]
    BY <1>2 DEF IInv, TypeInv, TypeOK
  <2>2. ASSUME NEW c \in Conns, NEW i \in 1..Len(inbox'[c]), inbox'[c][i].kind = "hello"
        PROVE  i \in 1..Len(inbox[c]) /\ inbox'[c][i] = inbox[c][i]
    <3>1. CASE inbox'[c] = inbox[c]
      BY <2>2, <3>1
    <3>2. CASE inbox'[c] = Append(inbox[c], cmd)
      BY <2>1, <2>2, <3>2
    <3> QED
      BY <1>2, <2>1, <3>1, <3>2
  <2> QED
    BY <1>2, <2>2 DEF Goto, IInv, TypeInv, TypeOK
<1> QED
  BY <1>1, <1>2 DEF Write

LEMMA SendInStep ==
    ASSUME IInv, NEW t \in Threads, SendReset(t) \/ SendTop(t)
    PROVE  InStep'
<1>1. /\ pc[t] \in {"reset", "send"}
      /\ UNCHANGED <<command, sock, phase, unread, at, spoiled, torn>>
  BY DEF SendReset, SendTop, client
<1>2. /\ pc'[t] \in {"resetSent", "topSent", "program", "done"}
      /\ \A u \in Threads \ {t} : pc'[u] = pc[u]
      /\ \A c \in Conns : \A i \in 1..Len(inbox'[c]) : inbox'[c][i].kind = "hello"
             => i \in 1..Len(inbox[c]) /\ inbox'[c][i] = inbox[c][i]
  <2>1. CASE SendReset(t)
    <3>1. Reset(t) \in Commands /\ Reset(t).kind # "hello"
      BY DEF Reset, Commands
    <3> QED
      BY <2>1, <3>1, WriteGreets DEF SendReset
  <2>2. CASE SendTop(t)
    <3>1. Top(t, next[t]) \in Commands /\ Top(t, next[t]).kind # "hello"
      BY DEF Top, Commands, IInv, TypeInv, TypeOK
    <3> QED
      BY <2>2, <3>1, WriteGreets DEF SendTop
  <2> QED
    BY <2>1, <2>2
<1> QED
  BY <1>1, <1>2, AsideInStep DEF Reading, Greeting

LEMMA BeginReadInStep ==
    ASSUME IInv, NEW t \in Threads, BeginRead(t)
    PROVE  InStep'
<1>1. /\ pc[t] \in {"hello", "resetSent", "topSent"}
      /\ pc \in [Threads -> PCs] /\ phase \in [Threads -> 0..9]
      /\ sock \in [Threads -> Conns \cup {NoConn}]
      /\ UNCHANGED <<command, inbox, unread, at, spoiled, torn>>
  BY DEF BeginRead, wire, IInv, TypeInv, TypeOK
<1>2. CASE response = NoConn
  <2>1. pc[t] # "hello"
    BY <1>2, OneThread, ThreadsAssumption
       DEF IInv, InStep, Greets, Greeting, ForThread, Resting
  <2>2. Throw(t) /\ UNCHANGED <<sock, phase>>
    BY <1>2 DEF BeginRead
  <2>3. /\ pc'[t] \in {"program", "done"}
        /\ \A u \in Threads \ {t} : pc'[u] = pc[u]
    BY <2>2, ThrowType DEF IInv
  <2> QED
    BY <1>1, <2>1, <2>2, <2>3, AsideInStep DEF Reading, Greeting
<1>3. CASE response # NoConn
  <2>1. /\ sock' = [sock EXCEPT ![t] = response] /\ phase' = [phase EXCEPT ![t] = 0]
        /\ pc' = [pc EXCEPT ![t] = CASE pc[t] = "hello" -> "helloRead"
                                     [] pc[t] = "resetSent" -> "resetRead"
                                     [] pc[t] = "topSent" -> "topRead"]
    BY <1>3 DEF BeginRead, Goto
  <2>2. phase'[t] = 0 /\ \A u \in Threads \ {t} : /\ pc'[u] = pc[u]
                                                  /\ sock'[u] = sock[u]
                                                  /\ phase'[u] = phase[u]
    BY <1>1, <2>1
  <2>3. \/ pc[t] = "hello" /\ pc'[t] = "helloRead"
        \/ pc[t] # "hello" /\ pc'[t] \in {"resetRead", "topRead"}
    BY <1>1, <2>1
  <2> QED
    BY <1>1, <2>2, <2>3, AsideInStep DEF Reading, Greeting
<1> QED
  BY <1>2, <1>3

LEMMA OtherStepsInStep ==
    ASSUME IInv, NEW t \in Threads,
           \/ Begin(t) \/ CheckBridgeConnected(t) \/ SetResponse(t) \/ Translate(t)
           \/ UseAnswer(t)
    PROVE  InStep'
<1>1. /\ UNCHANGED <<command, sock, phase, inbox, unread, at, spoiled, torn>>
      /\ pc \in [Threads -> PCs]
  BY DEF Begin, CheckBridgeConnected, SetResponse, Translate, UseAnswer, client, wire,
     IInv, TypeInv, TypeOK
<1>2. PICK where : pc' = [pc EXCEPT ![t] = where]
  BY DEF Begin, CheckBridgeConnected, SetResponse, Translate, UseAnswer, Goto, Finish
<1>3. /\ pc[t] \notin Reading /\ where \notin Reading \cup {"idle"}
      /\ where \in {"check", "connect"} => pc[t] \in {"idle", "check", "connect"}
      /\ where \in Greeting <=> pc[t] \in Greeting
  BY <1>1, <1>2 DEF Begin, CheckBridgeConnected, SetResponse, Translate, UseAnswer,
     Goto, Finish, Reading, Greeting
<1>4. pc'[t] = where /\ \A u \in Threads \ {t} : pc'[u] = pc[u]
  BY <1>1, <1>2
<1> QED
  BY <1>1, <1>3, <1>4, AsideInStep

\* What Consume does to the socket the commands go to.
LEMMA ConsumeMoves ==
    ASSUME IInv, NEW t \in Threads, Readable(t), Consume(command)
    PROVE  /\ \A d \in Conns \ {command} : unread'[d] = unread[d] /\ at'[d] = at[d]
           /\ IF at[command] + 1 = Len(Expected(t))
                THEN at'[command] = 0 /\ unread'[command] = Tail(unread[command])
                ELSE at'[command] = at[command] + 1 /\ unread' = unread
<1>1. command \in Conns /\ unread[command] # <<>>
  BY ReadsCommandSocket
<1>2. Layout(Head(unread[command])) = Expected(t)
  BY ReaderStands
<1>3. unread \in [Conns -> Seq(Messages)] /\ at \in [Conns -> 0..9]
  BY DEF IInv, TypeInv, TypeOK
<1> QED
  BY <1>1, <1>2, <1>3 DEF Consume

\* Greetings when a socket is read from by a thread that keeps waiting for its own,
\* or never waited, or has nothing left to read there.
LEMMA ReadGreetings ==
    ASSUME IInv, NEW t \in Threads, Readable(t), UNCHANGED inbox,
           \A u \in Threads \ {t} : pc'[u] = pc[u],
           \A d \in Conns \ {command} : unread'[d] = unread[d],
           \/ UNCHANGED unread \/ unread'[command] = Tail(unread[command]),
           \/ pc'[t] \in Greeting
           \/ pc[t] # "helloRead"
           \/ inbox[command] = <<>> /\ unread'[command] = <<>>
    PROVE  Greetings'
<1>1. /\ command \in Conns /\ unread[command] # <<>> /\ pc[t] \in Reading
      /\ unread[command] \in Seq(Messages)
  BY ReadsCommandSocket DEF IInv, TypeInv, TypeOK
<1>2. ASSUME NEW c \in Conns, NEW i \in 1..Len(unread'[c]),
             unread'[c][i].cmd.kind = "hello"
      PROVE  pc[c] \in Greeting /\ unread'[c][i].out = 0
  <2>1. CASE unread'[c] = unread[c]
    BY <1>2, <2>1 DEF IInv, InStep, Greetings
  <2>2. CASE c = command /\ unread'[c] = Tail(unread[command])
    <3>1. /\ i + 1 \in 1..Len(unread[command])
          /\ unread'[c][i] = unread[command][i + 1]
      BY <1>1, <1>2, <2>2
    <3> QED
      BY <1>2, <2>2, <3>1 DEF IInv, InStep, Greetings
  <2> QED
    BY <2>1, <2>2
<1>3. \A c \in Conns : \A i \in 1..Len(inbox'[c]) :
         inbox'[c][i].kind = "hello" => pc[c] \in Greeting
  BY DEF IInv, InStep, Greetings
<1>4. \A c \in Conns : pc[c] \in Greeting => c = t \/ pc'[c] \in Greeting
  BY DEF Conns
<1>5. pc[t] \in Greeting => pc[t] = "helloRead" /\ command = t
  BY <1>1 DEF IInv, InStep, Greets, Greeting, Reading
<1>6. CASE pc'[t] \in Greeting \/ pc[t] # "helloRead"
  BY <1>2, <1>3, <1>4, <1>5, <1>6 DEF Greetings
<1>7. CASE pc[t] = "helloRead" /\ inbox[command] = <<>> /\ unread'[command] = <<>>
  <2>1. command = t
    BY <1>5, <1>7 DEF Greeting
  <2>2. inbox'[t] = <<>> /\ unread'[t] = <<>>
    BY <1>7, <2>1
  <2> QED
    BY <1>2, <1>3, <1>4, <2>2 DEF Greetings
<1> QED
  BY <1>6, <1>7

\* Nobody else reads, so no value is next on any other socket.
LEMMA NoValueElsewhere ==
    ASSUME IInv, NEW t \in Threads, Readable(t), NEW d \in Conns, d # command
    PROVE  at[d] # 1
BY ReadsCommandSocket DEF IInv, InStep, NoValueNext, Resting, Reading

LEMMA ReadStdoutInStep ==
    ASSUME IInv, NEW t \in Threads, ReadStdout(t)
    PROVE  InStep'
<1> DEFINE m == Head(unread[command])
<1>1. /\ Readable(t) /\ sock[t] = command /\ command \in Conns
      /\ unread[command] # <<>>
  BY ReadsCommandSocket DEF ReadStdout, TakesWhole
<1>2. /\ UNCHANGED <<command, pc, sock, phase, inbox, at, spoiled, torn>>
      /\ unread' = [unread EXCEPT ![command][1].out = @ - 1]
  BY <1>1 DEF ReadStdout, client, thread
<1>3. pc[t] # "helloRead" /\ pc[command] \notin Greeting
  BY <1>1, ReadsCommandSocket
     DEF ReadStdout, Printed, Greeting, Reading, Resting, Conns
<1>4. /\ unread \in [Conns -> Seq(Messages)] /\ m = unread[command][1]
      /\ m \in Messages
  BY <1>1, ReaderStands DEF IInv, TypeInv, TypeOK
<1>5. unread'[command] = [unread[command] EXCEPT ![1].out = @ - 1]
  BY <1>1, <1>2, <1>4
<1>6. /\ Len(unread'[command]) = Len(unread[command]) /\ unread'[command] # <<>>
      /\ \A i \in 1..Len(unread[command]) :
            unread'[command][i].cmd = unread[command][i].cmd
  BY <1>1, <1>4, <1>5 DEF Messages
<1>7. Greetings'
  <2>1. \A c \in Conns \ {command} : unread'[c] = unread[c]
    BY <1>2, <1>4
  <2>2. \A i \in 1..Len(unread'[command]) : unread'[command][i].cmd.kind # "hello"
    BY <1>1, <1>3, <1>6 DEF IInv, InStep, Greetings
  <2> QED
    BY <1>2, <2>1, <2>2 DEF IInv, InStep, Greetings
<1>8. Greets'
  BY <1>2 DEF IInv, InStep, Greets
<1>9. KeepsStep'
  <2>1. \A u \in Threads \ {t} : pc[u] \notin Reading
    BY <1>1, ReadsCommandSocket DEF Resting, Reading
  <2> QED
    BY <1>1, <1>2, <1>6, <2>1 DEF IInv, InStep, KeepsStep
<1>10. NoValueNext'
  BY <1>2 DEF IInv, InStep, NoValueNext
<1> QED
  BY <1>2, <1>7, <1>8, <1>9, <1>10 DEF IInv, InStep, TokensAreWhole

LEMMA ReadTokenInStep ==
    ASSUME IInv, NEW t \in Threads, ReadToken(t)
    PROVE  InStep'
<1>1. /\ Readable(t) /\ sock[t] = command /\ command \in Conns /\ pc[t] \in Reading
      /\ (\A u \in Threads \ {t} : Resting(u)) /\ unread[command] # <<>>
  BY ReadsCommandSocket DEF ReadToken, TakesWhole
<1>2. /\ UNCHANGED <<command, sock, inbox, spoiled, torn>> /\ Consume(command)
      /\ NextToken(t) = Expects(t)
  BY <1>1 DEF ReadToken
<1>3. /\ phase \in [Threads -> 0..9] /\ pc \in [Threads -> PCs]
      /\ phase[t] \in 0..9
  BY DEF IInv, TypeInv, TypeOK
<1>4. at[command] = phase[t]
  BY <1>1, <1>2, ReaderTakes
<1>5. /\ \A d \in Conns \ {command} : unread'[d] = unread[d] /\ at'[d] = at[d]
      /\ IF phase[t] + 1 = Len(Expected(t))
           THEN at'[command] = 0 /\ unread'[command] = Tail(unread[command])
           ELSE at'[command] = phase[t] + 1 /\ unread' = unread
  BY <1>1, <1>2, <1>4, ConsumeMoves
<1>6. CASE phase[t] + 1 = Len(Expected(t))
  <2>1. PICK where \in {"reset", "program", "use"} : Goto(t, where)
    BY <1>1, <1>6, CompleteType DEF ReadToken
  <2>2. pc'[t] = where /\ \A u \in Threads \ {t} : pc'[u] = pc[u]
    BY <1>3, <2>1 DEF Goto
  <2>3. Greets'
    BY <1>2, <2>2 DEF IInv, InStep, Greets, Greeting
  <2>4. pc[t] = "helloRead" => inbox[command] = <<>> /\ unread'[command] = <<>>
    <3>1. SUFFICES ASSUME pc[t] = "helloRead"
                   PROVE  inbox[command] = <<>> /\ unread'[command] = <<>>
      OBVIOUS
    <3>2. command \notin spoiled
      BY <3>1 DEF IInv, InStep, Greets, Greeting
    <3>3. /\ inbox[command] = <<>> /\ Len(unread[command]) = 1
          /\ unread[command] \in Seq(Messages)
      BY <1>1, <3>2, ReadsItsAnswer
    <3>4. Tail(unread[command]) \in Seq(Messages) /\ Len(Tail(unread[command])) = 0
      BY <1>1, <3>3, HeadTail
    <3> QED
      BY <1>5, <1>6, <3>3, <3>4, EmptySeq
  <2>5. Greetings'
    BY <1>1, <1>2, <1>5, <1>6, <2>2, <2>4, ReadGreetings
  <2>6. KeepsStep'
    BY <1>1, <2>2 DEF KeepsStep, Reading, Resting
  <2>7. NoValueNext'
    BY <1>1, <1>5, <1>6, NoValueElsewhere DEF NoValueNext
  <2> QED
    BY <1>2, <2>3, <2>5, <2>6, <2>7 DEF IInv, InStep, TokensAreWhole
<1>7. CASE phase[t] + 1 # Len(Expected(t))
  <2>1. pc' = pc /\ phase' = [phase EXCEPT ![t] = @ + 1]
    BY <1>7 DEF ReadToken
  <2>2. Greets'
    BY <1>2, <2>1 DEF IInv, InStep, Greets
  <2>3. Greetings'
    BY <1>2, <1>5, <1>7, <2>1 DEF IInv, InStep, Greetings
  <2>4. phase'[t] = phase[t] + 1 /\ at'[command] = phase'[t]
    BY <1>3, <1>5, <1>7, <2>1
  <2>5. KeepsStep'
    BY <1>1, <1>2, <1>5, <1>7, <2>1, <2>4 DEF KeepsStep, Reading, Resting
  <2>6. NoValueNext'
    BY <1>1, <1>2, <1>5, <2>1, <2>4, NoValueElsewhere DEF NoValueNext
  <2> QED
    BY <1>2, <2>2, <2>3, <2>5, <2>6 DEF IInv, InStep, TokensAreWhole
<1> QED
  BY <1>6, <1>7

LEMMA MisreadInStep ==
    ASSUME IInv, NEW t \in Threads, Misread(t)
    PROVE  InStep'
<1>1. /\ Readable(t) /\ sock[t] = command /\ command \in Conns /\ pc[t] \in Reading
      /\ (\A u \in Threads \ {t} : Resting(u)) /\ unread[command] # <<>>
  BY ReadsCommandSocket DEF Misread, TakesWhole
<1>2. /\ UNCHANGED <<command, sock, inbox, torn>> /\ Consume(command)
      /\ spoiled' = spoiled \cup {command} /\ Throw(t)
  BY <1>1 DEF Misread, client
<1>3. /\ pc'[t] \in {"program", "done"}
      /\ \A u \in Threads \ {t} : pc'[u] = pc[u]
  BY <1>2, ThrowType DEF IInv
<1>4. at[command] # 0 /\ pc[t] # "helloRead" /\ at[command] \in 0..9
  <2> DEFINE m == Head(unread[command])
  <2>1. /\ m \in Messages /\ phase[t] \in 0..9 /\ at[command] \in 0..9
        /\ Layout(m) = Expected(t) /\ at[command] < Len(Layout(m))
        /\ pc[t] = "helloRead" => m.out = 0
        /\ \/ at[command] = phase[t]
           \/ phase[t] = 0 /\ at[command] >= 2 /\ pc[t] # "helloRead"
    BY <1>1, ReaderStands
  <2>2. CASE at[command] # phase[t]
    BY <2>1, <2>2
  <2>3. CASE at[command] = phase[t]
    <3>1. NextToken(t) = "value"
      BY <1>1, <2>3, ReaderTakes DEF Misread, Unexpected
    <3>2. NextToken(t) = Layout(m)[at[command] + 1]
      BY <1>1, <3>1 DEF NextToken, TokenAt
    <3>3. at[command] = 1 /\ Expected(t) = AnswerLayout
      BY <2>1, <3>1, <3>2, LayoutTokens
    <3>4. HelloLayout # AnswerLayout
      BY Layouts
    <3> QED
      BY <2>1, <3>3, <3>4 DEF Expected
  <2> QED
    BY <2>2, <2>3
<1>5. /\ \A d \in Conns \ {command} : unread'[d] = unread[d] /\ at'[d] = at[d]
      /\ IF at[command] + 1 = Len(Expected(t))
           THEN at'[command] = 0 /\ unread'[command] = Tail(unread[command])
           ELSE at'[command] = at[command] + 1 /\ unread' = unread
  BY <1>1, <1>2, ConsumeMoves
<1>6. Greets'
  <2>1. \A u \in Threads : pc[u] \in {"idle", "check", "connect"} => command # u
    BY DEF IInv, PairedExchange, Unopened
  <2> QED
    BY <1>1, <1>2, <1>3, <2>1 DEF IInv, InStep, Greets, Greeting, Resting
<1>7. Greetings'
  BY <1>1, <1>2, <1>3, <1>4, <1>5, ReadGreetings
<1>8. KeepsStep'
  BY <1>1, <1>3 DEF KeepsStep, Reading, Resting
<1>9. NoValueNext'
  <2>1. at'[command] # 1
    BY <1>4, <1>5
  <2> QED
    BY <1>1, <1>5, <2>1, NoValueElsewhere DEF NoValueNext
<1> QED
  BY <1>2, <1>6, <1>7, <1>8, <1>9 DEF IInv, InStep, TokensAreWhole

LEMMA ReadEOFInStep ==
    ASSUME IInv, NEW t \in Threads, ReadEOF(t)
    PROVE  InStep'
<1>1. /\ ForThread(t) /\ (\A u \in Threads \ {t} : Resting(u)) /\ pc[t] \in Reading
  BY OneThread DEF IInv, ReadEOF, Reading, Resting
<1>2. /\ sock[t] = command /\ command \in Conns
  BY <1>1 DEF ForThread, Reading, IInv, TypeInv, TypeOK, InRange
<1>3. /\ UNCHANGED <<command, sock, inbox, unread, at, spoiled, torn>> /\ Throw(t)
      /\ unread[command] = <<>> /\ ~open[command]
  BY <1>2 DEF ReadEOF, client, wire
<1>4. /\ pc'[t] \in {"program", "done"}
      /\ \A u \in Threads \ {t} : pc'[u] = pc[u]
  BY <1>3, ThrowType DEF IInv
<1>5. Greets'
  BY <1>3, <1>4 DEF IInv, InStep, Greets, Greeting
<1>6. Greetings'
  <2>1. inbox[command] = <<>>
    BY <1>2, <1>3 DEF IInv, PairedExchange, Abandoned
  <2>2. pc[t] \in Greeting => command = t
    BY DEF IInv, InStep, Greets
  <2>3. \A c \in Conns : pc[c] \in Greeting => c = t \/ pc'[c] \in Greeting
    BY <1>4 DEF Conns
  <2> QED
    BY <1>3, <2>1, <2>2, <2>3 DEF IInv, InStep, Greetings
<1>7. KeepsStep'
  BY <1>1, <1>4 DEF KeepsStep, Reading, Resting
<1>8. NoValueNext'
  <2>1. at[command] = 0
    BY <1>2, <1>3 DEF IInv, TypeInv, InRange
  <2>2. \A d \in Conns \ {command} : at[d] # 1
    BY <1>1, <1>2 DEF IInv, InStep, NoValueNext, Resting, Reading
  <2> QED
    BY <1>2, <1>3, <2>1, <2>2 DEF NoValueNext
<1> QED
  BY <1>3, <1>5, <1>6, <1>7, <1>8 DEF IInv, InStep, TokensAreWhole

LEMMA ServeInStep ==
    ASSUME IInv, NEW c \in Conns, Serve(c)
    PROVE  InStep'
<1>1. /\ UNCHANGED <<command, pc, sock, phase, at, spoiled, torn>>
      /\ inbox[c] # <<>> /\ inbox' = [inbox EXCEPT ![c] = Tail(@)]
  BY DEF Serve, client, thread
<1>2. PICK m : /\ m.cmd = Head(inbox[c])
               /\ m.cmd.kind = "hello" => m.out = 0
               /\ unread' = [unread EXCEPT ![c] = Append(@, m)]
  BY DEF Serve
<1>3. /\ unread \in [Conns -> Seq(Messages)] /\ unread' \in [Conns -> Seq(Messages)]
      /\ inbox \in [Conns -> Seq(Commands)]
  BY ServeType DEF IInv, TypeInv, TypeOK
<1>4. /\ unread'[c] = Append(unread[c], m) /\ unread[c] \in Seq(Messages)
      /\ inbox'[c] = Tail(inbox[c]) /\ inbox[c] \in Seq(Commands)
      /\ \A d \in Conns \ {c} : unread'[d] = unread[d] /\ inbox'[d] = inbox[d]
  BY <1>1, <1>2, <1>3
<1>5. Greetings'
  <2>1. ASSUME NEW d \in Conns, NEW i \in 1..Len(unread'[d]),
               unread'[d][i].cmd.kind = "hello"
        PROVE  pc[d] \in Greeting /\ unread'[d][i].out = 0
    <3>1. CASE i \in 1..Len(unread[d]) /\ unread'[d][i] = unread[d][i]
      BY <2>1, <3>1 DEF IInv, InStep, Greetings
    <3>2. CASE d = c /\ unread'[d][i] = m
      <4>1. 1 \in 1..Len(inbox[c]) /\ inbox[c][1] = Head(inbox[c])
        BY <1>1, <1>4, HeadTail
      <4> QED
        BY <1>2, <2>1, <3>2, <4>1 DEF IInv, InStep, Greetings
    <3> QED
      BY <1>4, <2>1, <3>1, <3>2
  <2>2. ASSUME NEW d \in Conns, NEW i \in 1..Len(inbox'[d]),
               inbox'[d][i].kind = "hello"
        PROVE  pc[d] \in Greeting
    <3>1. CASE d # c
      BY <1>4, <2>2, <3>1 DEF IInv, InStep, Greetings
    <3>2. CASE d = c
      <4> DEFINE s == inbox[c]
      <4>1. i + 1 \in 1..Len(inbox[c]) /\ inbox'[c][i] = inbox[c][i + 1]
        <5>1. s \in Seq(Commands) /\ s # <<>> /\ inbox'[c] = Tail(s)
          BY <1>1, <1>4
        <5>2. i \in 1..Len(Tail(s))
          BY <2>2, <3>2, <5>1
        <5> HIDE DEF s
        <5>3. i + 1 \in 1..Len(s) /\ Tail(s)[i] = s[i + 1]
          BY <5>1, <5>2
        <5> QED
          BY <5>1, <5>3 DEF s
      <4> QED
        BY <2>2, <3>2, <4>1 DEF IInv, InStep, Greetings
    <3> QED
      BY <3>1, <3>2
  <2> QED
    BY <1>1, <2>1, <2>2 DEF Greetings
<1>6. \A d \in Conns : unread[d] # <<>> => unread'[d] # <<>>
  <2>1. Append(unread[c], m) # <<>>
    BY <1>4
  <2> QED
    BY <1>4, <2>1
<1>7. Greets'
  BY <1>1 DEF IInv, InStep, Greets
<1>8. KeepsStep'
  <2>1. \A u \in Threads : pc[u] \in Reading => sock[u] \in Conns
    BY DEF IInv, TypeInv, TypeOK, InRange
  <2> QED
    BY <1>1, <1>6, <2>1 DEF IInv, InStep, KeepsStep
<1>9. NoValueNext'
  BY <1>1 DEF IInv, InStep, NoValueNext
<1> QED
  BY <1>1, <1>5, <1>7, <1>8, <1>9 DEF IInv, InStep, TokensAreWhole

LEMMA BridgeInStep ==
    ASSUME IInv, Crash \/ Restart \/ UNCHANGED vars
    PROVE  InStep'
<1>1. /\ UNCHANGED <<command, pc, sock, phase, unread, at, spoiled, torn>>
      /\ inbox' = inbox \/ inbox' = [d \in Conns |-> <<>>]
  BY DEF Crash, Restart, vars, client, thread, wire, bridge
<1>2. Greetings'
  BY <1>1 DEF IInv, InStep, Greetings
<1>3. Greets' /\ KeepsStep' /\ NoValueNext'
  BY <1>1 DEF IInv, InStep, Greets, KeepsStep, NoValueNext
<1> QED
  BY <1>1, <1>2, <1>3 DEF IInv, InStep, TokensAreWhole

-----------------------------------------------------------------------------
(* The theorems. *)

LEMMA PairedStep ==
    ASSUME IInv, MaxParallel = 1, [Next]_vars
    PROVE  IInv'
<1>1. TypeInv'
  BY TypeStep DEF IInv
<1>2. ASSUME NEW t \in Threads, Begin(t) PROVE PairedExchange'
  BY <1>2, BeginPaired
<1>3. ASSUME NEW t \in Threads, Step(t) PROVE PairedExchange'
  BY <1>3, CheckBridgeConnectedPaired, ConnectPaired, SetResponsePaired,
     SendResetPaired, SendTopPaired, BeginReadPaired, ReadStdoutPaired,
     ReadTokenPaired, MisreadPaired, ReadsWhole, ReadEOFPaired, TranslatePaired,
     UseAnswerPaired DEF Step, Read
<1>4. ASSUME NEW c \in Conns, Serve(c) PROVE PairedExchange'
  BY <1>4, ServePaired
<1>5. ASSUME Crash PROVE PairedExchange'
  BY <1>5, CrashPaired
<1>6. ASSUME Restart \/ UNCHANGED vars PROVE PairedExchange'
  BY <1>6, IdlePaired
<1>7. PairedExchange'
  BY <1>2, <1>3, <1>4, <1>5, <1>6 DEF Next
<1>8. InStep'
  <2>1. ASSUME NEW t \in Threads, Begin(t) \/ Step(t) PROVE InStep'
    BY <2>1, OtherStepsInStep, ConnectInStep, SendInStep, BeginReadInStep,
       ReadStdoutInStep, ReadTokenInStep, MisreadInStep, ReadsWhole, ReadEOFInStep
       DEF Step, Read
  <2> QED
    BY <2>1, ServeInStep, BridgeInStep DEF Next
<1> QED
  BY <1>1, <1>7, <1>8 DEF IInv

LEMMA IInvHolds ==
    ASSUME MaxParallel = 1
    PROVE  Spec => []IInv
<1>1. Init => IInv
  BY InitTypeInv, InitPaired, InitInStep DEF IInv
<1>2. IInv /\ [Next]_vars => IInv'
  BY PairedStep
<1> QED
  BY <1>1, <1>2, PTL DEF Spec

(* Executions that do not overlap keep commands and answers paired: on a       *)
(* connection where no message was misread, at most one command is in flight,  *)
(* and what is left to read is exactly what the running thread still has to    *)
(* read of the answer to it.                                                   *)
THEOREM CommandsAndAnswersPair ==
    ASSUME MaxParallel = 1
    PROVE  Spec => []PairedExchange
<1>1. IInv => PairedExchange
  BY DEF IInv
<1> QED
  BY <1>1, IInvHolds, PTL

(* Between executions the connection in use is silent: neither a command on    *)
(* its way nor an unread token is left for the next program to take for its    *)
(* own, unless a message was misread there.                                    *)
THEOREM NothingIsLeftBehind ==
    ASSUME MaxParallel = 1
    PROVE  Spec => []NothingLeftBehind
<1>1. IInv => NothingLeftBehind
  <2>1. SUFFICES ASSUME IInv, Active = {}, response # NoConn, response \notin spoiled
                 PROVE  inbox[response] = <<>> /\ unread[response] = <<>>
    BY DEF NothingLeftBehind
  <2>2. \A t \in Threads : pc[t] \in {"idle", "done"}
    BY <2>1 DEF Active
  <2>3. command = response
    BY <2>1, <2>2 DEF IInv, PairedExchange, OneConnection
  <2>4. Silent(command)
    BY <2>1, <2>2, <2>3 DEF IInv, PairedExchange, Quiet, InFlight
  <2> QED
    BY <2>3, <2>4 DEF Silent
<1> QED
  BY <1>1, IInvHolds, PTL

(* Executions that do not overlap read characters in whole tokens: no two      *)
(* readers are ever on one connection, and a reader that is out of step, after *)
(* a misread message, never stops inside of a token.  Reading token by token,  *)
(* as the other theorems of executions that do not overlap have it, is reading *)
(* character by character, as BridgeResponse does.                             *)
THEOREM TokensStayWhole ==
    ASSUME MaxParallel = 1
    PROVE  Spec => []TokensAreWhole
<1>1. IInv => TokensAreWhole
  BY DEF IInv, InStep
<1> QED
  BY <1>1, IInvHolds, PTL

(* An answer a thread reports from a connection on which nothing was misread   *)
(* is the answer to the construct it just sent, appended to those before it.   *)
THEOREM EachAnswerIsItsOwn ==
    ASSUME MaxParallel = 1
    PROVE  Spec => EachAnswerIsToItsCommand
<1> DEFINE Own == \A t \in Threads :
                     allResults'[t] # allResults[t] /\ response \notin spoiled
                       => allResults'[t] = Append(allResults[t], lastParsed[response])
                          /\ lastParsed[response].cmd = Top(t, next[t])
<1>1. ASSUME IInv, [Next]_vars PROVE [Own]_vars
  <2>1. SUFFICES ASSUME NEW t \in Threads, allResults'[t] # allResults[t],
                        response \notin spoiled
                 PROVE  allResults'[t] = Append(allResults[t], lastParsed[response])
                        /\ lastParsed[response].cmd = Top(t, next[t])
    OBVIOUS
  <2>2. UseAnswer(t)
    <3>1. ASSUME NEW u \in Threads, UseAnswer(u) PROVE u = t
      BY <1>1, <2>1, <3>1 DEF UseAnswer, IInv, TypeInv, TypeOK
    <3>2. ASSUME NEW u \in Threads, Begin(u) \/ Step(u) PROVE UseAnswer(u)
      BY <2>1, <3>2 DEF Begin, Step, Read, CheckBridgeConnected, Connect, SetResponse,
         SendReset, SendTop, BeginRead, ReadStdout, ReadToken, Misread, ReadPart, ReadEOF,
         Translate, report
    <3>3. ~Crash /\ ~Restart /\ (\A c \in Conns : ~Serve(c)) /\ ~UNCHANGED vars
      BY <2>1 DEF Crash, Restart, Serve, vars, report
    <3> QED
      BY <1>1, <3>1, <3>2, <3>3 DEF Next
  <2>3. ForThread(t) /\ pc[t] = "use"
    BY <1>1, <2>2, OneThread DEF IInv, UseAnswer, Resting
  <2>4. lastParsed[response].cmd = Top(t, next[t])
    BY <2>1, <2>3 DEF ForThread
  <2>5. allResults'[t] = Append(allResults[t], lastParsed[response])
    BY <1>1, <2>1, <2>2 DEF UseAnswer, IInv, TypeInv, TypeOK
  <2> QED
    BY <2>4, <2>5
<1>2. IInv /\ [Next]_vars => [Own]_vars
  BY <1>1
<1> QED
  BY <1>2, IInvHolds, PTL DEF Spec, EachAnswerIsToItsCommand
=============================================================================
