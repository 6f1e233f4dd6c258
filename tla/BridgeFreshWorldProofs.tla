----------------------- MODULE BridgeFreshWorldProofs -----------------------
(***************************************************************************)
(* When executions do not overlap, no message was misread and ACL2 refuses *)
(* nothing, every construct is evaluated in the world its program's        *)
(* earlier constructs made.  The invariant follows the world through one   *)
(* exchange: from the answer to the reset, to the command in flight, to    *)
(* the answer that records it.                                             *)
(***************************************************************************)
EXTENDS BridgePairingProofs, BridgeSuccessProofs

Asking(t) == pc[t] \in {"topSent", "topRead"}

\* What thread t may rely on of the ACL2 world.  A connection that is not open
\* any more answers nothing, so nothing is said of it.
WorldFor(t) ==
    /\ pc[t] \in {"program", "send"} /\ command # NoConn /\ open[command]
          => world = Prefix(t, next[t])
    /\ pc[t] \in {"resetSent", "resetRead"} /\ unread[command] # <<>> /\ open[command]
          => world = <<>>
    /\ Asking(t) /\ inbox[command] # <<>> => world = Prefix(t, next[t])
    /\ Asking(t) /\ unread[command] # <<>>
          => unread[command][1].world = Prefix(t, next[t])
    /\ ((Asking(t) /\ unread[command] # <<>>) \/ pc[t] = "use") /\ open[command]
          => world = Prefix(t, next[t] + 1)
    /\ pc[t] = "use" \/ (pc[t] = "topRead" /\ phase[t] >= 2)
          => lastParsed[command].world = Prefix(t, next[t])

\* No command waits on a connection that was given up.
NoStrays == \A c \in Conns : c # command => inbox[c] = <<>>

Dead == ~up => \A c \in Conns : ~open[c]

Worlds == (\A t \in Threads : WorldFor(t)) /\ NoStrays /\ FreshWorld

FreshInv == IInv /\ CountInv /\ Dead /\ (spoiled = {} => Worlds)

-----------------------------------------------------------------------------
LEMMA PrefixEmpty == ASSUME NEW t PROVE Prefix(t, 1) = <<>>
BY DEF Prefix

LEMMA PrefixGrows ==
    ASSUME NEW t, NEW n \in Nat \ {0}
    PROVE  Append(Prefix(t, n), Top(t, n)) = Prefix(t, n + 1)
<1> DEFINE F(k) == [j \in 1..(k - 1) |-> Top(t, j)]
<1> DEFINE S == {Top(t, j) : j \in 1..n}
<1>1. F(n) \in Seq(S) /\ Len(F(n)) = n - 1
  BY DEF Prefix
<1>2. F(n + 1) \in Seq(S) /\ Len(F(n + 1)) = n
  BY DEF Prefix
<1>3. Append(F(n), Top(t, n)) \in Seq(S) /\ Len(Append(F(n), Top(t, n))) = n
  BY <1>1
<1>4. \A i \in 1..n : Append(F(n), Top(t, n))[i] = F(n + 1)[i]
  BY <1>1
<1>5. Append(F(n), Top(t, n)) = F(n + 1)
  BY <1>2, <1>3, <1>4, SeqEqual
<1> QED
  BY <1>5 DEF Prefix

LEMMA Assemble ==
    ASSUME NEW t \in Threads, (\A u \in Threads \ {t} : Resting(u))', WorldFor(t)',
           NoStrays', FreshWorld, UNCHANGED allResults
    PROVE  Worlds'
<1>1. FreshWorld'
  BY DEF FreshWorld
<1>2. ASSUME NEW u \in Threads \ {t} PROVE WorldFor(u)'
  <2>1. Resting(u)'
    OBVIOUS
  <2> QED
    BY <2>1 DEF Resting, WorldFor, Asking
<1> QED
  BY <1>1, <1>2 DEF Worlds

-----------------------------------------------------------------------------
(* The steps of a thread, from a state in which nothing was misread. *)

\* What each of them starts from.
LEMMA Start ==
    ASSUME FreshInv, spoiled = {}, NEW t \in Threads, ~Resting(t)
    PROVE  /\ ForThread(t) /\ (\A u \in Threads \ {t} : Resting(u))
           /\ WorldFor(t) /\ NoStrays /\ FreshWorld /\ Counted(t)
           /\ command \in Conns \cup {NoConn}
           /\ TypeInv /\ pc \in [Threads -> PCs]
BY OneThread DEF FreshInv, IInv, Worlds, CountInv, TypeInv, TypeOK

\* The other threads rest on when only t moves.
LEMMA OthersRest ==
    ASSUME TypeInv, NEW t \in Threads, NEW where, pc' = [pc EXCEPT ![t] = where],
           \A u \in Threads \ {t} : Resting(u)
    PROVE  (\A u \in Threads \ {t} : Resting(u))' /\ pc'[t] = where
BY DEF Resting, TypeInv, TypeOK

LEMMA BeginWorld ==
    ASSUME FreshInv, spoiled = {}, MaxParallel = 1, NEW t \in Threads, Begin(t)
    PROVE  Worlds'
<1>1. \A u \in Threads \ {t} : Resting(u)
  BY BeginsAlone DEF FreshInv, Active, Resting
<1>2. PICK where \in {"done", "check", "connect"} : pc' = [pc EXCEPT ![t] = where]
  BY DEF Begin, Finish, Goto
<1>3. (\A u \in Threads \ {t} : Resting(u))' /\ pc'[t] = where
  BY <1>1, <1>2, OthersRest DEF FreshInv, IInv
<1>4. WorldFor(t)'
  BY <1>2, <1>3 DEF WorldFor, Asking
<1>5. NoStrays' /\ FreshWorld /\ UNCHANGED allResults
  BY DEF FreshInv, Worlds, NoStrays, Begin, client, wire
<1> QED
  BY <1>3, <1>4, <1>5, Assemble

LEMMA CheckBridgeConnectedWorld ==
    ASSUME FreshInv, spoiled = {}, NEW t \in Threads, CheckBridgeConnected(t)
    PROVE  Worlds'
<1>1. ~Resting(t)
  BY DEF CheckBridgeConnected, Resting
<1>2. PICK where \in {"reset", "connect"} : pc' = [pc EXCEPT ![t] = where]
  BY DEF CheckBridgeConnected, Goto
<1>3. (\A u \in Threads \ {t} : Resting(u))' /\ pc'[t] = where
  BY <1>1, <1>2, Start, OthersRest
<1>4. WorldFor(t)'
  BY <1>2, <1>3 DEF WorldFor, Asking
<1>5. NoStrays' /\ FreshWorld /\ UNCHANGED allResults
  BY DEF FreshInv, Worlds, NoStrays, CheckBridgeConnected, client, wire, report
<1> QED
  BY <1>3, <1>4, <1>5, Assemble

\* The connection given up is silent, and the new one carries the hello only.
LEMMA ConnectWorld ==
    ASSUME FreshInv, spoiled = {}, NEW t \in Threads, Connect(t)
    PROVE  Worlds'
<1>1. pc[t] = "connect" /\ ~Resting(t) /\ UNCHANGED allResults
  BY DEF Connect, Resting
<1>2. PICK where \in {"swap", "program", "done"} :
         pc' = [pc EXCEPT ![t] = where] /\ (where = "swap" <=> up)
  BY DEF Connect, Throw, Goto, Finish
<1>3. (\A u \in Threads \ {t} : Resting(u))' /\ pc'[t] = where
  BY <1>1, <1>2, Start, OthersRest
<1>4. CASE up
  <2>1. WorldFor(t)'
    BY <1>2, <1>3, <1>4 DEF WorldFor, Asking
  <2>2. NoStrays'
    <3>1. command = NoConn \/ inbox[command] = <<>>
      BY <1>1, Start DEF ForThread, InFlight, Reading, Silent
    <3>2. \A c \in Conns : inbox[c] = <<>>
      BY <1>1, <3>1, Start, ThreadsAssumption DEF NoStrays, Conns
    <3> QED
      BY <1>4, <3>2 DEF NoStrays, Connect, FreshInv, IInv, TypeInv, TypeOK
  <2> QED
    BY <1>1, <1>3, <2>1, <2>2, Start, Assemble
<1>5. CASE ~up
  <2>1. UNCHANGED <<command, inbox, open>> /\ \A c \in Conns : ~open[c]
    BY <1>5 DEF Connect, FreshInv, Dead
  <2>2. WorldFor(t)'
    BY <1>1, <1>2, <1>3, <1>5, <2>1, Start DEF WorldFor, Asking
  <2>3. NoStrays'
    BY <1>1, <2>1, Start DEF NoStrays
  <2> QED
    BY <1>1, <1>3, <2>2, <2>3, Start, Assemble
<1> QED
  BY <1>4, <1>5

LEMMA SetResponseWorld ==
    ASSUME FreshInv, spoiled = {}, NEW t \in Threads, SetResponse(t)
    PROVE  Worlds'
<1>1. ~Resting(t) /\ UNCHANGED <<command, inbox, allResults>>
  BY DEF SetResponse, Resting, report, wire
<1>2. (\A u \in Threads \ {t} : Resting(u))' /\ pc'[t] = "hello"
  BY <1>1, Start, OthersRest DEF SetResponse, Goto
<1>3. WorldFor(t)'
  BY <1>2 DEF WorldFor, Asking
<1>4. NoStrays'
  BY <1>1, Start DEF NoStrays
<1> QED
  BY <1>1, <1>2, <1>3, <1>4, Start, Assemble

\* A command is written to a connection with nothing on it.
LEMMA WriteWorld ==
    ASSUME FreshInv, spoiled = {}, NEW t \in Threads, NEW cmd, NEW sent,
           pc[t] \in {"reset", "send"}, Write(t, cmd, sent), command # NoConn,
           UNCHANGED <<command, unread, open, world, next, allResults>>
    PROVE  /\ (\A u \in Threads \ {t} : Resting(u))' /\ pc'[t] = sent
           /\ NoStrays'
           /\ unread'[command] = <<>>
           /\ ~open[command] => inbox'[command] = <<>>
<1>1. ~Resting(t)
  BY DEF Resting
<1>2. Silent(command) /\ command \in Conns
  BY <1>1, Start DEF ForThread, InFlight, Reading
<1>3. inbox' = IF open[command] THEN [inbox EXCEPT ![command] = Append(@, cmd)]
                                ELSE inbox
  BY DEF Write
<1>4. (\A u \in Threads \ {t} : Resting(u))' /\ pc'[t] = sent
  BY <1>1, Start, OthersRest DEF Write, Goto
<1>5. NoStrays'
  BY <1>1, <1>2, <1>3, Start DEF NoStrays, FreshInv, IInv, TypeInv, TypeOK
<1> QED
  BY <1>2, <1>3, <1>4, <1>5 DEF Silent

LEMMA SendResetWorld ==
    ASSUME FreshInv, spoiled = {}, NEW t \in Threads, SendReset(t)
    PROVE  Worlds'
<1>1. /\ pc[t] = "reset" /\ ~Resting(t)
      /\ UNCHANGED <<command, unread, open, world, next, allResults>>
  BY DEF SendReset, Resting, client, bridge
<1>2. CASE command = NoConn
  <2>1. PICK where \in {"program", "done"} : pc' = [pc EXCEPT ![t] = where]
    BY <1>1, <1>2 DEF SendReset, Write, Throw, Goto, Finish
  <2>2. (\A u \in Threads \ {t} : Resting(u))' /\ pc'[t] = where
    BY <1>1, <2>1, Start, OthersRest
  <2>3. WorldFor(t)'
    BY <1>1, <1>2, <2>1, <2>2 DEF WorldFor, Asking
  <2>4. inbox' = inbox
    BY <1>2 DEF SendReset, Write
  <2>5. NoStrays'
    BY <1>1, <2>4, Start DEF NoStrays
  <2> QED
    BY <1>1, <2>2, <2>3, <2>5, Start, Assemble
<1>3. CASE command # NoConn
  <2>1. /\ (\A u \in Threads \ {t} : Resting(u))' /\ pc'[t] = "resetSent"
        /\ NoStrays' /\ unread'[command] = <<>>
    BY <1>1, <1>3, WriteWorld DEF SendReset
  <2>2. WorldFor(t)'
    BY <1>1, <2>1 DEF WorldFor, Asking
  <2> QED
    BY <1>1, <2>1, <2>2, Start, Assemble
<1> QED
  BY <1>2, <1>3

LEMMA SendTopWorld ==
    ASSUME FreshInv, spoiled = {}, NEW t \in Threads, SendTop(t)
    PROVE  Worlds'
<1>1. /\ pc[t] = "send" /\ ~Resting(t)
      /\ UNCHANGED <<command, unread, open, world, next, allResults>>
  BY DEF SendTop, Resting, client, bridge
<1>2. CASE Throw(t) /\ UNCHANGED inbox
  <2>1. pc' = [pc EXCEPT ![t] = "done"] /\ inbox' = inbox
    BY <1>1, <1>2 DEF Throw, Goto, Finish
  <2>2. (\A u \in Threads \ {t} : Resting(u))' /\ pc'[t] = "done"
    BY <1>1, <2>1, Start, OthersRest
  <2>3. WorldFor(t)'
    BY <2>2 DEF WorldFor, Asking
  <2>4. NoStrays'
    BY <1>1, <2>1, Start DEF NoStrays
  <2> QED
    BY <1>1, <2>2, <2>3, <2>4, Start, Assemble
<1>3. CASE Write(t, Top(t, next[t]), "topSent") /\ command # NoConn
  <2>1. /\ (\A u \in Threads \ {t} : Resting(u))' /\ pc'[t] = "topSent"
        /\ NoStrays' /\ unread'[command] = <<>>
        /\ ~open[command] => inbox'[command] = <<>>
    BY <1>1, <1>3, WriteWorld
  <2>2. open[command] => world = Prefix(t, next[t])
    BY <1>1, <1>3, Start DEF WorldFor
  <2>3. WorldFor(t)'
    BY <1>1, <2>1, <2>2 DEF WorldFor, Asking, Prefix
  <2> QED
    BY <1>1, <2>1, <2>3, Start, Assemble
<1> QED
  BY <1>2, <1>3 DEF SendTop, Write

LEMMA BeginReadWorld ==
    ASSUME FreshInv, spoiled = {}, NEW t \in Threads, BeginRead(t)
    PROVE  Worlds'
<1>1. /\ pc[t] \in {"hello", "resetSent", "topSent"} /\ ~Resting(t)
      /\ UNCHANGED <<command, response, inbox, unread, open, world, next, allResults>>
  BY DEF BeginRead, Resting, wire, bridge
<1>2. response # NoConn
  BY <1>1, Start DEF ForThread, InFlight
<1>3. PICK where \in Reading :
         /\ pc' = [pc EXCEPT ![t] = where]
         /\ where = "resetRead" <=> pc[t] = "resetSent"
         /\ where = "topRead" <=> pc[t] = "topSent"
  BY <1>1, <1>2 DEF BeginRead, Goto, Reading
<1>4. (\A u \in Threads \ {t} : Resting(u))' /\ pc'[t] = where
  BY <1>1, <1>3, Start, OthersRest
<1>5. phase'[t] = 0
  BY <1>2 DEF BeginRead, FreshInv, IInv, TypeInv, TypeOK
<1>6. WorldFor(t)'
  BY <1>1, <1>3, <1>4, <1>5, Start DEF WorldFor, Asking, Reading, Prefix
<1>7. NoStrays'
  BY <1>1, Start DEF NoStrays
<1> QED
  BY <1>1, <1>4, <1>6, <1>7, Start, Assemble

LEMMA ReadStdoutWorld ==
    ASSUME FreshInv, spoiled = {}, NEW t \in Threads, ReadStdout(t)
    PROVE  Worlds'
<1>1. /\ pc[t] \in Reading /\ ~Resting(t) /\ Readable(t) /\ phase[t] = 0
      /\ UNCHANGED <<command, lastParsed, pc, phase, next, inbox, open, world, allResults>>
  BY DEF ReadStdout, Printed, TakesWhole, Readable, Reading, Resting, client, thread,
     report, bridge
<1>2. /\ sock[t] = command /\ command \in Conns /\ unread[command] # <<>>
      /\ unread[command] \in Seq(Messages) /\ Len(unread[command]) = 1
  BY <1>1, ReadsCommandSocket, ReadsItsAnswer DEF FreshInv
<1>3. unread' = [unread EXCEPT ![command][1].out = @ - 1]
  BY <1>2 DEF ReadStdout
<1>4. unread'[command][1].world = unread[command][1].world
  <2>1. unread[command][1] \in Messages
    BY <1>2
  <2>2. unread'[command] = [unread[command] EXCEPT ![1].out = @ - 1]
    BY <1>2, <1>3 DEF FreshInv, IInv, TypeInv, TypeOK
  <2>3. unread'[command][1] = [unread[command][1] EXCEPT !.out = @ - 1]
    BY <1>2, <2>2
  <2> QED
    BY <2>1, <2>3 DEF Messages
<1>5. (\A u \in Threads \ {t} : Resting(u))'
  BY <1>1, Start DEF Resting
<1>6. WorldFor(t)'
  BY <1>1, <1>2, <1>4, Start DEF WorldFor, Asking, Prefix
<1>7. NoStrays'
  BY <1>1, Start DEF NoStrays
<1> QED
  BY <1>1, <1>5, <1>6, <1>7, Start, Assemble

\* The value is recorded with the world it was computed in; once the whole
\* answer is read, the world is as the answer left it.
LEMMA ReadTokenWorld ==
    ASSUME FreshInv, spoiled = {}, NEW t \in Threads, ReadToken(t)
    PROVE  Worlds'
<1> DEFINE m == Head(unread[command])
<1>1. /\ pc[t] \in Reading /\ ~Resting(t) /\ Readable(t)
      /\ UNCHANGED <<command, next, inbox, open, world, allResults>>
  BY DEF ReadToken, TakesWhole, Readable, Reading, Resting, bridge, report
<1>2. /\ sock[t] = command /\ command \in Conns /\ unread[command] # <<>>
      /\ unread[command][1] = m /\ at[command] = phase[t] /\ phase[t] \in 0..9
      /\ Layout(m) = Expected(t)
  BY <1>1, ReadsCommandSocket, ReadsItsAnswer DEF FreshInv
<1>3. NoStrays'
  BY <1>1, Start DEF NoStrays
<1>4. lastParsed'[command] = lastParsed[command] \/ lastParsed'[command] = m
  BY <1>2 DEF ReadToken, FreshInv, IInv, TypeInv, TypeOK
<1>5. CASE phase[t] + 1 # Len(Expected(t))
  <2>1. pc' = pc /\ phase'[t] = phase[t] + 1 /\ unread' = unread
    BY <1>2, <1>5 DEF ReadToken, Consume, FreshInv, IInv, TypeInv, TypeOK
  <2>2. (\A u \in Threads \ {t} : Resting(u))'
    BY <1>1, <2>1, Start DEF Resting
  <2>3. pc[t] = "topRead" /\ phase[t] = 1 => lastParsed'[command] = m
    <3>1. SUFFICES ASSUME pc[t] = "topRead", phase[t] = 1
                   PROVE  lastParsed'[command] = m
      OBVIOUS
    <3>2. Expected(t) = AnswerLayout /\ Expected(t)[2] = "value"
      BY <3>1, Layouts DEF Expected
    <3>3. NextToken(t) = "value"
      BY <3>1, <3>2 DEF ReadToken, Expects
    <3> QED
      BY <1>2, <3>3 DEF ReadToken, FreshInv, IInv, TypeInv, TypeOK
  <2>4. pc[t] = "topRead" => m.world = Prefix(t, next[t])
    BY <1>1, <1>2, Start DEF WorldFor, Asking
  <2>5. pc[t] = "topRead" /\ phase'[t] >= 2 => lastParsed'[command].world = Prefix(t, next[t])
    <3>1. SUFFICES ASSUME pc[t] = "topRead", phase'[t] >= 2
                   PROVE  lastParsed'[command].world = Prefix(t, next[t])
      OBVIOUS
    <3>2. CASE phase[t] = 1
      BY <2>3, <2>4, <3>1, <3>2
    <3>3. CASE phase[t] >= 2
      BY <1>1, <1>4, <2>4, <3>1, <3>3, Start DEF WorldFor
    <3> QED
      BY <1>2, <2>1, <3>1, <3>2, <3>3
  <2>6. WorldFor(t)'
    BY <1>1, <1>2, <2>1, <2>5, Start DEF WorldFor, Asking, Prefix, Reading
  <2> QED
    BY <1>1, <1>3, <2>2, <2>6, Start, Assemble
<1>6. CASE phase[t] + 1 = Len(Expected(t))
  <2>1. PICK where \in {"reset", "program", "use"} :
           /\ pc' = [pc EXCEPT ![t] = where]
           /\ where = "program" <=> pc[t] = "resetRead"
           /\ where = "use" <=> pc[t] = "topRead"
    BY <1>1, <1>6 DEF ReadToken, Complete, Goto, Reading
  <2>2. (\A u \in Threads \ {t} : Resting(u))' /\ pc'[t] = where
    BY <1>1, <2>1, Start, OthersRest
  <2>3. CASE pc[t] = "helloRead"
    <3>1. pc'[t] = "reset"
      BY <2>1, <2>2, <2>3
    <3> QED
      BY <1>1, <1>3, <2>2, <3>1, Start, Assemble DEF WorldFor, Asking
  <2>4. CASE pc[t] = "resetRead"
    <3>1. open[command] => world = <<>>
      BY <1>1, <1>2, <2>4, Start DEF WorldFor
    <3>2. next[t] = 1
      BY <1>1, <2>4, Start DEF Counted, InLoop
    <3>3. WorldFor(t)'
      BY <1>1, <2>1, <2>2, <2>4, <3>1, <3>2, PrefixEmpty DEF WorldFor, Asking, Prefix
    <3> QED
      BY <1>1, <1>3, <2>2, <3>3, Start, Assemble
  <2>5. CASE pc[t] = "topRead"
    <3>1. Len(Expected(t)) = 10
      BY <2>5, Layouts DEF Expected
    <3>2. lastParsed'[command].world = Prefix(t, next[t])
      BY <1>1, <1>2, <1>4, <1>6, <2>5, <3>1, Start DEF WorldFor, Asking
    <3>3. open[command] => world = Prefix(t, next[t] + 1)
      BY <1>1, <1>2, <2>5, Start DEF WorldFor, Asking
    <3>4. WorldFor(t)'
      BY <1>1, <2>1, <2>2, <2>5, <3>2, <3>3 DEF WorldFor, Asking, Prefix
    <3> QED
      BY <1>1, <1>3, <2>2, <3>4, Start, Assemble
  <2> QED
    BY <1>1, <2>3, <2>4, <2>5 DEF Reading
<1> QED
  BY <1>5, <1>6

LEMMA ReadEOFWorld ==
    ASSUME FreshInv, spoiled = {}, NEW t \in Threads, ReadEOF(t)
    PROVE  Worlds'
<1>1. /\ pc[t] \in Reading /\ ~Resting(t) /\ ~open[sock[t]]
      /\ UNCHANGED <<command, inbox, open, allResults>>
  BY DEF ReadEOF, Reading, Resting, client, wire, bridge
<1>2. sock[t] = command
  BY <1>1, Start DEF ForThread, Reading
<1>3. PICK where \in {"program", "done"} : pc' = [pc EXCEPT ![t] = where]
  BY DEF ReadEOF, Throw, Goto, Finish
<1>4. (\A u \in Threads \ {t} : Resting(u))' /\ pc'[t] = where
  BY <1>1, <1>3, Start, OthersRest
<1>5. WorldFor(t)'
  BY <1>1, <1>2, <1>3, <1>4 DEF WorldFor, Asking
<1>6. NoStrays'
  BY <1>1, Start DEF NoStrays
<1> QED
  BY <1>1, <1>4, <1>5, <1>6, Start, Assemble

LEMMA TranslateWorld ==
    ASSUME FreshInv, spoiled = {}, NEW t \in Threads, Translate(t)
    PROVE  Worlds'
<1>1. /\ pc[t] = "program" /\ ~Resting(t)
      /\ UNCHANGED <<command, next, inbox, open, world, allResults>>
  BY DEF Translate, Resting, client, wire, bridge
<1>2. PICK where \in {"send", "done"} : pc' = [pc EXCEPT ![t] = where]
  BY DEF Translate, Finish, Goto
<1>3. (\A u \in Threads \ {t} : Resting(u))' /\ pc'[t] = where
  BY <1>1, <1>2, Start, OthersRest
<1>4. WorldFor(t)'
  BY <1>1, <1>2, <1>3, Start DEF WorldFor, Asking, Prefix
<1>5. NoStrays'
  BY <1>1, Start DEF NoStrays
<1> QED
  BY <1>1, <1>3, <1>4, <1>5, Start, Assemble

\* The answer reported was computed in the world of the constructs before it.
LEMMA UseAnswerWorld ==
    ASSUME FreshInv, spoiled = {}, NEW t \in Threads, UseAnswer(t)
    PROVE  Worlds'
<1> DEFINE answer == lastParsed[response]
<1>1. /\ pc[t] = "use" /\ ~Resting(t)
      /\ UNCHANGED <<command, inbox, open, world>>
  BY DEF UseAnswer, Resting, client, wire, bridge
<1>2. command = response
  BY <1>1, Start DEF ForThread
<1>3. answer.world = Prefix(t, next[t]) /\ (open[command] => world = Prefix(t, next[t] + 1))
  BY <1>1, <1>2, Start DEF WorldFor
<1>4. NoStrays'
  BY <1>1, Start DEF NoStrays
<1>5. PICK where \in {"send", "done"} : pc' = [pc EXCEPT ![t] = where]
  BY DEF UseAnswer, Finish, Goto
<1>6. (\A u \in Threads \ {t} : Resting(u))' /\ pc'[t] = where
  BY <1>1, <1>5, Start, OthersRest
<1>7. /\ next \in [Threads -> Nat] /\ allResults \in [Threads -> Seq(Messages)]
      /\ Len(allResults[t]) = next[t] - 1
  BY <1>1, Start DEF TypeInv, TypeOK, Counted
<1>8. CASE UNCHANGED <<allResults, next>>
  <2>1. where = "done"
    <3>1. next' # [next EXCEPT ![t] = @ + 1]
      BY <1>7, <1>8
    <3> QED
      BY <1>6, <3>1 DEF UseAnswer, Finish, Goto, FreshInv, IInv, TypeInv, TypeOK
  <2>2. WorldFor(t)'
    BY <1>6, <2>1 DEF WorldFor, Asking
  <2> QED
    BY <1>1, <1>4, <1>6, <1>8, <2>2, Start, Assemble
<1>9. CASE /\ allResults' = [allResults EXCEPT ![t] = Append(@, answer)]
           /\ next' = [next EXCEPT ![t] = @ + 1]
  <2>1. next'[t] = next[t] + 1
    BY <1>7, <1>9
  <2>2. WorldFor(t)'
    BY <1>1, <1>3, <1>5, <1>6, <2>1 DEF WorldFor, Asking, Prefix
  <2>3. FreshWorld'
    <3>1. SUFFICES ASSUME NEW u \in Threads, NEW i \in 1..Len(allResults'[u])
                   PROVE  allResults'[u][i].world = Prefix(u, i)
      BY DEF FreshWorld, Prefix
    <3>2. CASE u # t
      BY <1>1, <1>7, <1>9, <3>1, <3>2, Start DEF FreshWorld
    <3>3. CASE u = t /\ i <= Len(allResults[t])
      <4>1. allResults'[t][i] = allResults[t][i] /\ i \in 1..Len(allResults[t])
        BY <1>7, <1>9, <3>1, <3>3
      <4> QED
        BY <1>1, <3>3, <4>1, Start DEF FreshWorld
    <3>4. CASE u = t /\ i > Len(allResults[t])
      <4>1. i = next[t] /\ allResults'[t][i] = answer
        BY <1>7, <1>9, <3>1, <3>4
      <4> QED
        BY <1>3, <3>4, <4>1
    <3> QED
      BY <1>7, <3>2, <3>3, <3>4
  <2>4. \A u \in Threads : WorldFor(u)'
    <3>1. ASSUME NEW u \in Threads \ {t} PROVE WorldFor(u)'
      <4>1. Resting(u)'
        BY <1>6
      <4> QED
        BY <4>1 DEF Resting, WorldFor, Asking
    <3> QED
      BY <2>2, <3>1
  <2> QED
    BY <1>4, <2>3, <2>4 DEF Worlds
<1> QED
  BY <1>8, <1>9 DEF UseAnswer

-----------------------------------------------------------------------------
(* The steps of the bridge. *)

\* The command it takes is the running thread's.
LEMMA ServesItsCommand ==
    ASSUME FreshInv, spoiled = {}, "refused" \notin Kinds, NEW c \in Conns, Serve(c)
    PROVE  /\ c = command /\ open[command]
           /\ \E t \in Threads :
                 /\ pc[t] \in InFlight /\ ~Resting(t)
                 /\ inbox[command] = <<Asked(t)>> /\ unread[command] = <<>>
                 /\ \E m : /\ m.cmd = Asked(t) /\ m.world = world
                           /\ unread' = [unread EXCEPT ![command] = Append(@, m)]
                 /\ world' = IF Asked(t).kind = "hello" THEN world
                             ELSE IF Asked(t).kind = "reset" THEN <<>>
                             ELSE Append(world, Asked(t))
<1>1. open[c] /\ inbox[c] # <<>>
  BY DEF Serve
<1>2. c = command
  BY <1>1 DEF FreshInv, Worlds, NoStrays
<1>3. PICK t \in Threads : pc[t] \in InFlight
  BY <1>1, <1>2, ThreadsAssumption DEF FreshInv, IInv, PairedExchange, Quiet, Silent, Conns
<1>4. ForThread(t) /\ ~Resting(t)
  BY <1>3, Start DEF Resting, InFlight
<1>5. inbox[command] = <<Asked(t)>> /\ unread[command] = <<>>
  BY <1>1, <1>2, <1>3, <1>4 DEF ForThread, Pending, Silent
<1>6. /\ \E m : /\ m.cmd = Asked(t) /\ m.world = world
                /\ unread' = [unread EXCEPT ![command] = Append(@, m)]
      /\ world' = IF Asked(t).kind = "hello" THEN world
                  ELSE IF Asked(t).kind = "reset" THEN <<>>
                  ELSE Append(world, Asked(t))
  <2>1. Head(inbox[command]) = Asked(t)
    BY <1>5
  <2> DEFINE cmd == Asked(t)
             hello == cmd.kind = "hello"
             fault(val) == ~hello /\ val \in {"refused", "unreadable"}
             answer(val, out) ==
                 [cmd |-> cmd,
                  val |-> IF fault(val) \/ cmd.kind = "top" THEN val ELSE "noform",
                  world |-> world,
                  out |-> IF hello THEN 0 ELSE out]
  <2>2. PICK val \in Kinds, out \in 0..MaxOut :
           /\ unread' = [unread EXCEPT ![command] = Append(@, answer(val, out))]
           /\ world' = IF hello \/ val = "refused" THEN world
                       ELSE IF cmd.kind = "reset" THEN <<>>
                       ELSE Append(world, cmd)
    BY <1>2, <2>1 DEF Serve
  <2>3. answer(val, out).cmd = cmd /\ answer(val, out).world = world
    OBVIOUS
  <2> QED
    BY <2>2, <2>3
<1> QED
  BY <1>1, <1>2, <1>3, <1>4, <1>5, <1>6

\* So the answer is computed in the world that thread relies on, and leaves the
\* world the thread relies on next.
LEMMA ServeWorld ==
    ASSUME FreshInv, spoiled = {}, "refused" \notin Kinds, NEW c \in Conns, Serve(c)
    PROVE  Worlds'
<1>1. /\ open[c] /\ inbox[c] # <<>> /\ inbox' = [inbox EXCEPT ![c] = Tail(@)]
      /\ UNCHANGED <<command, lastParsed, pc, phase, next, open, allResults>>
  BY DEF Serve, client, thread, report
<1>2. NoStrays /\ FreshWorld /\ c = command
  BY ServesItsCommand DEF FreshInv, Worlds
<1>3. PICK t \in Threads :
         /\ pc[t] \in InFlight /\ ~Resting(t)
         /\ inbox[command] = <<Asked(t)>> /\ unread[command] = <<>>
         /\ \E m : /\ m.cmd = Asked(t) /\ m.world = world
                   /\ unread' = [unread EXCEPT ![command] = Append(@, m)]
         /\ world' = IF Asked(t).kind = "hello" THEN world
                     ELSE IF Asked(t).kind = "reset" THEN <<>>
                     ELSE Append(world, Asked(t))
  BY ServesItsCommand
<1>4. /\ ForThread(t) /\ (\A u \in Threads \ {t} : Resting(u)) /\ WorldFor(t)
      /\ Counted(t) /\ TypeInv
  BY <1>3, Start
<1>5. inbox[command] = <<Asked(t)>> /\ unread[command] = <<>>
  BY <1>3
<1>6. PICK m : /\ m.cmd = Asked(t) /\ m.world = world
               /\ unread' = [unread EXCEPT ![command] = Append(@, m)]
  BY <1>3
<1>7. inbox'[command] = <<>> /\ unread'[command] = <<m>>
  BY <1>1, <1>2, <1>4, <1>5, <1>6 DEF TypeInv, TypeOK
<1>8. pc[t] \in {"resetSent", "resetRead"} => world' = <<>>
  BY <1>3 DEF Asked, Reset
<1>9. Asking(t) => world = Prefix(t, next[t]) /\ world' = Prefix(t, next[t] + 1)
  <2>1. SUFFICES ASSUME Asking(t)
                 PROVE  world = Prefix(t, next[t]) /\ world' = Prefix(t, next[t] + 1)
    OBVIOUS
  <2>2. world = Prefix(t, next[t])
    BY <1>1, <1>2, <1>4, <2>1 DEF WorldFor
  <2>3. next[t] \in Nat \ {0}
    BY <1>4 DEF Counted, TypeInv, TypeOK
  <2>4. Asked(t) = Top(t, next[t]) /\ Asked(t).kind = "top"
    BY <2>1 DEF Asking, Asked, Top
  <2> QED
    BY <1>3, <2>2, <2>3, <2>4, PrefixGrows
<1>10. NoStrays'
  BY <1>1, <1>2, <1>4 DEF NoStrays, TypeInv, TypeOK
<1>11. (\A u \in Threads \ {t} : Resting(u))'
  BY <1>1, <1>4 DEF Resting
<1>12. WorldFor(t)'
  <2>1. Prefix(t, next[t])' = Prefix(t, next[t])
        /\ Prefix(t, next[t] + 1)' = Prefix(t, next[t] + 1)
        /\ Asking(t)' = Asking(t)
    BY <1>1 DEF Prefix, Asking
  <2>2. pc'[t] \notin {"program", "send", "use"}
    BY <1>1, <1>3 DEF InFlight
  <2>3. unread'[command'][1].world = world /\ inbox'[command'] = <<>>
    BY <1>1, <1>6, <1>7
  <2>4. pc'[t] = "topRead" /\ phase'[t] >= 2
           => lastParsed'[command'].world = Prefix(t, next[t])
    BY <1>1, <1>4 DEF WorldFor
  <2>5. pc'[t] \in {"resetSent", "resetRead"} => world' = <<>>
    BY <1>1, <1>8
  <2> QED
    BY <1>9, <2>1, <2>2, <2>3, <2>4, <2>5 DEF WorldFor
<1> QED
  BY <1>1, <1>2, <1>10, <1>11, <1>12, Assemble

LEMMA CrashWorld ==
    ASSUME FreshInv, spoiled = {}, Crash
    PROVE  Worlds'
<1>1. /\ inbox' = [d \in Conns |-> <<>>] /\ open' = [d \in Conns |-> FALSE]
      /\ UNCHANGED <<command, lastParsed, pc, phase, next, allResults, unread>>
  BY DEF Crash, client, thread, report
<1>2. NoStrays' /\ FreshWorld'
  BY <1>1 DEF NoStrays, FreshInv, Worlds, FreshWorld
<1>3. ASSUME NEW t \in Threads PROVE WorldFor(t)'
  <2>1. CASE Resting(t)
    BY <1>1, <2>1 DEF Resting, WorldFor, Asking
  <2>2. CASE ~Resting(t) /\ command = NoConn
    <3>1. pc[t] \notin InFlight
      BY <2>2, Start DEF ForThread
    <3>2. pc[t] # "use"
      BY <2>2, Start DEF ForThread, TypeInv, InRange
    <3> QED
      BY <1>1, <2>2, <3>1, <3>2 DEF WorldFor, Asking, InFlight
  <2>3. CASE ~Resting(t) /\ command # NoConn
    <3>1. command \in Conns /\ WorldFor(t)
      BY <2>3, Start
    <3>2. ~open'[command] /\ inbox'[command] = <<>>
      BY <1>1, <3>1
    <3>3. Prefix(t, next[t])' = Prefix(t, next[t]) /\ Asking(t)' = Asking(t)
      BY <1>1 DEF Prefix, Asking
    <3> QED
      BY <1>1, <3>1, <3>2, <3>3 DEF WorldFor
  <2> QED
    BY <2>1, <2>2, <2>3
<1> QED
  BY <1>2, <1>3 DEF Worlds

LEMMA IdleWorld ==
    ASSUME FreshInv, spoiled = {}, Restart \/ UNCHANGED vars
    PROVE  Worlds'
<1>1. UNCHANGED <<command, lastParsed, pc, phase, next, allResults, inbox, unread,
                  open, world>>
  BY DEF Restart, vars, client, thread, report, wire, bridge
<1> QED
  BY <1>1 DEF FreshInv, Worlds, WorldFor, Asking, Prefix, NoStrays, FreshWorld

-----------------------------------------------------------------------------
(* The theorem. *)

LEMMA DeadStep ==
    ASSUME FreshInv, [Next]_vars
    PROVE  Dead'
<1>1. ASSUME NEW t \in Threads, Begin(t) \/ Step(t) PROVE Dead'
  <2>1. CASE Connect(t)
    BY <2>1 DEF Connect, Dead, FreshInv
  <2>2. CASE ~Connect(t)
    <3>1. UNCHANGED <<open, up>>
      BY <1>1, <2>2 DEF Begin, Step, Read, CheckBridgeConnected, SetResponse,
         SendReset, SendTop, BeginRead, ReadStdout, ReadToken, Misread, ReadPart, ReadEOF,
         Translate, UseAnswer, bridge
    <3> QED
      BY <3>1 DEF Dead, FreshInv
  <2> QED
    BY <2>1, <2>2
<1>2. CASE (\E c \in Conns : Serve(c)) \/ UNCHANGED vars
  <2>1. UNCHANGED <<open, up>>
    BY <1>2 DEF Serve, vars, bridge
  <2> QED
    BY <2>1 DEF Dead, FreshInv
<1>3. CASE Crash
  BY <1>3 DEF Crash, Dead
<1>4. CASE Restart
  BY <1>4 DEF Restart, Dead
<1> QED
  BY <1>1, <1>2, <1>3, <1>4 DEF Next

\* A misread is never forgotten.
LEMMA SpoiledStep ==
    ASSUME FreshInv, [Next]_vars, spoiled' = {}
    PROVE  spoiled = {} /\ \A t \in Threads : ~Misread(t) /\ ~ReadPart(t)
<1>1. \A t \in Threads : ~Misread(t) /\ ~ReadPart(t)
  BY DEF Misread, ReadPart
<1>2. ASSUME NEW t \in Threads, Begin(t) \/ Step(t) PROVE spoiled' = spoiled
  BY <1>1, <1>2 DEF Begin, Step, Read, CheckBridgeConnected, Connect, SetResponse,
     SendReset, SendTop, BeginRead, ReadStdout, ReadToken, ReadEOF, Translate, UseAnswer
<1>3. ASSUME (\E c \in Conns : Serve(c)) \/ Crash \/ Restart \/ UNCHANGED vars
      PROVE  spoiled' = spoiled
  BY <1>3 DEF Serve, Crash, Restart, vars
<1> QED
  BY <1>1, <1>2, <1>3 DEF Next

LEMMA InitFresh == Init => FreshInv
<1> SUFFICES ASSUME Init PROVE FreshInv
  OBVIOUS
<1>1. IInv /\ CountInv
  BY InitTypeInv, InitPaired, InitInStep, InitCount DEF IInv
<1>2. Dead
  BY DEF Init, Dead
<1>3. \A t \in Threads : WorldFor(t)
  BY DEF Init, WorldFor, Asking
<1>4. NoStrays /\ FreshWorld
  BY DEF Init, NoStrays, FreshWorld
<1> QED
  BY <1>1, <1>2, <1>3, <1>4 DEF FreshInv, Worlds

LEMMA FreshStep ==
    ASSUME FreshInv, MaxParallel = 1, "refused" \notin Kinds, [Next]_vars
    PROVE  FreshInv'
<1>1. IInv' /\ CountInv' /\ Dead'
  BY PairedStep, CountStep, DeadStep DEF FreshInv
<1>2. SUFFICES ASSUME spoiled' = {} PROVE Worlds'
  BY <1>1 DEF FreshInv
<1>3. spoiled = {} /\ \A t \in Threads : ~Misread(t) /\ ~ReadPart(t)
  BY <1>2, SpoiledStep
<1>4. ASSUME NEW t \in Threads, Begin(t) PROVE Worlds'
  BY <1>3, <1>4, BeginWorld
<1>5. ASSUME NEW t \in Threads, Step(t) PROVE Worlds'
  BY <1>3, <1>5, CheckBridgeConnectedWorld, ConnectWorld, SetResponseWorld,
     SendResetWorld, SendTopWorld, BeginReadWorld, ReadStdoutWorld, ReadTokenWorld,
     ReadEOFWorld, TranslateWorld, UseAnswerWorld DEF Step, Read
<1>6. ASSUME NEW c \in Conns, Serve(c) PROVE Worlds'
  BY <1>3, <1>6, ServeWorld
<1>7. CASE Crash \/ Restart \/ UNCHANGED vars
  BY <1>3, <1>7, CrashWorld, IdleWorld
<1> QED
  BY <1>4, <1>5, <1>6, <1>7 DEF Next

(* generate resets ACL2 for every program: when executions do not overlap, no  *)
(* message was misread and ACL2 refuses nothing, the answer to each construct  *)
(* was computed in the world of exactly the program's constructs before it,    *)
(* also when ACL2 died and was started again, and when builds ran in between.  *)
THEOREM WorldsAreFresh ==
    ASSUME MaxParallel = 1, "refused" \notin Kinds
    PROVE  Spec => []FreshWorldUnlessMisread
<1>1. FreshInv => FreshWorldUnlessMisread
  BY DEF FreshInv, Worlds, FreshWorldUnlessMisread
<1>2. FreshInv /\ [Next]_vars => FreshInv'
  BY FreshStep
<1> QED
  BY <1>1, <1>2, InitFresh, PTL DEF Spec
=============================================================================
