---------------------------- MODULE BridgeSession ----------------------------
(***************************************************************************)
(* The evaluation of Syntheto programs over the ACL2 Bridge: the static    *)
(* command/response pair of BridgeClient, SynthetoGenerator.generate (run  *)
(* by the language server for every executed cell) and doGenerate (run for *)
(* every built resource), and the bridge at the other end.                 *)
(*                                                                         *)
(* A thread walks through                                                  *)
(*                                                                         *)
(*   idle -> check -> connect -> swap -> hello -> helloRead                *)
(*               \-> reset -> resetSent -> resetRead -> program            *)
(*                   -> (send -> topSent -> topRead -> use)* -> done       *)
(*                                                                         *)
(* one step per access to something another thread may touch in between.   *)
(***************************************************************************)
EXTENDS BridgeWire, FiniteSets

CONSTANTS
    Tops,          \* number of top-level constructs each thread's program has
    Kinds,         \* the values the bridge may return in this instance
    MaxOut,        \* bound on the STDOUT frames of one answer
    MaxFaults,     \* bound on crashes, unreadable and refused answers together
    MaxParallel    \* how many executes the language server runs at once

ASSUME ThreadsAssumption ==
    /\ Executes \cap Builds = {}
    /\ IsFiniteSet(Threads)
    /\ NoConn \notin Threads
ASSUME TopsAssumption == Tops \in [Threads -> Nat]
ASSUME KindsAssumption == Kinds \subseteq Values
ASSUME BoundsAssumption ==
    MaxOut \in Nat /\ MaxFaults \in Nat /\ MaxParallel \in Nat \ {0}

VARIABLES
    command, response,      \* BridgeClient's statics: the socket each is on
    isBridgeInitialized,    \* SynthetoGenerator's static flag
    lastParsed,             \* lastParsedSExpression of each BridgeResponse
    pc, sock, phase, next,  \* per thread: where it is, the socket it reads,
                            \* tokens matched so far, the construct it is at
    allResults, verdict,    \* per thread: answers reported, how it ended
    inbox, unread, at,      \* per socket: commands not yet taken by the
                            \* bridge, messages not yet read, and how far
                            \* into the first of them the reader is
    open, up, world,        \* per socket; whether the bridge runs; its world
    faults,                 \* faults so far
    spoiled,                \* history: sockets on which a message was misread
    torn                    \* history: sockets on which a token was not read
                            \* whole, by one reader

client == <<command, response, isBridgeInitialized, lastParsed>>
thread == <<pc, sock, phase, next>>
report == <<allResults, verdict>>
wire   == <<inbox, unread, at>>
bridge == <<open, up, world, faults>>
vars   == <<client, thread, report, wire, bridge, spoiled, torn>>

Reading == {"helloRead", "resetRead", "topRead"}
PCs == {"idle", "check", "connect", "swap", "hello", "reset", "resetSent",
        "program", "send", "topSent", "use", "done"} \cup Reading
Verdicts == {"none", "success", "error", "violations", "internal"}
Nothing == [val |-> "nothing"]      \* lastParsedSExpression == null

TypeOK ==
    /\ command \in Conns \cup {NoConn}
    /\ response \in Conns \cup {NoConn}
    /\ isBridgeInitialized \in BOOLEAN
    /\ lastParsed \in [Conns -> Messages \cup {Nothing}]
    /\ pc \in [Threads -> PCs]
    /\ sock \in [Threads -> Conns \cup {NoConn}]
    /\ phase \in [Threads -> 0..9]
    /\ next \in [Threads -> Nat]
    /\ allResults \in [Threads -> Seq(Messages)]
    /\ verdict \in [Threads -> Verdicts]
    /\ inbox \in [Conns -> Seq(Commands)]
    /\ unread \in [Conns -> Seq(Messages)]
    /\ at \in [Conns -> 0..9]
    /\ open \in [Conns -> BOOLEAN]
    /\ up \in BOOLEAN
    /\ world \in Seq(Commands)
    /\ faults \in 0..MaxFaults
    /\ spoiled \subseteq Conns
    /\ torn \subseteq Conns

\* What keeps the positions in range: a reader never stands past the end of the
\* message it reads or of the layout it expects, and reads an existing socket.
InRange ==
    /\ \A c \in Conns :
          IF unread[c] = <<>> THEN at[c] = 0
                              ELSE at[c] < Len(Layout(Head(unread[c])))
    /\ \A t \in Threads :
          /\ pc[t] = "helloRead" => phase[t] < Len(HelloLayout)
          /\ pc[t] \in Reading => sock[t] # NoConn
          /\ pc[t] \in Reading \cup {"use"} => response # NoConn

Init ==
    /\ command = NoConn /\ response = NoConn
    /\ isBridgeInitialized = FALSE
    /\ lastParsed = [c \in Conns |-> Nothing]
    /\ pc = [t \in Threads |-> "idle"]
    /\ sock = [t \in Threads |-> NoConn]
    /\ phase = [t \in Threads |-> 0]
    /\ next = [t \in Threads |-> 1]
    /\ allResults = [t \in Threads |-> <<>>]
    /\ verdict = [t \in Threads |-> "none"]
    /\ inbox = [c \in Conns |-> <<>>]
    /\ unread = [c \in Conns |-> <<>>]
    /\ at = [c \in Conns |-> 0]
    /\ open = [c \in Conns |-> FALSE]
    /\ up = TRUE
    /\ world = <<>>
    /\ faults = 0
    /\ spoiled = {}
    /\ torn = {}

Active == {t \in Threads : pc[t] \notin {"idle", "done"}}

-----------------------------------------------------------------------------
(* How a thread moves on. *)

Goto(t, where) == pc' = [pc EXCEPT ![t] = where]

Finish(t, how) ==
    /\ Goto(t, "done")
    /\ verdict' = [verdict EXCEPT ![t] = how]

\* An exception leaves the code thread t is in.  checkBridgeConnected catches
\* what goes wrong up to the reset and generate carries on regardless;
\* anything later, and everything in doGenerate, ends the thread.
Throw(t) ==
    IF t \in Executes /\ pc[t] \in {"connect", "swap", "hello", "helloRead",
                                    "reset", "resetSent", "resetRead"}
      THEN Goto(t, "program") /\ UNCHANGED verdict
      ELSE Finish(t, "error")

-----------------------------------------------------------------------------
(* The client. *)

\* CommandService.execute (or the builder) takes the request up and validates
\* the resource: it is refused, or a build finds no Program in it.  The language
\* server runs executes in parallel, and a build only when no execute is running.
Begin(t) ==
    /\ pc[t] = "idle"
    /\ IF t \in Builds
         THEN Active = {}
         ELSE Cardinality(Active) < MaxParallel /\ Active \cap Builds = {}
    /\ \/ Finish(t, "violations")
       \/ /\ Goto(t, IF t \in Executes THEN "check" ELSE "connect")
          /\ UNCHANGED verdict
    /\ UNCHANGED <<client, sock, phase, next, allResults, wire, bridge, spoiled, torn>>

\* Variant: the reset is skipped on a session already connected.
CheckBridgeConnectedNoReset(t) ==
    /\ pc[t] = "check"
    /\ Goto(t, IF isBridgeInitialized THEN "program" ELSE "connect")
    /\ UNCHANGED <<client, sock, phase, next, report, wire, bridge, spoiled, torn>>

\* Variant: the flag is set before the connection is made.
CheckBridgeConnectedFlagFirst(t) ==
    /\ pc[t] = "check"
    /\ Goto(t, IF isBridgeInitialized THEN "reset" ELSE "connect")
    /\ isBridgeInitialized' = TRUE
    /\ UNCHANGED <<command, response, lastParsed, sock, phase, next, report, wire,
                   bridge, spoiled, torn>>

CheckBridgeConnected(t) ==
    /\ pc[t] = "check"
    /\ Goto(t, IF isBridgeInitialized THEN "reset" ELSE "connect")
    /\ UNCHANGED <<client, sock, phase, next, report, wire, bridge, spoiled, torn>>

\* connectToBridge: a new socket, then command, then response, then the hello.
\* The socket in use before, if any, is dropped without being closed.
Connect(t) ==
    /\ pc[t] = "connect"
    /\ \/ /\ up
          /\ open' = [open EXCEPT ![t] = TRUE]
          /\ inbox' = [inbox EXCEPT ![t] = <<Hello(t)>>]
          /\ command' = t
          /\ Goto(t, "swap")
          /\ UNCHANGED verdict
       \/ /\ ~up
          /\ Throw(t)
          /\ UNCHANGED <<open, inbox, command>>
    /\ UNCHANGED <<response, isBridgeInitialized, lastParsed, sock, phase, next,
                   allResults, unread, at, up, world, faults, spoiled, torn>>

\* Variant: the greeting is not read.
SetResponseNoHello(t) ==
    /\ pc[t] = "swap"
    /\ response' = t
    /\ Goto(t, "reset")
    /\ UNCHANGED <<command, isBridgeInitialized, lastParsed, sock, phase, next,
                   report, wire, bridge, spoiled, torn>>

SetResponse(t) ==
    /\ pc[t] = "swap"
    /\ response' = t
    /\ Goto(t, "hello")
    /\ UNCHANGED <<command, isBridgeInitialized, lastParsed, sock, phase, next,
                   report, wire, bridge, spoiled, torn>>

\* writeBridgeCommand.  A PrintWriter says nothing when the socket is dead.
Write(t, cmd, sent) ==
    \/ /\ command = NoConn
       /\ Throw(t)
       /\ UNCHANGED inbox
    \/ /\ command # NoConn
       /\ inbox' = IF open[command]
                     THEN [inbox EXCEPT ![command] = Append(@, cmd)]
                     ELSE inbox
       /\ Goto(t, sent)
       /\ UNCHANGED verdict

\* Variant: the answer to the reset is not waited for.
SendResetNoWait(t) ==
    /\ pc[t] = "reset"
    /\ Write(t, Reset(t), "program")
    /\ UNCHANGED <<client, sock, phase, next, allResults, unread, at, bridge,
                   spoiled, torn>>

SendReset(t) ==
    /\ pc[t] = "reset"
    /\ Write(t, Reset(t), "resetSent")
    /\ UNCHANGED <<client, sock, phase, next, allResults, unread, at, bridge,
                   spoiled, torn>>

\* toSExpression throws on what the visitor left out of a construct.
SendTop(t) ==
    /\ pc[t] = "send"
    /\ \/ Write(t, Top(t, next[t]), "topSent")
       \/ Throw(t) /\ UNCHANGED inbox
    /\ UNCHANGED <<client, sock, phase, next, allResults, unread, at, bridge,
                   spoiled, torn>>

\* The static response is looked up only now, and readResponse first forgets
\* what it parsed before; readHello does not.
BeginRead(t) ==
    /\ pc[t] \in {"hello", "resetSent", "topSent"}
    /\ \/ /\ response = NoConn
          /\ Throw(t)
          /\ UNCHANGED <<sock, phase, lastParsed>>
       \/ /\ response # NoConn
          /\ sock' = [sock EXCEPT ![t] = response]
          /\ phase' = [phase EXCEPT ![t] = 0]
          /\ lastParsed' = IF pc[t] = "hello" THEN lastParsed
                           ELSE [lastParsed EXCEPT ![response] = Nothing]
          /\ Goto(t, CASE pc[t] = "hello" -> "helloRead"
                       [] pc[t] = "resetSent" -> "resetRead"
                       [] pc[t] = "topSent" -> "topRead")
          /\ UNCHANGED verdict
    /\ UNCHANGED <<command, response, isBridgeInitialized, next, allResults,
                   wire, bridge, spoiled, torn>>

\* Variant: the position is not set back for the next message.
ConsumeWithoutReset(c) ==
    /\ at' = [at EXCEPT ![c] = @ + 1]
    /\ unread' = IF at[c] + 1 = Len(Layout(Head(unread[c])))
                   THEN [unread EXCEPT ![c] = Tail(@)]
                   ELSE unread

\* The reader of socket c moves past one token; past the last one of a
\* message, to the next message.
Consume(c) ==
    IF at[c] + 1 = Len(Layout(Head(unread[c])))
      THEN /\ at' = [at EXCEPT ![c] = 0]
           /\ unread' = [unread EXCEPT ![c] = Tail(@)]
      ELSE /\ at' = [at EXCEPT ![c] = @ + 1]
           /\ UNCHANGED unread

\* Variant: the READY after an answer is left in the stream.
ExpectedWithoutReady(t) ==
    IF pc[t] = "helloRead" THEN HelloLayout ELSE <<"RETURN", "value", "nl">>

Expected(t) == IF pc[t] = "helloRead" THEN HelloLayout ELSE AnswerLayout

\* A token thread t can read is in the stream.
Readable(t) ==
    /\ pc[t] \in Reading
    /\ unread[sock[t]] # <<>>

NextToken(t) == TokenAt(Head(unread[sock[t]]), at[sock[t]])
Expects(t) == Expected(t)[phase[t] + 1]

\* The STDOUT loop of readResponse takes the next token.
Printed(t) == NextToken(t) = "STDOUT" /\ pc[t] # "helloRead" /\ phase[t] = 0

\* The next token is not the one expected.
Unexpected(t) ==
    /\ NextToken(t) # Expects(t)
    /\ ~Printed(t)

(***************************************************************************)
(* BridgeResponse reads a character at a time.  A reader that has a socket *)
(* for itself takes the tokens whole, as ReadStdout, ReadToken and Misread *)
(* do, for as long as none stops inside of one.  Else, ReadPart.           *)
(***************************************************************************)

TakesWhole(t) == Readable(t) /\ sock[t] \notin torn

\* Another thread reads from the same socket.
Shared(t) == \E u \in Threads \ {t} : pc[u] \in Reading /\ sock[u] = sock[t]

\* A reader that meets another token than it expects stops at its first character,
\* but in "REA", taken for the beginning of RETURN, at the last; one that counts
\* the characters of a value does not stop.
StopsInside(t) ==
    /\ Unexpected(t)
    /\ NextToken(t) \in Long \/ Expects(t) = "value"
    /\ ~(NextToken(t) = "REA" /\ Expects(t) = "RETURN")

ReadStdout(t) ==
    LET c == sock[t] IN
    /\ TakesWhole(t) /\ Printed(t)
    /\ unread' = [unread EXCEPT ![c][1].out = @ - 1]
    /\ UNCHANGED <<client, thread, report, inbox, at, bridge, spoiled, torn>>

\* readHello, or readResponse, returns.
Complete(t) ==
    /\ phase' = [phase EXCEPT ![t] = 0]
    /\ Goto(t, CASE pc[t] = "helloRead" -> "reset"
                 [] pc[t] = "resetRead" -> "program"
                 [] pc[t] = "topRead" -> "use")
    /\ isBridgeInitialized' =
         (isBridgeInitialized \/ (pc[t] = "helloRead" /\ t \in Executes))

\* The next token is the one expected.  The value is parsed, and recorded, as
\* soon as it is read: before the newline and READY that follow it.
ReadToken(t) ==
    LET c == sock[t] IN
    /\ TakesWhole(t)
    /\ NextToken(t) = Expects(t)
    /\ ~ (NextToken(t) = "value" /\ Head(unread[c]).val = "unreadable")
    /\ Consume(c)
    /\ lastParsed' = IF NextToken(t) = "value"
                       THEN [lastParsed EXCEPT ![c] = Head(unread[c])]
                       ELSE lastParsed
    /\ IF phase[t] + 1 = Len(Expected(t))
         THEN Complete(t)
         ELSE /\ phase' = [phase EXCEPT ![t] = @ + 1]
              /\ UNCHANGED <<pc, isBridgeInitialized>>
    /\ UNCHANGED <<command, response, sock, next, report, inbox, bridge, spoiled, torn>>

\* The next token is another one, or a value the parser throws on: what
\* follows it stays in the stream.
Misread(t) ==
    LET c == sock[t] IN
    /\ TakesWhole(t)
    /\ \/ Unexpected(t) /\ ~StopsInside(t)
       \/ ~Unexpected(t) /\ NextToken(t) = "value" /\ Head(unread[c]).val = "unreadable"
    /\ Consume(c)
    /\ Throw(t)
    /\ phase' = [phase EXCEPT ![t] = 0]
    /\ spoiled' = spoiled \cup {c}
    /\ UNCHANGED <<client, sock, next, allResults, inbox, bridge, torn>>

\* Characters of a message went to two readers, or a reader stopped inside a token.
\* Which of them a read of that socket gets from then on, and whether they fit what
\* it expects, is left open: it takes what there is of the message and goes on, or
\* it ends, well or not, with some of the message left or none; and what it takes
\* for a value may be any form.
ReadPart(t) ==
    LET c == sock[t] IN
    /\ Readable(t)
    /\ c \in torn \/ Shared(t) \/ StopsInside(t)
    /\ \/ UNCHANGED lastParsed
       \/ /\ pc[t] # "helloRead"
          /\ \E val \in Kinds \ {"unreadable"} :
               lastParsed' = [lastParsed EXCEPT ![c] = [Head(unread[c]) EXCEPT !.val = val]]
    /\ \/ /\ unread' = [unread EXCEPT ![c] = Tail(@)]
          /\ phase' = [phase EXCEPT ![t] = 0]
          /\ UNCHANGED <<pc, isBridgeInitialized, verdict>>
       \/ /\ unread' = [unread EXCEPT ![c] = Tail(@)] \/ UNCHANGED unread
          /\ \/ Complete(t) /\ UNCHANGED verdict
             \/ /\ Throw(t)
                /\ phase' = [phase EXCEPT ![t] = 0]
                /\ UNCHANGED isBridgeInitialized
    /\ at' = [at EXCEPT ![c] = 0]
    /\ spoiled' = spoiled \cup {c}
    /\ torn' = torn \cup {c}
    /\ UNCHANGED <<command, response, sock, next, allResults, inbox, bridge>>

\* Variant: the reader waits at the end of the stream.
ReadEOFWaits(t) == FALSE /\ UNCHANGED vars

\* At the end of the stream read returns -1, which readAny hands on as the
\* character U+FFFF: what is left of a value or a STDOUT frame is filled with it,
\* and the next fixed character or number is not found.
ReadEOF(t) ==
    /\ pc[t] \in Reading
    /\ unread[sock[t]] = <<>> /\ ~open[sock[t]]
    /\ Throw(t)
    /\ phase' = [phase EXCEPT ![t] = 0]
    /\ UNCHANGED <<client, sock, next, allResults, wire, bridge, spoiled, torn>>

\* SynthetoVisitor turns the resource into constructs, or throws.  What an
\* execution has without constructs is no Program (generate returns null, an
\* internal error) or, as a build has, one whose constructs were all dropped
\* (an empty success).
Translate(t) ==
    /\ pc[t] = "program"
    /\ \/ Finish(t, "error")
       \/ Tops[t] = 0 /\ t \in Executes /\ Finish(t, "internal")
       \/ Tops[t] = 0 /\ Finish(t, "success")
       \/ Tops[t] > 0 /\ Goto(t, "send") /\ UNCHANGED verdict
    /\ UNCHANGED <<client, sock, phase, next, allResults, wire, bridge, spoiled, torn>>

\* Variant: the next construct is answered from the same object, unsent.
UseAnswerAgain(t) ==
    /\ pc[t] = "use"
    /\ LET answer == lastParsed[response] IN
       IF answer.val = "outcome"
         THEN /\ allResults' = [allResults EXCEPT ![t] = Append(@, answer)]
              /\ next' = [next EXCEPT ![t] = @ + 1]
              /\ IF next[t] = Tops[t]
                   THEN Finish(t, "success")
                   ELSE UNCHANGED <<pc, verdict>>
         ELSE /\ Finish(t, "error")
              /\ UNCHANGED <<allResults, next>>
    /\ UNCHANGED <<client, sock, phase, wire, bridge, spoiled, torn>>

\* Variant: the loop ends one construct early.
UseAnswerStopsEarly(t) ==
    /\ pc[t] = "use"
    /\ LET answer == lastParsed[response] IN
       IF answer.val = "outcome"
         THEN /\ allResults' = [allResults EXCEPT ![t] = Append(@, answer)]
              /\ next' = [next EXCEPT ![t] = @ + 1]
              /\ IF next[t] + 1 >= Tops[t]
                   THEN Finish(t, "success")
                   ELSE Goto(t, "send") /\ UNCHANGED verdict
         ELSE /\ Finish(t, "error")
              /\ UNCHANGED <<allResults, next>>
    /\ UNCHANGED <<client, sock, phase, wire, bridge, spoiled, torn>>

\* The answer is taken from whatever object the static response names now.
UseAnswer(t) ==
    /\ pc[t] = "use"
    /\ LET answer == lastParsed[response] IN
       IF answer.val = "outcome" \/ (answer.val = "opaque" /\ t \in Executes)
         THEN /\ allResults' = [allResults EXCEPT ![t] = Append(@, answer)]
              /\ next' = [next EXCEPT ![t] = @ + 1]
              /\ IF next[t] = Tops[t]
                   THEN Finish(t, "success")
                   ELSE Goto(t, "send") /\ UNCHANGED verdict
         ELSE /\ Finish(t, "error")
              /\ UNCHANGED <<allResults, next>>
    /\ UNCHANGED <<client, sock, phase, wire, bridge, spoiled, torn>>

-----------------------------------------------------------------------------
(* The bridge, as the client uses it. *)

\* It takes the commands of each socket in order and carries out one at a time
\* in the one ACL2 world; a command it refuses leaves the world alone.
Serve(c) ==
    /\ up /\ open[c] /\ inbox[c] # <<>>
    /\ inbox' = [inbox EXCEPT ![c] = Tail(@)]
    /\ \E val \in Kinds, out \in 0..MaxOut :
         LET cmd == Head(inbox[c])
             hello == cmd.kind = "hello"
             fault == ~hello /\ val \in {"refused", "unreadable"}
         IN
         /\ fault => faults < MaxFaults
         /\ faults' = IF fault THEN faults + 1 ELSE faults
         /\ unread' = [unread EXCEPT ![c] =
                         Append(@, [cmd |-> cmd,
                                    val |-> IF fault \/ cmd.kind = "top"
                                              THEN val ELSE "noform",
                                    world |-> world,
                                    out |-> IF hello THEN 0 ELSE out])]
         /\ world' = IF hello \/ val = "refused" THEN world
                     ELSE IF cmd.kind = "reset" THEN <<>>
                     ELSE Append(world, cmd)
    /\ UNCHANGED <<client, thread, report, at, open, up, spoiled, torn>>

\* The ACL2 process dies: what it had not answered is never answered.
Crash ==
    /\ up /\ faults < MaxFaults
    /\ up' = FALSE
    /\ faults' = faults + 1
    /\ open' = [c \in Conns |-> FALSE]
    /\ inbox' = [c \in Conns |-> <<>>]
    /\ world' = <<>>
    /\ UNCHANGED <<client, thread, report, unread, at, spoiled, torn>>

Restart ==
    /\ ~up
    /\ up' = TRUE
    /\ UNCHANGED <<client, thread, report, wire, open, world, faults, spoiled, torn>>

-----------------------------------------------------------------------------
Read(t) == ReadStdout(t) \/ ReadToken(t) \/ Misread(t) \/ ReadPart(t) \/ ReadEOF(t)

Step(t) ==
    \/ CheckBridgeConnected(t) \/ Connect(t) \/ SetResponse(t)
    \/ SendReset(t) \/ SendTop(t) \/ BeginRead(t) \/ Read(t)
    \/ Translate(t) \/ UseAnswer(t)

Next ==
    \/ \E t \in Threads : Begin(t) \/ Step(t)
    \/ \E c \in Conns : Serve(c)
    \/ Crash
    \/ Restart

Spec == Init /\ [][Next]_vars

\* A thread once begun keeps running and the bridge answers while it is up;
\* nobody has to ask for another execution, or to restart ACL2.
Fairness ==
    /\ \A t \in Threads : WF_vars(Step(t))
    /\ \A c \in Conns : WF_vars(Serve(c))

FairSpec == Spec /\ Fairness

-----------------------------------------------------------------------------
(* Properties. *)

(* The part of the world a program's own constructs make up before its i-th. *)
Prefix(t, i) == [j \in 1..(i - 1) |-> Top(t, j)]

(* BridgeClient's contract: a command is sent, then the corresponding response *)
(* is received, and so on.  Every answer a program reports is the answer to    *)
(* the construct it was asked for.                                             *)
AnswersCorrespond ==
    \A t \in Threads : \A i \in 1..Len(allResults[t]) :
        allResults[t][i].cmd = Top(t, i)

(* The same for one step, and for a session in which bridge messages could     *)
(* go wrong before: an answer taken from a socket on which no message was ever *)
(* misread is the answer to the command just sent.                             *)
EachAnswerIsToItsCommand ==
    [][\A t \in Threads :
         allResults'[t] # allResults[t] /\ response \notin spoiled
           => allResults'[t] = Append(allResults[t], lastParsed[response])
              /\ lastParsed[response].cmd = Top(t, next[t])]_vars

(* generate resets ACL2 every time: the answer to the i-th construct of a      *)
(* program was computed in a world of exactly the program's constructs before  *)
(* it, nothing of an earlier program and nothing missing.                      *)
FreshWorld ==
    \A t \in Threads : \A i \in 1..Len(allResults[t]) :
        allResults[t][i].world = Prefix(t, i)

(* The same as long as no message was misread on any socket: commands of an    *)
(* abandoned read still run, on whatever socket they were sent.                *)
FreshWorldUnlessMisread == spoiled = {} => FreshWorld

(* Commands and responses come in pairs: when no thread runs, nothing is left  *)
(* of an earlier pair, neither a command on its way nor an unread token, that  *)
(* the next program would take for its own.                                    *)
NothingLeftBehind ==
    (Active = {} /\ response # NoConn /\ response \notin spoiled)
        => inbox[response] = <<>> /\ unread[response] = <<>>

(* Why the pairs stay together when executions do not overlap.  At any time at *)
(* most one command is in flight on the connection in use, and what is left to *)
(* read there is exactly what the one thread running still has to read of the  *)
(* answer to it: the reader's position is the stream's.                        *)
InFlight == {"swap", "hello", "helloRead", "resetSent", "resetRead", "topSent",
             "topRead"}

\* The command thread t waits for the answer to, and how much of it t has read.
Asked(t) ==
    CASE pc[t] \in {"swap", "hello", "helloRead"} -> Hello(t)
      [] pc[t] \in {"resetSent", "resetRead"} -> Reset(t)
      [] OTHER -> Top(t, next[t])

Progress(t) == IF pc[t] \in Reading THEN phase[t] ELSE 0

Silent(c) == inbox[c] = <<>> /\ unread[c] = <<>>

Pending(c, cmd, k) ==
    \/ k = 0 /\ inbox[c] = <<cmd>> /\ unread[c] = <<>>
    \/ inbox[c] = <<>> /\ Len(unread[c]) = 1 /\ unread[c][1].cmd = cmd /\ at[c] = k
    \/ ~open[c] /\ Silent(c)

Alone == \A t, u \in Active : t = u

\* A thread between the two assignments of connectToBridge has made the first.
Swapping == \A t \in Threads : pc[t] = "swap" => command = t

\* No command waits on a socket that is not open.
Abandoned == \A c \in Conns : ~open[c] => inbox[c] = <<>>

OneConnection == (\A t \in Threads : pc[t] # "swap") => command = response

ReadsCurrent == \A t \in Threads : pc[t] \in Reading => sock[t] = response

Unopened ==
    \A t \in Threads :
        pc[t] \in {"idle", "check", "connect"}
            => Silent(t) /\ command # t /\ response # t

Quiet ==
    (\A t \in Threads : pc[t] \notin InFlight) /\ command \notin spoiled
        => command = NoConn \/ Silent(command)

Exchange ==
    \A t \in Threads :
        pc[t] \in InFlight /\ command \notin spoiled
            => command # NoConn /\ Pending(command, Asked(t), Progress(t))

Parsed ==
    \A t \in Threads :
        (/\ pc[t] = "use" \/ (pc[t] = "topRead" /\ phase[t] >= 2)
         /\ command \notin spoiled)
            => lastParsed[command].cmd = Top(t, next[t])

PairedExchange ==
    /\ Alone /\ Swapping /\ Abandoned /\ OneConnection /\ ReadsCurrent /\ Unopened
    /\ Quiet /\ Exchange /\ Parsed

(* One answer of ACL2 is reported once: not to two programs, and not for two   *)
(* constructs of one, whatever was misread.                                    *)
ReportedOnce ==
    \A t, u \in Threads :
        \A i \in 1..Len(allResults[t]), j \in 1..Len(allResults[u]) :
            allResults[t][i].cmd = allResults[u][j].cmd => t = u /\ i = j

(* The flag that stops the client from connecting is only ever set when both   *)
(* halves of the connection are there to use.                                  *)
InitializedMeansConnected ==
    isBridgeInitialized => command # NoConn /\ response # NoConn

(* A program reported as a success has an answer for each of its constructs,   *)
(* whatever other executions did to the connection meanwhile.                  *)
SuccessIsComplete ==
    \A t \in Threads :
        verdict[t] = "success" => Len(allResults[t]) = Tops[t]

(* Every execution and every build that begins comes to an end, whatever the   *)
(* bridge answers and also when it dies.                                       *)
Completes == \A t \in Threads : pc[t] = "check" \/ pc[t] = "connect" ~> pc[t] = "done"

(* An execution that does not come to an end waits, from some time on, for     *)
(* more of an answer on an open socket: however executions overlap and         *)
(* whatever they take from each other, a message that has arrived or a         *)
(* connection that is lost never leaves one waiting.                           *)
OnlyWaitsForACL2 ==
    \A t \in Threads :
        []<>(t \in Active)
          => <>[](pc[t] \in Reading /\ open[sock[t]] /\ unread[sock[t]] = <<>>)

(* Characters are read in whole tokens: when executions do not overlap, no two *)
(* readers meet in a token and none stops inside of one, not even a reader     *)
(* that is out of step with the stream.                                        *)
TokensAreWhole == torn = {}

(* What the user sees of a program: nothing yet, a failure, or the answers.    *)
Shown ==
    [t \in Threads |->
        IF pc[t] # "done" THEN [status |-> "pending"]
        ELSE IF verdict[t] # "success" THEN [status |-> "failed"]
        ELSE [status  |-> "answered",
              answers |-> [i \in 1..Len(allResults[t]) |->
                              [cmd   |-> allResults[t][i].cmd,
                               world |-> allResults[t][i].world]]]]

Abstract == INSTANCE Evaluator WITH
                Programs <- Threads, Length <- Tops, Construct <- Top,
                shown <- Shown

(* The session over the bridge implements the evaluator, as long as executions *)
(* do not overlap and the bridge answers readably and refuses nothing: whether *)
(* ACL2 crashes, a resource is built in between, or a connection fails.        *)
ImplementsEvaluator == Abstract!Spec

\* What JobServer calls an answer.
Result(m) == [construct |-> m.cmd, world |-> m.world]

Program(t) == [i \in 1..Tops[t] |-> Top(t, i)]

Results(t) == [i \in 1..Len(allResults[t]) |-> Result(allResults[t][i])]

\* The answer, if any, of which thread t has not used the value yet.
Held(t) ==
    IF pc[t] = "use"
      THEN <<Result(lastParsed[response])>>
    ELSE IF pc[t] \in {"topSent", "topRead"} /\ unread[response] # <<>>
      THEN <<Result(Head(unread[response]))>>
    ELSE <<>>

\* The reset of thread t has been carried out, or has failed.
ResetOver(t) ==
    \/ pc[t] \in {"program", "send", "topSent", "topRead", "use"}
    \/ pc[t] \in {"resetSent", "resetRead"} /\ unread[response] # <<>>

JobState(t) ==
    IF pc[t] = "done" THEN IF verdict[t] = "success" THEN "done" ELSE "failed"
    ELSE IF ~ResetOver(t) THEN "begun"
    ELSE IF command # NoConn /\ open[command] THEN "running" ELSE "cut off"

NoJob == [state |-> "none"]

JobOf(t) ==
    IF pc[t] = "idle" THEN NoJob
    ELSE [program |-> Program(t),
          state   |-> JobState(t),
          answers |-> IF JobState(t) = "failed" THEN <<>> ELSE Results(t) \o Held(t),
          served  |-> TRUE]

ServerJobs == [t \in Threads |-> JobOf(t)]

Serving == INSTANCE JobServer WITH
               Jobs <- Threads, Constructs <- Commands, None <- NoJob,
               jobs <- ServerJobs

(* In between, the session over the bridge does for each program what a        *)
(* language server does in JobServer, step by step and in the same world: one  *)
(* reset, then each construct carried out once, in order and in the world the  *)
(* one before it left, until it is over or fails; and when ACL2 dies nothing   *)
(* more is carried out for the program.  Under the same conditions.            *)
ImplementsJobServer == Serving!Spec
=============================================================================
