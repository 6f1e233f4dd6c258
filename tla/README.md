# Formal models of the Syntheto front end

Syntheto programs are written in cells of a VS Code notebook.  Running a cell sends
the code up to it to an Xtext language server, which parses and validates it, turns
each top-level construct into an S-expression and has ACL2 evaluate it over the ACL2
Bridge, a socket protocol.  What ACL2 answers is decoded and shown under the cell.

This directory holds TLA+ models of that path, the TLC configurations that check them
and TLAPS proofs about the session over the bridge and about the notebook.  Paths below
are relative to the repository's `syntheto-xtext/`.

## 1. Inventory

### Notebook extension (`syntheto.vscode/src`)

* State: whether the extension runs and its language client is ready; open notebook
  documents, cells, texts and outputs (VS Code's); the executions started and not ended;
  `_executionOrder`; the edits it has asked for; the files on disk.
* Operations: `activate` (extension.ts), `_executeAll` / `_doExecuteCell` (kernel.ts),
  `serializeNotebook` / `deserializeNotebook` (serializer.ts), `midas.exportSyntheto`
  (commands.ts).
* Interaction: calls `midas.a` on the language server and awaits the answer; makes an edit
  of the notebook, and awaits that, for transformed code.
* Hard: between the request and its answer the user edits, moves, deletes, saves,
  closes and runs other cells, and the server may die.  Both the serializer and the
  export take the first open notebook, the kernel takes the active editor.
* Correct when: the program sent is the notebook's own code up to the cell; an output
  stands under the cell it answers, transformed code below it; every execution ends; a
  file reopens as it was; a success shown is what ACL2 evaluated.

### Command service and generator (`…ide/CommandService.xtend`, `…/SynthetoGenerator.xtend`)

* State: the static flag `isBridgeInitialized`; otherwise local to a call.
* Operations: `execute` (validate, then `generate`), `generate` (connect once, reset
  ACL2, translate, then for each construct send, await, decode), `doGenerate` (the same for
  a built resource, under a mutex and over a new connection).
* Interaction: the language server runs `execute` requests in parallel on a thread
  pool and builds one at a time, not while a request is being executed.
* Hard: `generate` is not under the mutex; failures of connection and reset are
  swallowed; the connection is never renewed except by a build.
* Correct when: each program is answered construct by construct in a world that holds
  that program's earlier constructs and nothing else; everything begun ends.

### Bridge client (`syntheto-absynt/.../bridge`)

* State: two statics, `command` (a writer) and `response` (a reader with the last
  parsed S-expression), each on some socket; the unread part of each stream.
* Operations: `connectToBridge`, `writeBridgeCommand`, `readHello`, `readResponse`,
  `resetWorld`, `returnCommandResponse`.
* Hard: framing. A message that cannot be read to its end leaves its rest in the
  stream; nothing resynchronises; reads have no timeout; writes report no errors; the
  two statics are set one after the other.
* Correct when: commands and answers come in pairs.

### S-expressions, outcomes, abstract syntax (`syntheto-absynt/.../sexpr`, `outcome`, `ast`)

Pure code: a tokenizer and parser, a printer, about seventy node classes each with a
maker form, a printer (`toSExpression`) and a reader (`fromSExpression`), and eleven
outcome classes.  Correct when reading undoes printing, on either side of the socket, and
nothing is announced but what ACL2 said.  Hard: strings are printed without escapes but
read with them; ACL2's reader and printer are not the client's; a form is found in a
reply by its place.

### Visitor and reverse generator (`SynthetoVisitor.xtend`, `SynthetoReverseGenerator.java`)

Pure but for a memo table: parse tree to abstract syntax, and abstract syntax back to
text.  Correct when ACL2 is told what the user wrote, and the text shown to the user reads
as what ACL2 replied.  Hard: elements the visitor does not support are dropped silently or
become null; the text has to agree with a grammar that is written elsewhere.

### The rest

Grammar, scoping, validation and formatting are stateless rules of the Xtext framework;
the grammar matters to what the reverse generator writes.  The command line runs one build.  The Eclipse UI, the language server set-up, build
files, tests, demonstration logs and the copy of the VS Code API hold no logic of
their own.  `PROJECT.json` lists them all, with the places where the code is exposed to
something that tests would hardly reach.

### External

The ACL2 Bridge and ACL2 (not in the repository) and VS Code are modelled from how the
code uses them, and only as far as it does: the bridge serves each socket in order, carries
out one command at a time in its one world, answers each with optional `STDOUT` frames
and one `RETURN` frame, and may die and come back.

## 2. Modules

| Module | What it is |
| --- | --- |
| `BridgeWire` | The protocol: commands, answers, and the tokens of a message, cut where a reader out of step with the stream can stop. |
| `Evaluator` | Abstract specification: programs are answered once each, completely and in a fresh world, or fail. |
| `JobServer` | Abstract specification: what language servers do for the programs they are sent, step by step, and the one ACL2 world they do it in. |
| `BridgeSession` | `CommandService.execute`, `SynthetoGenerator`, `BridgeClient`, `BridgeResponse` and the bridge: any number of threads over any number of sockets. |
| `MCBridgeSession` | Its instances for TLC. |
| `BridgeSessionProofs` | Type correctness, for every instance. |
| `BridgePairingProofs` | The pairing of commands and answers, for every instance with one execution at a time. |
| `BridgeSuccessProofs` | The connection flag and the completeness of successes, at any parallelism. |
| `BridgeFreshWorldProofs` | The freshness of worlds, with one execution at a time and nothing refused. |
| `BridgeReportProofs` | That no answer is reported twice, with one execution at a time. |
| `BridgeRefinementProofs` | That the session implements `Evaluator`, and `JobServer`, with one execution at a time, nothing refused and all answers readable. |
| `NotebookKernel` | extension.ts, kernel.ts, serializer.ts and commands.ts, with VS Code and the language client around them. |
| `MCNotebookKernel` | Its instances for TLC. |
| `NotebookKernelProofs` | What is sent, shown, saved and exported is the notebook's own, with one notebook open at a time. |
| `NotebookSession` | `NotebookKernel` composed with the language servers it talks to and the ACL2 world behind them, that is, with `JobServer`. |
| `MCNotebookSession` | Its instance for TLC. |
| `NotebookSessionProofs` | That successes shown are evaluations and that work is shown, with one notebook open at a time; that the composition implements `NotebookKernel`, and asks of its servers what `JobServer` allows. |
| `SExpressions` | S-expressions, the two printers, and how much of a command the bridge reads. |
| `Visitor` | From the parse tree of a construct to the form that is sent. |
| `SExpressionReader` | `Tokenizer` and `Parser`, one character a step, over replies, commands and printed forms. |
| `Outcomes` | From a reply to what the user is told: `extractMakeForm2`, `OutcomeBuilder`, `ASTBuilder`, the headings of `generate`. |
| `ReverseGenerator` | The Syntheto text made of an expression, a type or a function. |
| `Grammar` | `Syntheto.xtext`: the trees a text can be read as. |
| `MCReplies` | What the user writes and ACL2 replies, for TLC, and the properties that span these modules. |

### How BridgeSession corresponds to the code

`command`, `response`, `isBridgeInitialized`, `lastParsed` are the statics of
`BridgeClient` and `SynthetoGenerator` and the field of `BridgeResponse`; the value of
the first two is the socket the object is on.  `pc` is where a thread is:

| `pc` | in the code |
| --- | --- |
| `check` | the test of the flag in `checkBridgeConnected` |
| `connect`, `swap`, `hello`, `helloRead` | `connectToBridge`: opening the socket and setting `command`, setting `response`, looking `response` up, `readHello` |
| `reset`, `resetSent`, `resetRead` | `resetWorld` |
| `program` | the visitor |
| `send`, `topSent`, `topRead`, `use` | `returnCommandResponse` and the use of `lastParsedSExpression` |

A step ends wherever another thread can interfere: each access to a static, and each
read.  `phase` counts the tokens matched so far; `inbox`, `unread` and `at` are
the two directions of each socket and the reader's position in the first message.

`BridgeResponse` reads one character a call.  A reader that has a socket to itself can be taken to
read whole tokens (`ReadStdout`, `ReadToken`, `Misread`), so long as none stops inside of one, as
one that counts the characters of a value would that meets the beginning of another message
(`StopsInside`).  Where two readers are on one socket, or one has stopped inside a token,
`ReadPart` takes over: which characters a reader gets from then on, and what it makes of them, is
left open.  It may take the rest of the message and want more, or return, or throw, and leave as
much behind.  That is more than the code can do, so what holds of it holds of the code.  `torn`
remembers the sockets on which it happened: none while executions do not overlap
(`TokensAreWhole`, checked in `sequential` and proved).  What is found wrong where executions do overlap
must not be due to `ReadPart`, so `overlap` and `hang` are checked of the behaviours in which
each token happens to be read whole (`WholeTokensSpec`).

`Throw` is what an exception does: `checkBridgeConnected` swallows it and `generate`
goes on, everywhere else it ends the thread.  `Tops` is the number of constructs each
program has after translation, `Kinds` what the bridge may answer: a form that decodes
(`outcome`), one that does not (`opaque`), a value without a form (`noform`), a refusal
(`refused`) and text on which the parser throws (`unreadable`).

There are two refinement mappings.  For `Evaluator`, a program is answered or has failed
when its thread is done.  For `JobServer` (`ServerJobs`), a job has begun until its reset is
carried out or has failed (`ResetOver`), is then running or cut off as `command` is on a socket
that is open or not, and is done or has failed with its thread; its answers are those the thread has
reported (`Results`) and the one it waits for, once that is on its way (`Held`).

Abstracted: the contents of constructs and answers (an answer is identified by the
command it answers and the world it was computed in), log files and generated files,
the wording of results, the exact characters of frames.

### How NotebookKernel corresponds to the code

The text of a cell is the number of edits it has seen, a program is the sequence of
cells with their texts.  JavaScript runs to completion between awaits, so
`_doExecuteCell` is `ExecuteAll` up to its first await (for all the cells of one
`_executeAll` call, which is one turn), `DoExecuteCell` from there, and, where the answer
is transformed code, `EditResolved` after its edit of the notebook; the export is
split the same way at its dialog.  The branch for transformed code is modelled because
the code has it, though `CommandService` sends no response of that type.

`extension` tells how far `activate` and the language client it starts have come:
nothing waits for the client, so a cell can run with no server there, and a server
that dies is started again (`ServerStops`, `ServerReady`); a request remembers whether
there was and is a server to answer it (`served`), without which it is rejected.  A
deleted cell, or a closed notebook, takes its execution along but not its request.  VS Code
refuses an edit if the notebook has changed since the edit was made up (`EditApplied`).  The
model compares the cells where VS Code compares version numbers, so it lets pass an edit of
a notebook that has changed and changed back: more than VS Code does.

### How JobServer and NotebookSession correspond to the code

`JobServer` lies between `CommandService.execute` and the sockets.  A program sent to a
server is a job: `Begin` is the call of `execute`, `Reset` and `ResetFails` are
`checkBridgeConnected`, which swallows what goes wrong, `Evaluate` is one turn of the loop
of `generate`, `Finish` its end, `Fail` a program that is invalid or whatever is thrown.
A job is cut off when it has no connection, or one to an ACL2 that died (`ACL2Dies`).  A
server that dies (`ServerDies`) leaves jobs behind whose commands ACL2 may still carry out,
once (`LeftBehind`).  Nothing is said of messages: a construct is evaluated and its own answer
is read, or the job fails.  That is what `BridgeSession` implements (`ImplementsJobServer`)
while executions do not overlap, ACL2 refuses no reset and it answers readably.  That
overlapping jobs interleave in the one world, whole commands at a time, and what becomes of
jobs when their server dies, is `JobServer`'s own; what the sockets add to that, when
executions overlap, is the subject of `overlap` and `hang`.

`NotebookSession` puts the notebook over it: a request that reaches a server begins a job
with the number of its execution, and its answer is the job's (`Answered`).  That the
client rejects the request of a dead server takes no command back, so its job stays.
`overlapped` remembers that two jobs were under way at once since the server started, or one
and what a dead server had left.  Saving and exporting are left out, as they touch
none of this.

### How the text modules correspond to the code

A text is a sequence of characters; a run of letters and hyphens, or of digits, that no
rule looks into is one character.  `SExpressionReader` follows `Tokenizer.next`
state by state, with the lists that the calls of `parseList` under way have begun, and
ACL2's own reader where a command is read: that takes any character in a string, and
after a backslash.  A bare `CODE-CHAR`, or a dot, has no place in a form: what comes of it
throws when it is printed, which `BridgeResponse` does before it is used.

`Visitor` covers functions with their clauses, theorems, product types and transformations;
of the expressions, those that others are made after (when, unless and cond visit their
parts as if does), and the paths of fields, the one place with logic of its own.  A tree
says of each step of a path what it was linked to.  A number that is too large for Java is
one that Xtext cannot convert; `checkResource` then refuses the program, and nothing of it
is sent (`CheckResource`).  `Outcomes` has a few node
classes of each kind, which all read `(maker :KEY value ...)` in the same way: first
the length, then each key and the kind of node behind it.  A class that returns null and
one that throws come to the same, as whoever asked for the node throws on null.

`Grammar` gives all trees of a token sequence, so that an ambiguity would show;
names are not linked, so nothing is known of the type of a step.  `ReverseGenerator` has
the `inSemicolonFunction` and `expressionDepth` of the code as one parameter, `ends`.
`MCReplies` reads forms with a decoder of its own (`Says...`), which tells from a form and a
tree whether one says the other; neither the visitor nor the readers are used in it.

### Plan

1. *done* `BridgeWire`, `Evaluator`, `BridgeSession`: the core, checked and proved.
2. *done* `NotebookKernel`, with the extension's start and transformed code.
3. *done* `SExpressions`, `SExpressionReader`, `Outcomes`: what ACL2 replies, from its
   printer to the heading under the cell.
4. *done* `Visitor`, `ReverseGenerator`, `Grammar`: what the user writes, to what ACL2
   reads, and what ACL2 replies, to what the user reads.
5. *done* `NotebookSession`: the notebook over its servers, as `JobServer` describes them.
6. *done* The refinements of `Evaluator`, and of `JobServer` from both sides, `ReportedOnce`,
   the notebook and its session as theorems.
7. Left: the constructs, expressions and node classes named in section 6.  Every property
   of a run is a theorem by now, except liveness and those of the texts (section 5).

## 3. What is checked

### The session over the bridge (`MCBridgeSession`)

| Run | Instance | What it shows |
| --- | --- | --- |
| `sequential` | two executions (one and two constructs) and a build, one at a time; answers with and without forms, unreadable ones, `STDOUT`, two faults | Commands and answers stay paired (`PairedExchange`, `NothingLeftBehind`, `EachAnswerIsToItsCommand`) except on a socket on which a message was misread; readers meet in no token and stop inside none, even then (`TokensAreWhole`); worlds are fresh (`FreshWorldUnlessMisread`); no answer is reported twice even then (`ReportedOnce`); everything begun ends, also when ACL2 dies (`Completes`). |
| `refinement` | an empty program, one of two constructs and a build of two, a crash, no unreadable answers | The session implements `Evaluator` (`ImplementsEvaluator`) and, step by step, `JobServer` (`ImplementsJobServer`). |
| `concurrent` | two executions (two constructs and one) that overlap on a connection made before, or two empty ones that make the first; with `STDOUT` and a crash, each reader getting whatever characters the other leaves | What overlapping does not break: a success has an answer for each construct (`SuccessIsComplete`); the flag is only set over a complete connection (`InitializedMeansConnected`); and an execution that never ends waits for more of an answer on an open socket: neither a message that has arrived nor a lost connection leaves one waiting (`OnlyWaitsForACL2`). |
| `stale` | six executions, one unreadable answer | **Violation** of `AnswersCorrespond`. |
| `overlap` | two overlapping executions that read whole tokens | **Violation** of `FreshWorld`. |
| `refused` | two executions, one refused command | **Violation** of `FreshWorld`. |
| `hang` | two overlapping first executions that read whole tokens | **Violation** of `Completes`. |

### The notebook (`MCNotebookKernel`, `MCNotebookSession`)

| Run | Instance | What it shows |
| --- | --- | --- |
| `notebook` | a notebook of two code cells around a markup cell, with room for another markup cell, and one whose file is just being created; one open at a time; one change, two executions, a server that comes late and may die | The program sent is the notebook's own code up to the cell (`SendsItsProgram`), outputs stand under their cells (`OutputIsTheCells`) and transformed code right below them (`BelowItsCell`), files reopen as saved (`Reopens`), what is exported is what running the last cell would send (`ExportsTheProgram`), and executions that were sent end (`AnsweredExecutionsEnd`). |
| `session` | a notebook of two code cells; changes and executions together three | A success shown under a cell is ACL2's evaluation of the cell's program, each construct in the world of the ones before it, unless jobs have overlapped (`ShownIsEvaluated`); a server that works shows, so that a user who waits causes no overlap (`WorkIsShown`); the servers are asked, and answer, as `JobServer` allows: no execution has the number of a job that is not over (`ServesJobs`); executions that were sent end. |
| `unfocused` | no editor in front when a cell is run | **Violation** of `ExecutionsEnd`. |

`SendsItsProgram`, `Reopens` and `ExportsTheProgram` are checked with one notebook open.
With two they fail: the serializer and the export take the first open notebook, the kernel
the active one; saving the second notebook writes the cells of the first into its file.

### The texts (`MCReplies`)

| Run | What it shows |
| --- | --- |
| `replies` | Replies (`RepliesArrive`): the client reads what ACL2 printed as it was, unless a message has a tab, a return or a character that is not ASCII, on which it throws.  Commands (`CommandsArrive`), end to end: ACL2 reads a form that says what the user wrote if, and only if, there is no string with a quote, a backslash or a character that is not ASCII, no number too large for Java (with one, nothing is sent), no path the visitor has no expression for, no product without struct, and no `flatten_param`.  The client reads its own printed forms back under a condition on their strings (`PrintedFormsReadBack`).  A success is announced only for an outcome that is one, stands in its place and is well formed (`SuccessIsSent`).  An obligation shown to the user is a text of Syntheto for that obligation, and a transformed function one for that function, under conditions the properties state exactly (`ObligationsReadBack`, `TransformedFunctionsReadBack`). |
| `failedtransform` | **Violation** of `FailureIsNoSuccess`. |

The conditions in these properties are exact: inside them all arrives, and for each way
out of them there are inputs for which it does not.  They are the list of what the
front end loses, and nothing else is lost in the instance.

### Bounds, and why they are enough

* Threads.  Pairing and freshness concern a program and the one before it, so two
  executions and a build (which renews the connection between or after them) show
  each order of kinds.  The stale answer of `stale` needs the reader to lose
  step for eight reads, which takes six executions; they differ by name only, hence the
  symmetry there (no liveness is checked in that run).  Overlap needs two threads.
* Constructs.  Two per program is the least at which an earlier construct of the
  same program is in the world, and at which a wrong answer can be off by one.
* `MaxOut`: one `STDOUT` frame makes the loop in `readResponse` run once; a second
  one repeats the same step from the same state.
* `MaxFaults`: crashes, unreadable and refused answers together; two, so that a
  crash can follow an unreadable answer and the other way round.
* `MaxParallel`: one for executions that do not overlap; two where they do.
* `notebook`: one change is an edit, a deletion or an insertion around a request in
  flight; two executions are two cells at once or one cell twice; openings, savings,
  changes of focus and deaths of the server are not bounded.
* `session`: three changes and executions together (`MaxBoth`) are two jobs and a change
  between, or three jobs.  Once jobs have overlapped there are no more than two executions
  (`MaxOverlapping`): a third says nothing more of two that share the world.  The bounds are on
  what the user does: no action that fairness is assumed of counts.
* `concurrent` begins when earlier executions are over, one of which connected or none, and has two
  more to overlap: in the first case one with a second construct to read for, in the second
  two without any, since the flag rests on who has connected and read a greeting.  One fault, a
  crash: `ReadPart` may end in an exception at any time, which is all that an unreadable answer
  does, and an execution alone with its faults is seen in `sequential`.  ACL2 is only started
  again where a thread has yet to connect; nothing else looks whether it is up (`ConcurrentSpec`).
* `replies`: strings of up to two characters, of each kind that some reader tells apart,
  and cut-off escapes; paths of up to four steps, where the first three are treated
  differently and the fourth as the third; operators of each level nested in each other on
  either side; each clause of a function with expressions that end in a word and that do
  not; each outcome with well-formed and malformed contents.  Every input is
  enumerated, so a state of the run is a position in one text.

`CHECK_DEADLOCK FALSE`: a session in which all executions have ended, or a notebook
whose bounds are used up, has nothing left to do.

### Fairness

* `WF(Step(t))`: a thread that is running keeps running; the JVM schedules it.  Reading
  is only enabled when there is something to read or the stream has ended, so a
  read without timeout that waits for ever is not ruled out: it is what `hang` finds.
* `WF(Serve(c))`: the bridge, while it is up, carries commands out.  ACL2 proof attempts
  can in fact run very long; what is shown is that nothing else keeps a cell busy.
* `WF(DoExecuteCell(c))` in the notebook: the language server answers each request, or
  the client rejects it.  Whether the server does is the subject of `Completes` and, where
  executions overlap, of `OnlyWaitsForACL2`.
* `WF(EditResolved(c))`: VS Code makes or refuses every edit.
* In `NotebookSession`, `WF` of the steps of each job, and of `Answered(c)`: a job goes on
  until it ends by `Finish` or `Fail`, and then its answer arrives.
* Nothing is assumed of `ServerReady`: a client may never get a server.
* Nobody is obliged to begin an execution, to restart ACL2, or to touch the notebook.

### What the violations say

* `stale`.  `readReturn` parses the value before it reads the newline and `READY` behind
  it (`BridgeResponse.java:444`).  When the parser throws, they stay in the stream.
  `generate` fails, and so does each of the next executions, consuming one token of the
  stream per read, until the reader meets the beginning of an old response and is in step
  again: from then on each cell shows the answer to an earlier command.
* `overlap`.  `generate` is not under the mutex that `doGenerate` takes: an execution
  resets the world in the middle of another one.
* `refused`.  `resetWorld` reads an answer and does not look at it.
* `hang`.  `connectToBridge` sets `command` and `response` in two statements; two first
  executions can end up writing to one socket and reading from the other, or both read
  one greeting, and wait for ever.
* `unfocused`.  `_doExecuteCell` returns without ending the execution it started when there
  is no active notebook editor.
* `failedtransform`.  `generate` has the same words for both outcomes of a transformation.

## 4. What is proved

All proofs are checked by TLAPS for every value of the constants that satisfies the
assumptions of the modules.  `BridgeSession`: `ThreadsAssumption` (executions and builds are
disjoint finite sets, and no thread is called `NoConn`), `TopsAssumption`,
`KindsAssumption`, `BoundsAssumption`.  `NotebookKernel`: `NotebookAssumption` (each cell
belongs to one notebook; the file of a notebook holds cells of its own, each once, and none
if it is just being created), `UnreadableAssumption` and, in `NotebookSession`,
`NoneAssumption` (these two constants are none of the values they stand beside).  What a
theorem assumes beyond these is in its `ASSUME`, and named below.

### The session over the bridge

**`TypeCorrect`** (`BridgeSessionProofs`): `Spec => []TypeOK`, for any degree of
parallelism.  `TypeOK` bounds the reader's positions but is not inductive: that
`Consume` stays within the message and `ReadToken` within the layout it expects needs
that a position is smaller than the length of the message in front, and that the
socket a thread reads exists.  `InRange` says so; `TypeInv == TypeOK /\ InRange` is
inductive.  There is one lemma per action.

**`CommandsAndAnswersPair`, `NothingIsLeftBehind`, `TokensStayWhole`, `EachAnswerIsItsOwn`**
(`BridgePairingProofs`), assuming `MaxParallel = 1`.  The inductive invariant is
`TypeInv /\ PairedExchange /\ InStep`.  `PairedExchange` says: at most one thread is active; between
connections, `command` and `response` are on the same socket, which is the one being
read; unless that socket is spoiled, when no thread is in an exchange nothing is in
flight there, and when one is, exactly its command is in flight and the reader is as far
in the answer as the thread believes; once the value has been parsed it is the answer to
the command sent.  The argument is that of the code: a command is only written when the
previous answer was read to its end.  The conjuncts about threads that
have not opened their socket yet and about closed sockets make the connection of a
build, which replaces the pair, preserve the rest.  `spoiled` is a history variable: the
sockets on which a message was misread, where the code really does lose the pairing.

`InStep` says how readers stand to the stream even there, which `TokensStayWhole` needs and
`PairedExchange`, silent about spoiled sockets, does not say.  A reader past its first token has read
as much of the message in front (`KeepsStep`); no reader leaves a value next in the stream
(`NoValueNext`), as the name of the frame and its value are read by one; and a greeting is in the
stream only for the thread that waits for it, on a socket on which nothing was misread
(`Greets`, `Greetings`).  So a reader that is out of step begins its answer in the rest of another
one, and stops at the first character, or at the end of `REA`; and one that counts is at a
value.  This is what makes reading token by token, on which the other theorems with `MaxParallel = 1`
rest, the same as reading character by character.

**`FlagMeansConnected`, `SuccessesAreComplete`** (`BridgeSuccessProofs`), for any
degree of parallelism.  The flag is set when a thread has read a greeting; the
invariant adds to it `Attached`: a thread that goes through `connectToBridge` has set
`command` (that it has found `response` set is part of `TypeInv`), and no step of any
thread takes either away.  For successes, `Counted` relates a thread's position in
the loop of `generate`, the construct it is at, and the number of answers it has: these
are local to the thread, so nothing another execution does can disturb them.

**`WorldsAreFresh`** (`BridgeFreshWorldProofs`), assuming `MaxParallel = 1` and
`"refused" \notin Kinds`.  Both are needed: `overlap` and `refused` are counterexamples
without them.  `FreshInv` adds to the two invariants above, as long as nothing was
misread, what the running thread may rely on of the ACL2 world (`WorldFor`): empty once
the reset is answered, its own earlier constructs until the next one is carried out, and
that construct too from then on; that what is parsed was computed in the former world;
and that no command waits on a connection that was given up (`NoStrays`), which would
change the world behind its back.  Nothing is claimed of the world behind a closed connection: ACL2
may have restarted, but then no further answer arrives either (`Dead`: no
connection survives a crash).

**`AnswersAreReportedOnce`** (`BridgeReportProofs`), assuming `MaxParallel = 1` only: messages
may be misread and readers lose step, so that answers are reported under the wrong
construct, but none is reported twice.  `OnceInv` says where each construct is once it was
sent (`Sent`): on a line, that is, in a command not carried out or an answer not read to its
end (`OnLine`), there once (`OneLine`); held by the thread that is about to use it, and then
on no line (`Holding`); or reported (`Reported`).  That what is held has just been taken
off its line is what `Parsing` is for: a reader that has come as far as a value is in step
with the stream, or the parser would have thrown.

**`SessionImplementsEvaluator`** (`BridgeRefinementProofs`), assuming `MaxParallel = 1`,
`"refused" \notin Kinds` and `"unreadable" \notin Kinds`: `Spec` implies `Evaluator`'s
specification under the refinement mapping of `BridgeSession`, where a program is answered
or has failed when its thread is done.  The two kinds are excluded as `refused` and `stale` are
counterexamples.  `RefInv` is `FreshInv` with `spoiled = {}`: what a reader meets is what
it expects, as every answer is readable and the reader is in step (`NothingMisread`), so that
nothing is spoiled.  The last step of a thread is then a step of `Evaluator`, as
`FreshInv` knows the number and the worlds of the answers and `AnswersCorrespond`, a
conjunct of `RefInv`, which is to which construct; every other step is none.

**`SessionImplementsJobServer`** (`BridgeRefinementProofs`), under the same assumptions: `Spec`
implies the specification of `JobServer` under the mapping `ServerJobs`.  `Evaluator` says only how a program
ends; `JobServer` also says that on the way each construct is carried out once, in order, in the
world that the one before it left, and none after the connection is lost.  The invariant is
`RefInv` again.  From it follows, in every state, that what a thread has reported and holds are
the answers, in the right worlds, to the constructs carried out for it so far
(`AnswersOfThread`: `Given(t, Carried(t))`).  A step of the session then need only be compared in what is carried
out, in the world and in the connection, for the one thread that is at work (`OneJob`, `JobGoesOn`,
`JobFails`, `JobFinishes`): `Serve` of a reset or of a construct is `Reset` or `Evaluate`, the
exceptions that `checkBridgeConnected` swallows are `ResetFails`, the last use of an answer is
`Finish`, an exception elsewhere `Fail`, `Crash` is `ACL2Dies`; reading and sending
are no steps of `JobServer`.  There is one lemma per action.

### The notebook

All of these assume `MaxOpen = 1`, but for `SessionImplementsKernel`.  With two notebooks open
the properties fail, as section 3 says, and a notebook saved over another one reads back
cells that are not its own.

**`KernelTypes`, `OutputsStayWithTheirCells`, `CellsSendTheirPrograms`,
`ExportIsTheProgram`, `NotebooksReopen`, `TransformedCodeIsBelow`** (`NotebookKernelProofs`).
The first half of the module is about the lists: what an insertion or removal leaves where,
that `Nth` enumerates a set of places in order (from the cardinalities of its initial
segments), hence that `Program` is the code of a part of the notebook, in order, and that
`AllCellContent` ends with the cell that is run.  The inductive invariant is `KernelInv`:

* only an open notebook has cells, its own, each once (`OneOpen`, `OwnCells`);
* a file holds what its notebook showed when it was saved (`Files`), and texts only
  get later (`Texts`);
* what is to be answered, what is to be inserted, what is shown under a cell and what was
  saved under it ends with that cell, in a text it has or had (`Requested`, `Edits`,
  `ShownOutputs`, `SavedOutputs`); for saved outputs the text is the saved one, as
  reopening puts that back;
* the place of an edit is the one after its cell in the list the edit was made for, which
  VS Code compares before it makes the edit (`Edits`).

None of the properties is inductive without the others: an output stays right when its
notebook is closed and reopened only because the file is, and a file is only because no
notebook is written over it.

**`SessionTypes`, `SuccessesAreEvaluated`, `WorkIsAlwaysShown`** (`NotebookSessionProofs`).
`SessionInv` is `KernelInv` and, of the servers:

* no two requests have the same number, as `_executionOrder` grows by the cells that are
  selected and their ranks differ (`Numbered`, from `ExecuteAllNumbers`);
* a request a server works for has its job there, of the same program; a job of a dead server
  has a request that is no longer served, or none (`Matched`);
* a job has an answer for each construct so far, all of them when it is done and none before its
  reset or when it has failed, and its number is one that was given out (`Fitting`);
* as long as no jobs overlap, a job that a server works for is alone, even with what dead
  servers have left behind, what it was answered is right, and the world is what it made of it
  (`Alone`);
* a cell that is executing is in its notebook, and one there that waits is executing
  (`InPlace`): so VS Code offers no second run of it.

A success is shown by `Answered` only, for a job that is done; `Matched` makes it the job
of the program that the output names, `Alone` and `Fitting` make its answers all of that
program's.  Work begins with an execution, whose cell shows it, and the answer that takes
the one away takes the other (`Numbered`).

**`SessionImplementsKernel`**: `SessionSpec => Spec`, each step of the session being a step
of the notebook or none.  So what is proved of the notebook holds over these servers.

**`SessionServesJobs`**: `SessionSpec => ServesJobs`, that is, the session is one of `JobServer` too.
The servers' own steps
are so by definition, and an answer that waits for the end of its job forgets no other.  What
has to be shown is that a run begins jobs under free numbers only, each with its own
program (`ExecuteServes`): the numbers of all jobs there are at most `_executionOrder`
(`Fitting`), also of those whose cell or server is gone, and the new ones are beyond it.
With `SessionImplementsJobServer` the two halves of the project meet in `JobServer`.

## 5. What is only model-checked

* Liveness (`Completes`, `OnlyWaitsForACL2`, `AnsweredExecutionsEnd`): it rests on
  fairness, and TLAPS does not reason about `ENABLED`.
* The texts: what recursive definitions compute for every input is out of the prover's reach
  (induction over data), and so is every module with a `RECURSIVE` operator.  `SExpressions`,
  `Visitor`, `SExpressionReader`, `Outcomes`, `Grammar`, `ReverseGenerator` and `MCReplies`
  have them, and no module with a theorem uses any of these.

## 6. What is not modelled

* Of the visitor and the abstract syntax: specifications, sum types and subtypes as
  constructs, let, when, unless and cond, the collection functions, product literals.  They
  are visited and printed part by part in the manner of what is modelled.
* Of the reverse generator: theorems, specifications and type definitions, which it
  writes part by part.
* Linking of names and scoping (run by Xtext: paths are taken as linked), validation (that
  it may refuse a program is in `BridgeSession`), formatting.
* The growing resource set of `CommandService` and the sockets that stay open: nothing in the
  code depends on how many there are.
* The command line (one build with nothing beside it); the JSON response formats, raw
  commands and `main` of `BridgeClient` (not used by the generator); log files; the UI
  projects, tests, demos and build files.
* What VS Code saves when a window is closed; that outputs are declared transient though
  they are serialized matters only there.
