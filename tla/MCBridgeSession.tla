--------------------------- MODULE MCBridgeSession ---------------------------
(***************************************************************************)
(* Instances of BridgeSession for TLC.                                      *)
(***************************************************************************)
EXTENDS BridgeSession, TLC

CONSTANTS e1, e2, e3, e4, e5, e6, b1, b2

NoThreads == {}
OneBuild == {b1}

TwoExecutes == {e1, e2}
FourExecutes == {e1, e2, e3, e4}

\* e1 has one construct, e2 two, the build one.
SequentialTops == [t \in Threads |-> IF t = e2 THEN 2 ELSE 1]

\* An empty program, one of two constructs, and a build of two.
RefinementTops == [t \in Threads |-> IF t = e1 THEN 0 ELSE 2]

\* Two executions to overlap on a connection made before, e2 and e3, and two empty ones
\* to make the first.
ConcurrentTops == [t \in Threads |-> CASE t = e2 -> 2 [] t = e3 -> 1 [] OTHER -> 0]

SixExecutes == {e1, e2, e3, e4, e5, e6}
OneTopEach == [t \in Threads |-> 1]

\* The state when all but e2 and e3 have run: e1 connected, reset the world, and could not
\* be translated; the others were refused.
ConnectedInit ==
    /\ command = e1 /\ response = e1
    /\ isBridgeInitialized = TRUE
    /\ lastParsed = [c \in Conns |->
                       IF c = e1 THEN [cmd |-> Reset(e1), val |-> "noform",
                                       world |-> <<>>, out |-> 0]
                                 ELSE Nothing]
    /\ pc = [t \in Threads |-> IF t \in {e2, e3} THEN "idle" ELSE "done"]
    /\ sock = [t \in Threads |-> IF t = e1 THEN e1 ELSE NoConn]
    /\ phase = [t \in Threads |-> 0]
    /\ next = [t \in Threads |-> 1]
    /\ allResults = [t \in Threads |-> <<>>]
    /\ verdict = [t \in Threads |-> CASE t = e1 -> "error"
                                        [] t \in {e2, e3} -> "none"
                                        [] OTHER -> "violations"]
    /\ inbox = [c \in Conns |-> <<>>]
    /\ unread = [c \in Conns |-> <<>>]
    /\ at = [c \in Conns |-> 0]
    /\ open = [c \in Conns |-> c = e1]
    /\ up = TRUE
    /\ world = <<>>
    /\ faults = 0
    /\ spoiled = {}
    /\ torn = {}

\* The state when e2 and e3 have run, and were refused: nothing has connected.
UnconnectedInit ==
    /\ command = NoConn /\ response = NoConn
    /\ isBridgeInitialized = FALSE
    /\ lastParsed = [c \in Conns |-> Nothing]
    /\ pc = [t \in Threads |-> IF t \in {e2, e3} THEN "done" ELSE "idle"]
    /\ sock = [t \in Threads |-> NoConn]
    /\ phase = [t \in Threads |-> 0]
    /\ next = [t \in Threads |-> 1]
    /\ allResults = [t \in Threads |-> <<>>]
    /\ verdict = [t \in Threads |-> IF t \in {e2, e3} THEN "violations" ELSE "none"]
    /\ inbox = [c \in Conns |-> <<>>]
    /\ unread = [c \in Conns |-> <<>>]
    /\ at = [c \in Conns |-> 0]
    /\ open = [c \in Conns |-> FALSE]
    /\ up = TRUE
    /\ world = <<>>
    /\ faults = 0
    /\ spoiled = {}
    /\ torn = {}

ConcurrentInit == ConnectedInit \/ UnconnectedInit

\* A thread will yet try to connect.
Connecting == ~isBridgeInitialized \/ \E t \in Threads : pc[t] = "connect"

\* Next, but that ACL2 is only started again where a thread could tell.
ConcurrentNext ==
    \/ \E t \in Threads : Begin(t) \/ Step(t)
    \/ \E c \in Conns : Serve(c)
    \/ Crash
    \/ Connecting /\ Restart

ConcurrentSpec == ConcurrentInit /\ [][ConcurrentNext]_vars /\ Fairness

\* The behaviours in which each token is read whole, where the model leaves nothing
\* open: what goes wrong in one of these goes wrong in the code.
WholeTokensSpec == Init /\ [][Next /\ torn' = {}]_vars /\ Fairness

\* Executes differ only by name.
ExecuteSymmetry == Permutations(SixExecutes)
=============================================================================
