----------------------------- MODULE BridgeWire -----------------------------
(***************************************************************************)
(* What travels on a socket between the Java bridge client and the ACL2    *)
(* Bridge: commands one way, framed messages the other way.                *)
(*                                                                         *)
(* A message is kept on the wire as one record; how much of it has been    *)
(* read is a position in its layout.  A layout is cut where a reader that  *)
(* is out of step with the stream can stop: "REA" is one token because     *)
(* readResponse, met with "READY", accepts the R as the R of RETURN,       *)
(* accepts the E, and only gives up on the A.                              *)
(***************************************************************************)
EXTENDS Naturals, Sequences

CONSTANTS
    Executes,   \* midas.a requests, each one an execution of generate
    Builds      \* resources built, each one an execution of doGenerate

Threads == Executes \cup Builds

\* A thread opens at most one socket in its life, so a socket bears its name.
NoConn == "no connection"
Conns == Threads

Commands == [kind: {"hello", "reset", "top"}, by: Threads, n: Nat]

Hello(t)  == [kind |-> "hello", by |-> t, n |-> 0]
Reset(t)  == [kind |-> "reset", by |-> t, n |-> 0]
Top(t, i) == [kind |-> "top", by |-> t, n |-> i]

(***************************************************************************)
(* The value of a RETURN frame, as the client tells values apart:          *)
(*   outcome     a (MAKE-..) form that an Outcome can be built from        *)
(*   opaque      a (MAKE-..) form whose contents no Outcome accepts        *)
(*   noform      a Lisp value with no (MAKE-..) form where one is expected *)
(*   refused     the same, and ACL2 did not carry the command out          *)
(*   unreadable  text that the S-expression parser throws on               *)
(***************************************************************************)
Values == {"outcome", "opaque", "noform", "refused", "unreadable"}

\* world is the ACL2 world the command was evaluated in; out the number of
\* STDOUT frames that precede the value.
Messages ==
    [cmd: Commands, val: Values, world: Seq(Commands), out: Nat]

Ready == <<"REA", "D", "Y", "space", "0", "nl", "nl">>
HelloLayout  == <<"HELLO">> \o Ready
AnswerLayout == <<"RETURN", "value", "nl">> \o Ready

Layout(m) == IF m.cmd.kind = "hello" THEN HelloLayout ELSE AnswerLayout

\* The tokens of several characters.
Long == {"HELLO", "STDOUT", "RETURN", "value", "REA"}

\* The token a reader finds at position k of message m: what a reader that has the
\* socket for itself takes in one go.
TokenAt(m, k) ==
    IF k = 0 /\ m.out > 0 THEN "STDOUT" ELSE Layout(m)[k + 1]
=============================================================================
