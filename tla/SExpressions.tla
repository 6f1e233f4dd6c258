---------------------------- MODULE SExpressions ----------------------------
(***************************************************************************)
(* S-expressions and the text they are sent as, by SExpression.toString on *)
(* the way to ACL2 and by ACL2's printer on the way back.                  *)
(*                                                                         *)
(* A text is a sequence of characters.  What no rule looks into counts as  *)
(* one character: a run of letters and hyphens, or of digits.              *)
(***************************************************************************)
EXTENDS Naturals, Sequences, SequencesExt

CONSTANTS
    Null,                   \* Java's
    Thrown,                 \* an exception, of a reader or a visitor
    Unwritable              \* a node that holds a null, on which toSExpression throws

Str(s)      == [str |-> s]                \* s a sequence of characters
Integer(s)  == [int |-> s]                \* s its digits, with their sign
Chr(n)      == [chr |-> n]                \* n the digits of its code
Sym(p, n)   == [pkg |-> p, name |-> n]
List(es)    == [list |-> es]
Special(n)  == Sym("COMMON-LISP", n)
Keyword(n)  == Sym("KEYWORD", n)
Syntheto(n) == Sym("SYNTHETO", n)

Is(kind, e) == kind \in DOMAIN e

NIL == Special("NIL")

\* The names that are printed, and read, without a package.
SpecialNames == {"T", "NIL", "LIST", "CODE-CHAR"}

CharCodes == {"34", "65"}                 \* stand for the codes below 256

TooLarge == "2147483648"                  \* for an int of Java
Digits == {"34", "65", "300", "7", "0", TooLarge}

Quote == "\""
Backslash == "\\"
NonAscii == "e acute"
Newline == "newline"
Whitespace == {" ", Newline, "tab", "return"}
Punctuation == {"(", ")", Quote, Backslash, ":", ".", "-"} \cup Whitespace

\* ACL2 also leaves out the package of the symbols it calls its own.
SymbolText(e) ==
    IF e.pkg = "ACL2" \/ (e.pkg = "COMMON-LISP" /\ e.name \in SpecialNames) THEN <<e.name>>
    ELSE IF e.pkg = "KEYWORD" THEN <<":", e.name>>
    ELSE <<e.pkg, ":", ":", e.name>>

\* toString puts the value between quotes as it is.
StringText(s) == <<Quote>> \o s \o <<Quote>>

\* ACL2 puts a backslash before a quote and a backslash.
EscapedText(s) ==
    <<Quote>> \o FoldLeft(LAMBDA done, ch :
                            done \o (IF ch \in {Quote, Backslash} THEN <<Backslash, ch>>
                                                                  ELSE <<ch>>),
                          <<>>, s) \o <<Quote>>

RECURSIVE Text(_, _)
Text(e, escaped) ==
    CASE Is("str", e)  -> IF escaped THEN EscapedText(e.str) ELSE StringText(e.str)
      [] Is("int", e)  -> e.int
      [] Is("chr", e)  -> <<"(", "CODE-CHAR", " ", e.chr, ")">>
      [] Is("name", e) -> SymbolText(e)
      [] Is("list", e) ->
           LET parts == [i \in 1..Len(e.list) |->
                           (IF i = 1 THEN <<>> ELSE <<" ">>) \o Text(e.list[i], escaped)]
           IN  <<"(">> \o FlattenSeq(parts) \o <<")">>

RECURSIVE Atoms(_)
Atoms(e) ==
    IF Is("list", e) THEN UNION {Atoms(e.list[i]) : i \in 1..Len(e.list)} ELSE {e}

Strings(e) == {a.str : a \in {b \in Atoms(e) : Is("str", b)}}

\* (LIST e ...) and (maker :KEY value ...), as toSExpression makes them of the values
\* that a node holds: Holding tells what comes of a null or of an exception.
Holding(values, form) ==
    IF Thrown \in values THEN Thrown
    ELSE IF values \cap {Null, Unwritable} # {} THEN Unwritable
    ELSE form

ListMaker(es) == Holding(Range(es), List(<<Special("LIST")>> \o es))

Form(maker, pairs) ==
    Holding({pairs[i][2] : i \in DOMAIN pairs},
            List(<<Syntheto(maker)>> \o
                 FlattenSeq([i \in DOMAIN pairs |-> <<Keyword(pairs[i][1]), pairs[i][2]>>])))

\* wrapTopLevelCommand; the rest of what is put around a command is fixed and ASCII.
Command(e) == List(<<Syntheto("PROCESS-SYNTHETO-TOPLEVEL"), e>>)

\* What the bridge takes for the command: as many bytes as writeBridgeCommand
\* says, which is the number of characters.  In UTF-8 what ASCII lacks has two.
Taken(text, length) ==
    LET wide == {i \in 1..Len(text) : text[i] = NonAscii} IN
    SubSeq(text, 1, Max({n \in 0..Len(text) :
                           n + Cardinality({i \in wide : i <= n}) <= length}))
Received(text) == Taken(text, Len(text))
=============================================================================
