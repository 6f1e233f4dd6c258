-------------------------- MODULE ReverseGenerator --------------------------
(***************************************************************************)
(* SynthetoReverseGenerator: the Syntheto text that is shown for an        *)
(* expression, and put into a cell for a function, that came from ACL2.    *)
(***************************************************************************)
EXTENDS SExpressions, TLC

\* The i-th of the values behind the keys of a form.
Value(e, i) == e.list[2 * i + 1]
Elements(e) == Tail(e.list)               \* of a (LIST ...)
MakerOf(e) == e.list[1].name
NameOf(identifier) == Value(identifier, 1).str

OpStrings ==
    "ADD" :> "+" @@ "AND" :> "&&" @@ "DIV" :> "/" @@ "EQ" :> "==" @@ "GE" :> ">=" @@
    "GT" :> ">" @@ "IFF" :> "<=>" @@ "IMPLIED" :> "<=" @@ "IMPLIES" :> "=>" @@ "LE" :> "<=" @@
    "LT" :> "<" @@ "MUL" :> "*" @@ "NE" :> "!=" @@ "OR" :> "||" @@ "REM" :> "%" @@ "SUB" :> "-"
OpString(e) ==
    OpStrings[CHOOSE op \in DOMAIN OpStrings :
                Value(e, 1) = List(<<Syntheto("MAKE-BINARY-OP-" \o op)>>)]
Sign(e) == IF Value(e, 1) = List(<<Syntheto("MAKE-UNARY-OP-NOT")>>) THEN "!" ELSE "-"

\* The value of a literal as it is: no quotes.
LiteralText(e) ==
    LET value == Value(e, 1) IN
    CASE MakerOf(e) = "MAKE-LITERAL-STRING" -> value.str
      [] MakerOf(e) = "MAKE-LITERAL-CHARACTER" -> <<IF value.chr = "34" THEN Quote ELSE "A">>
      [] MakerOf(e) = "MAKE-LITERAL-INTEGER" -> value.int
      [] MakerOf(e) = "MAKE-LITERAL-BOOLEAN" ->
           IF value = Special("T") THEN <<"true">> ELSE <<"false">>

Separated(texts) ==
    FlattenSeq([i \in DOMAIN texts |-> IF i = 1 THEN texts[i] ELSE <<",">> \o texts[i]])

\* Variant: without the parentheses.
BinaryTextBare(left, op, right) == left \o <<op>> \o right
BinaryText(left, op, right) == <<"(">> \o left \o <<op>> \o right \o <<")">>

\* doExpression.  What it prints outside every other expression, while
\* inSemicolonFunction, it ends with a semicolon: ends tells that both are so.
RECURSIVE Reversed(_, _)
Reversed(e, ends) ==
    LET ended(text) == text \o (IF ends THEN <<";">> ELSE <<>>)
        inner(i) == Reversed(Value(e, i), FALSE)
    IN  CASE MakerOf(e) = "MAKE-EXPRESSION-VARIABLE" -> ended(NameOf(Value(e, 1)))
          [] MakerOf(e) = "MAKE-EXPRESSION-LITERAL" -> ended(LiteralText(Value(e, 1)))
          [] MakerOf(e) = "MAKE-EXPRESSION-UNARY" -> ended(<<Sign(e)>> \o inner(2))
          [] MakerOf(e) = "MAKE-EXPRESSION-BINARY" ->
               ended(BinaryText(inner(2), OpString(e), inner(3)))
          [] MakerOf(e) = "MAKE-EXPRESSION-CALL" ->
               LET args == Elements(Value(e, 3)) IN
               ended(NameOf(Value(e, 1)) \o <<"(">>
                     \o Separated([i \in DOMAIN args |-> Reversed(args[i], FALSE)]) \o <<")">>)
          [] MakerOf(e) = "MAKE-EXPRESSION-PRODUCT-FIELD" ->
               Reversed(Value(e, 2), ends) \o <<".">> \o NameOf(Value(e, 3)) \o <<" ">>
          [] MakerOf(e) = "MAKE-EXPRESSION-IF" ->
               <<"if", "(">> \o inner(1) \o <<")", " ", "{", " ", Newline>>
               \o Reversed(Value(e, 2), ends) \o <<Newline, "}", " ", "else", " ", "{", Newline>>
               \o Reversed(Value(e, 3), ends) \o <<Newline, "}", " ">>
          [] OTHER -> <<"null">>

\* doType: nothing is left of opt and set but what is in them, and nothing of a map.
RECURSIVE TypeText(_)
TypeText(e) ==
    CASE MakerOf(e) = "MAKE-TYPE-INTEGER"  -> <<"int">>
      [] MakerOf(e) = "MAKE-TYPE-DEFINED"  -> NameOf(Value(e, 1))
      [] MakerOf(e) = "MAKE-TYPE-SEQUENCE" -> <<"seq", "<">> \o TypeText(Value(e, 1)) \o <<">">>
      [] MakerOf(e) \in {"MAKE-TYPE-OPTION", "MAKE-TYPE-SET"} -> TypeText(Value(e, 1))
      [] MakerOf(e) = "MAKE-TYPE-MAP"      -> <<>>

Variables(e) ==
    LET vars == Elements(e) IN
    <<"(">> \o Separated([i \in DOMAIN vars |->
                            NameOf(Value(vars[i], 1)) \o <<":">> \o TypeText(Value(vars[i], 2))])
    \o <<")", " ">>

\* Variant: no space behind the keyword.
ClauseWithoutSpace(keyword, e, ends) ==
    IF e = NIL THEN <<>> ELSE <<keyword>> \o Reversed(e, ends)
Clause(keyword, e, ends) ==
    IF e = NIL THEN <<>> ELSE <<keyword, " ">> \o Reversed(e, ends)

\* doFunctionDefinition: the measure too is printed while inSemicolonFunction.
FunctionText(e) ==
    LET function == Value(e, 1)
        header == Value(function, 1)
        definer == Value(function, 4)
    IN  <<"function", " ">> \o NameOf(Value(header, 1)) \o Variables(Value(header, 2))
        \o Clause("assumes", Value(function, 2), FALSE)
        \o <<"returns", " ">> \o Variables(Value(header, 3))
        \o Clause("ensures", Value(function, 3), FALSE)
        \o Clause("measure", Value(definer, 2), TRUE)
        \o <<"{", " ", Newline>> \o Reversed(Value(definer, 1), TRUE) \o <<Newline, "}", " ">>
=============================================================================
