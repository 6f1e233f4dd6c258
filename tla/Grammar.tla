------------------------------ MODULE Grammar ------------------------------
(***************************************************************************)
(* Syntheto.xtext, for the expressions and functions that Visitor has a    *)
(* tree of: the set of trees that a text can be read as.  Names are not    *)
(* linked, so nothing is known of the type of a step.                      *)
(***************************************************************************)
EXTENDS SExpressions, TLC

\* Binary operators, from those that bind least.
Levels ==
    <<"==>" :> "IMPLIES" @@ "<==" :> "IMPLIED" @@ "<=>" :> "IFF",
      "||" :> "OR",
      "&&" :> "AND",
      ">=" :> "GE" @@ "<=" :> "LE" @@ "==" :> "EQ" @@ "!=" :> "NE" @@ ">" :> "GT" @@ "<" :> "LT",
      "+" :> "ADD" @@ "-" :> "SUB",
      "*" :> "MUL" @@ "/" :> "DIV" @@ "%" :> "REM">>
OpUnary == "!" :> "NOT" @@ "-" :> "MINUS"

Clauses == <<"assumes", "returns", "ensures", "measure">>
Keywords == Range(Clauses) \cup {"function", "if", "else", "return", "true", "false",
                              "int", "opt", "seq", "set", "map"}
Signs == UNION {DOMAIN Levels[i] : i \in DOMAIN Levels} \cup DOMAIN OpUnary
         \cup {"(", ")", "{", "}", ",", ";", ".", ":", "=>", Quote, Backslash, NonAscii}
         \cup Whitespace
IsWord(ch) == ch \notin Signs
IsID(ch) == IsWord(ch) /\ ch \notin Keywords \cup Digits

\* Words that touch are one word, of no use here; no space is hidden in a path.
Unreadable(text) ==
    \E i \in 1..(Len(text) - 1) :
        \/ IsWord(text[i]) /\ IsWord(text[i + 1])
        \/ text[i] = "." /\ text[i + 1] \in Whitespace
        \/ text[i] \in Whitespace /\ text[i + 1] = "."

Tokens(text) == SelectSeq(text, LAMBDA ch : ch \notin Whitespace)

Upto(ts, i) == SubSeq(ts, 1, i - 1)
After(ts, i) == SubSeq(ts, i + 1, Len(ts))
At(ts, signs) == {i \in 1..Len(ts) : ts[i] \in signs}
Enclosed(ts, open, close) == Len(ts) >= 2 /\ Head(ts) = open /\ Last(ts) = close
Inner(ts) == SubSeq(ts, 2, Len(ts) - 1)

-----------------------------------------------------------------------------
(* Expressions. *)

IsPath(ts) ==
    /\ Len(ts) % 2 = 1
    /\ \A i \in 1..Len(ts) : IF i % 2 = 1 THEN IsID(ts[i]) ELSE ts[i] = "."

Path(ts) ==
    [path |-> [i \in 1..((Len(ts) + 1) \div 2) |->
                 [name |-> ts[2 * i - 1], kind |-> "any", type |-> "any"]]]

RECURSIVE Expression(_, _), Arguments(_)

Literals(ts) ==
    IF Len(ts) # 1 THEN {}
    ELSE {[bool |-> b] : b \in {x \in BOOLEAN : ts[1] = IF x THEN "true" ELSE "false"}}
         \cup {[int |-> d] : d \in {x \in Digits \ {TooLarge} : ts[1] = x}}

PrimaryExpression(ts) ==
    Literals(ts)
    \cup (IF IsPath(ts) THEN {Path(ts)} ELSE {})
    \cup (IF Enclosed(ts, "(", ")") THEN Expression(1, Inner(ts)) ELSE {})
    \cup (IF Len(ts) >= 3 /\ IsID(ts[1]) /\ Enclosed(Tail(ts), "(", ")")
            THEN {[call |-> ts[1], args |-> as] : as \in Arguments(Inner(Tail(ts)))} ELSE {})

RECURSIVE UnaryExpression(_)
UnaryExpression(ts) ==
    PrimaryExpression(ts)
    \cup (IF ts # <<>> /\ Head(ts) \in DOMAIN OpUnary
            THEN {[unary |-> OpUnary[Head(ts)], operand |-> e] : e \in UnaryExpression(Tail(ts))}
            ELSE {})

Expression(level, ts) ==
    IF level > Len(Levels) THEN UnaryExpression(ts)
    ELSE Expression(level + 1, ts)
         \cup UNION {{[binary |-> Levels[level][ts[i]], left |-> l, right |-> r] :
                        l \in Expression(level, Upto(ts, i)),
                        r \in Expression(level + 1, After(ts, i))} :
                     i \in At(ts, DOMAIN Levels[level])}

Arguments(ts) ==
    IF ts = <<>> THEN {<<>>}
    ELSE {<<e>> : e \in Expression(1, ts)}
         \cup UNION {{Append(as, e) : as \in Arguments(Upto(ts, i)) \ {<<>>},
                                      e \in Expression(1, After(ts, i))} : i \in At(ts, {","})}

-----------------------------------------------------------------------------
(* Functions. *)

RECURSIVE BlockStatement(_)
BlockStatement(ts) ==
    LET expr == IF ts # <<>> /\ Head(ts) = "return" THEN Tail(ts) ELSE ts
        block == IF expr # <<>> /\ Last(expr) = ";" THEN Expression(1, Front(expr)) ELSE {}
        if == IF /\ Len(ts) > 2 /\ ts[1] = "if" /\ ts[2] = "(" /\ Last(ts) = "}"
                THEN UNION {{[test |-> t, then |-> s1, else |-> s2] :
                               t \in Expression(1, SubSeq(ts, 3, i - 1)),
                               s1 \in BlockStatement(SubSeq(ts, i + 2, j - 1)),
                               s2 \in BlockStatement(SubSeq(ts, j + 3, Len(ts) - 1))} :
                            i \in {k \in At(ts, {")"}) : k < Len(ts) /\ ts[k + 1] = "{"},
                            j \in {k \in At(ts, {"}"}) : k + 2 < Len(ts) /\ ts[k + 1] = "else"
                                                          /\ ts[k + 2] = "{"}}
                ELSE {}
    IN  block \cup if

RECURSIVE TypeElement(_)
TypeElement(ts) ==
    LET enclosed(kw) == Len(ts) >= 3 /\ ts[1] = kw /\ Enclosed(Tail(ts), "<", ">")
        element == Inner(Tail(ts))
    IN  (IF Len(ts) # 1 THEN {}
         ELSE IF ts[1] = "int" THEN {[primitive |-> "int"]}
         ELSE IF IsID(ts[1]) THEN {[typeref |-> ts[1]]} ELSE {})
        \cup (IF enclosed("opt") THEN {[option |-> t] : t \in TypeElement(element)} ELSE {})
        \cup (IF enclosed("seq") THEN {[sequence |-> t] : t \in TypeElement(element)} ELSE {})
        \cup (IF enclosed("set") THEN {[set |-> t] : t \in TypeElement(element)} ELSE {})
        \cup (IF enclosed("map")
                THEN UNION {{[domain |-> d, range |-> r] : d \in TypeElement(Upto(element, i)),
                                                          r \in TypeElement(After(element, i))} :
                            i \in At(element, {","})}
                ELSE {})

TypedVariable(ts) ==
    IF Len(ts) >= 3 /\ IsID(ts[1]) /\ ts[2] = ":"
      THEN {[name |-> ts[1], type |-> t] : t \in TypeElement(After(ts, 2))} ELSE {}

RECURSIVE TypedVariables(_)
TypedVariables(ts) ==
    {<<v>> : v \in TypedVariable(ts)}
    \cup UNION {{Append(vs, v) : vs \in TypedVariables(Upto(ts, i)),
                                v \in TypedVariable(After(ts, i))} : i \in At(ts, {","})}

Inputs(ts) == IF ts = <<>> THEN {<<>>} ELSE TypedVariables(ts)

\* What may stand behind one of the keywords between the header and the body.
Part(ts, keyword) ==
    LET rest == After(ts, Min(At(ts, {keyword})))
        end == At(rest, Range(Clauses))
    IN  IF end = {} THEN rest ELSE Upto(rest, Min(end))

Clause(ts, keyword) ==
    IF keyword \in Range(ts) THEN Expression(1, Part(ts, keyword)) ELSE {Null}

\* There is an output if there is returns.
Returns(ts) ==
    IF "returns" \notin Range(ts) THEN {<<>>}
    ELSE IF Enclosed(Part(ts, "returns"), "(", ")") THEN TypedVariables(Inner(Part(ts, "returns")))
    ELSE {}

Functions(ts) ==
    LET opens == At(ts, {"{"})
        head == IF opens = {} THEN <<>> ELSE Upto(ts, Min(opens))
        clauses == SelectSeq(head, LAMBDA t : t \in Range(Clauses))
        header == IF clauses = <<>> THEN head ELSE Upto(head, Min(At(head, Range(Clauses))))
        params == After(header, 2)
    IN  IF /\ opens # {} /\ Last(ts) = "}"
           /\ Len(header) >= 4 /\ header[1] = "function" /\ IsID(header[2])
           /\ Enclosed(params, "(", ")")
           /\ clauses = SelectSeq(Clauses, LAMBDA t : t \in Range(clauses))
          THEN {[construct |-> "function", name |-> header[2], inputs |-> i, outputs |-> o,
                 assumes |-> a, ensures |-> e, measure |-> m, body |-> b] :
                  i \in Inputs(Inner(params)), o \in Returns(head),
                  a \in Clause(head, "assumes"), e \in Clause(head, "ensures"),
                  m \in Clause(head, "measure"),
                  b \in BlockStatement(SubSeq(ts, Min(opens) + 1, Len(ts) - 1))}
          ELSE {}

ReadExpression(text) == IF Unreadable(text) THEN {} ELSE Expression(1, Tokens(text))
ReadFunction(text) == IF Unreadable(text) THEN {} ELSE Functions(Tokens(text))
=============================================================================
