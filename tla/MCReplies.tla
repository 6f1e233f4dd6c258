----------------------------- MODULE MCReplies -----------------------------
(***************************************************************************)
(* What the user writes and what ACL2 replies, for SExpressionReader; what *)
(* a form says of a construct; and what is made of the replies.            *)
(***************************************************************************)
EXTENDS SExpressionReader, Outcomes

G == INSTANCE Grammar
R == INSTANCE ReverseGenerator

-----------------------------------------------------------------------------
(* What the user writes. *)

\* Strings of up to two characters, of every kind the readers tell apart; escapes,
\* whole and cut off; and one that looks like the outcome of another reply.
Characters == {"a", "n", " ", "(", Quote, Backslash, Newline, "tab", NonAscii}
Messages ==
    {<<>>, <<Backslash, "u", "0041">>, <<Backslash, "u", "0141">>,
     <<Backslash, "t">>, <<Backslash, "r">>,
     <<Quote, ")", " ", "(", "SYNTHETO", ":", ":", "MAKE-OUTCOME-THEOREM-SUCCESS", " ", ":",
       "MESSAGE", " ", Quote, Quote, ")">>}
    \cup {<<x>> : x \in Characters} \cup {<<x, y>> : x, y \in Characters}

StepOf(name, kind, type) == [name |-> name, kind |-> kind, type |-> type]

\* The paths of up to four steps for which SynthetoScopeProvider finds something: a
\* product and an alternative have a field of every kind, a sum has one alternative.
StepTypes == "product" :> "P" @@ "sum" :> "S" @@ "subtype" :> "Q" @@ "primitive" :> "" @@
             "collection" :> ""
FieldTypes == [StepTypes EXCEPT !["product"] = "O"]
StepsAfter(step, name) ==
    CASE step.kind \in {"product", "alternative"} ->
           {StepOf(name, k, FieldTypes[k]) : k \in DOMAIN FieldTypes}
      [] step.kind \in {"sum", "definition"} -> {StepOf("L", "alternative", "L")}
      [] OTHER -> {}
Longer(paths) == UNION {{Append(p, s) : s \in StepsAfter(Last(p), <<"n", "r", "m">>[Len(p)])} : p \in paths}
Paths1 == {<<StepOf("a", k, StepTypes[k])>> : k \in DOMAIN StepTypes}
          \cup {<<StepOf("S", "definition", "S")>>}
Paths2 == Longer(Paths1)
Paths3 == Longer(Paths2)
Paths == Paths1 \cup Paths2 \cup Paths3 \cup Longer(Paths3)

PathTo(p) == [path |-> p]
A == PathTo(<<StepOf("a", "product", "P")>>)
Field == PathTo(A.path \o <<StepOf("n", "product", "O")>>)
FieldOfField == PathTo(Field.path \o <<StepOf("r", "primitive", "")>>)
FieldOfAlternative ==
    PathTo(<<StepOf("a", "sum", "S"), StepOf("L", "alternative", "L"),
             StepOf("n", "primitive", "")>>)
Number(d) == [int |-> d]
Op(op, l, r) == [binary |-> op, left |-> l, right |-> r]
UnaryOp(op, e) == [unary |-> op, operand |-> e]
CallOf(as) == [call |-> "t", args |-> as]
IfThenElse(t, s1, s2) == [test |-> t, then |-> s1, else |-> s2]

\* Operators of every level of the grammar, two of those that do not associate.
Leveled == {"IFF", "OR", "AND", "EQ", "LT", "SUB", "MUL", "DIV"}

Small == {A, Field, Number("7"), [bool |-> TRUE]}
Expressions ==
    Small
    \cup {FieldOfField, [bool |-> FALSE], [string |-> <<"a">>], [string |-> <<"7">>],
          [string |-> <<")", " ">>], Number(TooLarge)}
    \cup {Op(op, A, Number("7")) : op \in BinaryOps}
    \cup {Op(op, l, r) : op \in {"SUB", "AND"}, l, r \in Small}
    \cup {Op(op, Op(inner, A, A), Number("7")) : op, inner \in Leveled}
    \cup {Op(op, A, Op(inner, A, Number("7"))) : op, inner \in Leveled}
    \cup {UnaryOp(op, e) : op \in UnaryOps, e \in Small \cup {Op("OR", A, A)}}
    \cup {UnaryOp("MINUS", UnaryOp("MINUS", A)), Op("SUB", A, UnaryOp("MINUS", Number("7"))),
          Op("LT", Op("SUB", A, Op("SUB", A, Field)), Op("MUL", Op("ADD", A, A), A)),
          Op("AND", Op("IMPLIED", A, A), CallOf(<<[string |-> <<>>]>>))}
    \cup {CallOf(as) : as \in {<<>>, <<A>>, <<Field, Op("ADD", A, A)>>,
                               <<A, CallOf(<<A>>), UnaryOp("NOT", A)>>}}

Bodies ==
    {IfThenElse(A, s1, s2) : s1, s2 \in {Number("7"), Field, CallOf(<<Field>>)}}
    \cup {IfThenElse(Op("EQ", Field, A), IfThenElse(A, A, Number("0")), Op("REM", A, A)),
          IfThenElse(Field, A, IfThenElse(A, Field, A))}

Name(n) == [typeref |-> n]
IntType == [primitive |-> "int"]
Types ==
    {IntType, Name("P")}
    \cup {[option |-> IntType], [sequence |-> IntType], [set |-> IntType], [domain |-> IntType, range |-> Name("P")],
          [sequence |-> [sequence |-> IntType]], [sequence |-> [option |-> IntType]]}
Var(n, t) == [name |-> n, type |-> t]

Function == [construct |-> "function", name |-> "t",
             inputs |-> <<Var("a", Name("P"))>>, outputs |-> <<Var("r", IntType)>>,
             assumes |-> Null, ensures |-> Null, measure |-> Null, body |-> A]
Clauses == Small \cup {Op("LT", A, Number("7")), CallOf(<<A>>), UnaryOp("NOT", CallOf(<<A>>)),
                       UnaryOp("NOT", A), FieldOfAlternative, Op("LT", FieldOfAlternative, A),
                       PathTo(<<StepOf("a", "product", "P"), StepOf("n", "product", "O"),
                                StepOf("r", "collection", "")>>)}
FunctionConstructs ==
    {[Function EXCEPT !.body = b] : b \in Bodies \cup Small}
    \cup {[Function EXCEPT !.assumes = e] : e \in Clauses}
    \cup {[Function EXCEPT !.ensures = e] : e \in Clauses}
    \cup {[Function EXCEPT !.measure = e] : e \in Clauses}
    \cup {[Function EXCEPT !.assumes = e, !.ensures = A, !.body = IfThenElse(A, A, A)] :
            e \in {A, CallOf(<<>>)}}
    \cup {[Function EXCEPT !.inputs = <<Var("a", t)>>] : t \in Types}
    \cup {[Function EXCEPT !.inputs = <<>>],
          [Function EXCEPT !.inputs = <<Var("a", Name("P")), Var("n", IntType), Var("r", IntType)>>],
          [Function EXCEPT !.outputs = <<>>],
          [Function EXCEPT !.outputs = <<Var("r", [sequence |-> IntType]), Var("n", IntType)>>]}

TheoremOf(e) == [construct |-> "theorem", name |-> "t", variables |-> <<Var("a", Name("P"))>>,
                 formula |-> e]
Product(struct, invariant) ==
    [construct |-> "product", name |-> "P", struct |-> struct,
     elements |-> <<Var("n", IntType), Var("r", [option |-> IntType])>>, invariant |-> invariant]
Transform(transformation) ==
    [construct |-> "transform", name |-> "n", old |-> "t", transformation |-> transformation,
     args |-> <<[name |-> "old", value |-> "a"], [name |-> "new", value |-> "r"]>>]

SomeConstructs ==
    FunctionConstructs
    \cup {TheoremOf([string |-> s]) : s \in Messages}
    \cup {TheoremOf(e) : e \in Expressions \cup {PathTo(p) : p \in Paths}}
    \cup {Product(b, e) : b \in BOOLEAN, e \in Clauses \cup {Null}}
    \cup {Transform(t) : t \in {"rename_param", "flatten_param"}}

-----------------------------------------------------------------------------
(* What ACL2 replies. *)

Message(maker, s, more) == List(<<Syntheto(maker), Keyword("MESSAGE"), Str(s)>> \o more)
Obligation(e) ==
    Message("MAKE-OUTCOME-PROOF-OBLIGATION-FAILURE", <<"a">>, <<Keyword("OBLIGATION-EXPR"), e>>)
Transformed(forms) ==
    Message("MAKE-OUTCOME-TRANSFORMATION-SUCCESS", <<"a">>, <<Keyword("TOPLEVELS"), forms>>)

NoTypes == Form("MAKE-TOPLEVEL-TYPES",
                <<<<"GET", Form("MAKE-TYPE-RECURSION", <<<<"DEFINITIONS", ListMaker(<<>>)>>>>)>>>>)
FunctionForms == Written({TopLevel(c) : c \in FunctionConstructs})
Misnamed == TopLevel([Function EXCEPT !.name = "-"])
CharacterLiteral(c) == Literal("MAKE-LITERAL-CHARACTER", c)

Obligations ==
    Written({Visited(e) : e \in Expressions \cup Bodies})
    \cup {CharacterLiteral(Chr(n)) : n \in CharCodes}
    \cup {Form("MAKE-EXPRESSION-SUM-FIELD",
               <<<<"TYPE", Identifier("S")>>, <<"TARGET", Variable("a")>>,
                 <<"ALTERNATIVE", Identifier("L")>>, <<"FIELD", Identifier("n")>>>>)}

\* Fields an outcome may have beside its message: right, or of another kind.
MoreFields ==
    {<<Keyword("OBLIGATION-EXPR"), e>> :
        e \in {Variable("a"), NoTypes, Str(<<"a">>), Integer(<<"-", "7">>), Variable("-"),
               Literal("MAKE-LITERAL-INTEGER", Integer(<<"-", "7">>)),
               CharacterLiteral(List(<<Special("CODE-CHAR"), Integer(<<"300">>)>>)),
               Binary("WHATEVER", Variable("a"), Variable("a"))}}
    \cup {<<Keyword("TOPLEVELS"), e>> :
            e \in {ListMaker(<<>>), ListMaker(<<NoTypes>>), List(<<NoTypes>>),
                   ListMaker(<<Variable("a")>>), ListMaker(<<NoTypes, Misnamed>>), NIL}}

OutcomeMakers == DOMAIN OutcomeClasses

OutcomeForms ==
    {Message(m, <<"a">>, <<>>) : m \in OutcomeMakers \cup {"WHATEVER"}}
    \cup {List(<<Syntheto(m), Keyword("WHATEVER"), Str(<<"a">>)>>) : m \in OutcomeMakers}
    \cup {List(<<Syntheto(m), Keyword("MESSAGE"), Integer(<<"7">>)>>) : m \in OutcomeMakers}
    \cup {Message("MAKE-OUTCOME-THEOREM-FAILURE", s, <<>>) : s \in Messages}
    \cup {Message(m, <<"a">>, more) :
             m \in {"MAKE-OUTCOME-THEOREM-SUCCESS", "MAKE-OUTCOME-PROOF-OBLIGATION-FAILURE",
                    "MAKE-OUTCOME-TRANSFORMATION-SUCCESS"}, more \in MoreFields}
    \cup {Obligation(e) : e \in Obligations}
    \cup {Transformed(ListMaker(<<f>>)) : f \in FunctionForms}
    \cup {NIL, Special("T"), List(<<NIL>>)}

State == Sym("ACL2", "STATE")
Reply(form) ==
    List(<<NIL, List(<<NIL, List(<<NIL, NIL, State>>), NIL, form,
                       Sym("ACL2", "REPLACED-STATE")>>), State>>)

\* ACL2 replies with a form in its place, or in another one, or with an error.
SomeReplies ==
    {Reply(f) : f \in OutcomeForms}
    \cup {List(<<NIL, Message("MAKE-OUTCOME-THEOREM-SUCCESS", <<"a">>, <<>>), State>>),
          List(<<Special("T"), Reply(NIL).list[2], State>>)}

-----------------------------------------------------------------------------
(* What a form says. *)

Made(form, maker, n) == Maker(form, {maker}) /\ IsList(form, 1 + 2 * n)
Value(form, i) == form.list[2 * i + 1]
Elements(form) == Tail(form.list)

IsNamed(form, name) == form = Identifier(name)

\* The names along a path, each with the type it belongs to.
RECURSIVE SaidPath(_)
SaidPath(form) ==
    LET said(i) == Value(Value(form, i), 1).str[1]
        sayStep(name, owner) == [name |-> name, owner |-> owner]
    IN  CASE Made(form, "MAKE-EXPRESSION-VARIABLE", 1) -> <<sayStep(said(1), "")>>
          [] Made(form, "MAKE-EXPRESSION-PRODUCT-FIELD", 3) ->
               Append(SaidPath(Value(form, 2)), sayStep(said(3), said(1)))
          [] Made(form, "MAKE-EXPRESSION-SUM-FIELD", 4) ->
               SaidPath(Value(form, 2)) \o <<sayStep(said(3), said(1)), sayStep(said(4), said(3))>>
          [] Made(form, "MAKE-EXPRESSION-SUM-CONSTRUCT", 3) ->
               <<sayStep(said(1), ""), sayStep(said(2), said(1))>>
          [] OTHER -> <<>>

SaysPath(form, path) ==
    LET said == SaidPath(form) IN
    /\ Len(said) = Len(path)
    /\ \A i \in 1..Len(path) :
         /\ said[i].name = path[i].name
         /\ i > 1 => path[i - 1].type \in {"any", said[i].owner}

SaysOp(form, kind, op) == form = List(<<Syntheto("MAKE-" \o kind \o "-OP-" \o op)>>)

RECURSIVE Says(_, _)
SaysLiteral(form, maker, value) ==
    Made(form, "MAKE-EXPRESSION-LITERAL", 1) /\ Made(Value(form, 1), maker, 1)
    /\ Value(Value(form, 1), 1) = value
Says(form, e) ==
    CASE Is("path", e)   -> SaysPath(form, e.path)
      [] Is("string", e) -> SaysLiteral(form, "MAKE-LITERAL-STRING", Str(e.string))
      [] Is("int", e)    -> SaysLiteral(form, "MAKE-LITERAL-INTEGER", Integer(<<e.int>>))
      [] Is("bool", e)   -> SaysLiteral(form, "MAKE-LITERAL-BOOLEAN",
                                        IF e.bool THEN Special("T") ELSE Special("NIL"))
      [] Is("unary", e)  -> /\ Made(form, "MAKE-EXPRESSION-UNARY", 2)
                            /\ SaysOp(Value(form, 1), "UNARY", e.unary)
                            /\ Says(Value(form, 2), e.operand)
      [] Is("binary", e) -> /\ Made(form, "MAKE-EXPRESSION-BINARY", 3)
                            /\ SaysOp(Value(form, 1), "BINARY", e.binary)
                            /\ Says(Value(form, 2), e.left) /\ Says(Value(form, 3), e.right)
      [] Is("call", e)   -> /\ Made(form, "MAKE-EXPRESSION-CALL", 3)
                            /\ IsNamed(Value(form, 1), e.call)
                            /\ IsList(Value(form, 3), Len(e.args) + 1)
                            /\ \A i \in 1..Len(e.args) : Says(Value(form, 3).list[i + 1], e.args[i])
      [] Is("test", e)   -> /\ Made(form, "MAKE-EXPRESSION-IF", 3)
                            /\ Says(Value(form, 1), e.test) /\ Says(Value(form, 2), e.then)
                            /\ Says(Value(form, 3), e.else)

SaysOptional(form, e) == IF e = Null THEN form = NIL ELSE Says(form, e)

RECURSIVE SaysType(_, _)
SaysType(form, t) ==
    CASE Is("primitive", t) -> form = List(<<Syntheto("MAKE-TYPE-INTEGER")>>)
      [] Is("typeref", t)   -> Made(form, "MAKE-TYPE-DEFINED", 1) /\ IsNamed(Value(form, 1), t.typeref)
      [] Is("option", t)    -> Made(form, "MAKE-TYPE-OPTION", 1) /\ SaysType(Value(form, 1), t.option)
      [] Is("sequence", t)  -> Made(form, "MAKE-TYPE-SEQUENCE", 1)
                               /\ SaysType(Value(form, 1), t.sequence)
      [] Is("set", t)       -> Made(form, "MAKE-TYPE-SET", 1) /\ SaysType(Value(form, 1), t.set)
      [] Is("domain", t)    -> /\ Made(form, "MAKE-TYPE-MAP", 2)
                               /\ SaysType(Value(form, 1), t.domain) /\ SaysType(Value(form, 2), t.range)

SaysVariables(form, typed) ==
    /\ IsList(form, Len(typed) + 1)
    /\ \A i \in 1..Len(typed) :
         LET v == form.list[i + 1] IN
         IsNamed(Value(v, 1), typed[i].name) /\ SaysType(Value(v, 2), typed[i].type)

SaysFunction(form, c) ==
    LET function == Value(form, 1)
        header == Value(function, 1)
        definer == Value(function, 4)
    IN  /\ Made(form, "MAKE-TOPLEVEL-FUNCTION", 1)
        /\ Made(function, "MAKE-FUNCTION-DEFINITION", 4)
        /\ IsNamed(Value(header, 1), c.name)
        /\ SaysVariables(Value(header, 2), c.inputs) /\ SaysVariables(Value(header, 3), c.outputs)
        /\ SaysOptional(Value(function, 2), c.assumes)
        /\ SaysOptional(Value(function, 3), c.ensures)
        /\ Says(Value(definer, 1), c.body) /\ SaysOptional(Value(definer, 2), c.measure)

SaysConstruct(form, c) ==
    LET in == Value(form, 1) IN
    CASE c.construct = "function" -> SaysFunction(form, c)
      [] c.construct = "theorem" ->
           /\ Made(form, "MAKE-TOPLEVEL-THEOREM", 1) /\ IsNamed(Value(in, 1), c.name)
           /\ SaysVariables(Value(in, 2), c.variables) /\ Says(Value(in, 3), c.formula)
      [] c.construct = "product" ->
           LET product == Value(Value(in, 2), 1) IN
           /\ Made(form, "MAKE-TOPLEVEL-TYPE", 1) /\ IsNamed(Value(in, 1), c.name)
           /\ SaysVariables(Value(product, 1), c.elements)
           /\ SaysOptional(Value(product, 2), c.invariant)
      [] c.construct = "transform" ->
           /\ Made(form, "MAKE-TOPLEVEL-TRANSFORM", 1)
           /\ IsNamed(Value(in, 1), c.name) /\ IsNamed(Value(in, 2), c.old)
           /\ Value(in, 3) = Str(<<c.transformation>>)
           /\ IsList(Value(in, 4), Len(c.args) + 1)
           /\ \A i \in 1..Len(c.args) :
                LET arg == Value(in, 4).list[i + 1] IN
                /\ IsNamed(Value(arg, 1), c.args[i].name)
                /\ IsNamed(Value(Value(arg, 2), 1), c.args[i].value)

-----------------------------------------------------------------------------
(* Properties. *)

Done == result # Unfinished
Has(strings, chs) == \E s \in strings : \E i \in 1..Len(s) : s[i] \in chs

(* The client reads what ACL2 printed back as it was, wherever parentheses,    *)
(* quotes and backslashes stand in a message; it throws if, and only if, some  *)
(* message has a character the tokenizer does not take.                        *)
RepliesArrive ==
    way = "reply" /\ Done =>
        LET readable == ~Has(Strings(sent), {"tab", "return", NonAscii})
                        /\ ~ Special("CODE-CHAR") \in Atoms(sent)
        IN  result = IF readable THEN Meaning(sent) ELSE Thrown

\* A variable; fields of products, of which the third and the later ones are of no
\* sum type and no collection; or an alternative of a type.
Expressible(path) ==
    \/ Len(path) = 1 /\ path[1].kind # "definition"
    \/ Len(path) = 2 /\ path[1].kind = "definition"
    \/ /\ path[1].kind = "product"
       /\ \A i \in 1..Len(path) : path[i].kind # "alternative"
                                  /\ (i > 2 => path[i].kind \notin {"sum", "collection"})

(* ACL2 is told what the user wrote, the whole of it and nothing else, but for *)
(* these: a string with a quote, a backslash or a character that is not ASCII, *)
(* none of which toString escapes and writeBridgeCommand counts right; a       *)
(* number too large for Java, with which its program is refused; a path        *)
(* through a sum type, of which assumes and the like say nothing then and an   *)
(* inner path only the beginning; a product without struct; and flatten_param. *)
CommandsArrive ==
    way = "command" /\ Done =>
        LET parts == ExpressionsOf(sent)
            arrives == /\ ~Has({e.string : e \in {x \in parts : Is("string", x)}},
                               {Quote, Backslash, NonAscii})
                       /\ ~ Number(TooLarge) \in parts
                       /\ \A e \in parts : Is("path", e) => Expressible(e.path)
                       /\ sent.construct = "product" => sent.struct
                       /\ sent.construct = "transform" => sent.transformation # "flatten_param"
        IN  arrives <=> /\ result # Thrown
                        /\ result = Command(Part(result, 2))
                        /\ SaysConstruct(Part(result, 2), sent)

(* A form reads back as itself, which the unit tests rely on, if its strings   *)
(* are such that the tokenizer takes them as they are; no other form does.     *)
PrintedFormsReadBack ==
    way = "test" /\ Done => (result = sent <=> ~Has(Strings(sent), NotStandard))

Heading == IF result = Thrown THEN "error" ELSE Reported(result)

Successes == {"Function success", "Type success", "Theorem success", "Transformation success"}

\* The outcome ACL2 sent in the place where it puts outcomes, if it sent one.
SentForm == ExtractMakeForm(Meaning(sent))
Sent(makers) == SentForm # Null /\ Maker(SentForm, makers)

(* A success is announced only for an outcome that is one, whose contents were *)
(* understood; not for one that is malformed, that stands elsewhere in the     *)
(* reply, or that some message only quotes.  A transformation that failed is   *)
(* left to FailureIsNoSuccess.                                                 *)
SuccessIsSent ==
    way = "reply" /\ Done /\ Heading \in Successes =>
        /\ Sent({"MAKE-OUTCOME-FUNCTION-SUCCESS", "MAKE-OUTCOME-TYPE-SUCCESS",
                 "MAKE-OUTCOME-THEOREM-SUCCESS", "MAKE-OUTCOME-TRANSFORMATION-SUCCESS",
                 "MAKE-OUTCOME-TRANSFORMATION-FAILURE"})
        /\ Is("str", Part(SentForm, 3))
        /\ Sent({"MAKE-OUTCOME-TRANSFORMATION-SUCCESS"}) =>
             \A i \in 2..Len(Part(SentForm, 5).list) :
                 Part(SentForm, 5).list[i] \in {NoTypes} \cup FunctionForms

(* A failure of ACL2 is never announced as a success.                          *)
FailureIsNoSuccess ==
    way = "reply" /\ Done /\ Heading \in Successes =>
        ~Sent({"MAKE-OUTCOME-THEOREM-FAILURE", "MAKE-OUTCOME-PROOF-OBLIGATION-FAILURE",
               "MAKE-OUTCOME-TRANSFORMATION-FAILURE", "MAKE-OUTCOME-UNEXPECTED-FAILURE"})

-----------------------------------------------------------------------------
(* Of the Syntheto text that is made of a reply. *)

RECURSIVE Subforms(_)
Subforms(e) == IF Is("list", e) THEN {e} \cup UNION {Subforms(x) : x \in Range(e.list)} ELSE {}
MakersIn(e) == {Part(x, 1).name : x \in {y \in Subforms(e) : Is("name", Part(y, 1))}}
NestedFields(e) ==
    {x \in Subforms(e) : Made(x, "MAKE-EXPRESSION-PRODUCT-FIELD", 3)
                         /\ ~Made(Value(x, 2), "MAKE-EXPRESSION-VARIABLE", 1)}

Misleading == {"MAKE-LITERAL-STRING", "MAKE-LITERAL-CHARACTER", "MAKE-BINARY-OP-IMPLIED",
               "MAKE-EXPRESSION-SUM-FIELD"}
Readable(e) ==
    /\ MakersIn(e) \cap (Misleading \cup {"MAKE-BINARY-OP-IMPLIES", "MAKE-EXPRESSION-IF"}) = {}
    /\ NestedFields(e) = {}
    /\ Integer(<<TooLarge>>) \notin Atoms(e)

(* The obligation shown to the user is one that Syntheto reads, as that very   *)
(* obligation, unless it has one of the two implications, a string or a        *)
(* character, a number too large for Java, a field of a field, or an           *)
(* expression that is not printed.  It is read as another one only with <==,   *)
(* shown as less-or-equal, and with what is shown as some name: a string, a    *)
(* character or null.                                                          *)
ObligationsReadBack ==
    way = "reply" /\ Done /\ Heading = "Proof obligation failure" =>
        LET e == Part(ExtractMakeForm(result), 5)
            read == G!ReadExpression(R!Reversed(e, FALSE))
        IN  /\ Readable(e) <=> read # {} /\ \A t \in read : Says(e, t)
            /\ (\E t \in read : ~Says(e, t)) => MakersIn(e) \cap Misleading # {}

\* Text after which a word may come at once.
RECURSIVE EndsApart(_)
EndsApart(e) ==
    CASE Made(e, "MAKE-EXPRESSION-UNARY", 2) -> EndsApart(Value(e, 2))
      [] OTHER -> R!MakerOf(e) \in {"MAKE-EXPRESSION-BINARY", "MAKE-EXPRESSION-CALL",
                                    "MAKE-EXPRESSION-PRODUCT-FIELD"}

RECURSIVE ReadableBody(_)
ReadableBody(e) ==
    IF Made(e, "MAKE-EXPRESSION-IF", 3)
      THEN Readable(Value(e, 1)) /\ ReadableBody(Value(e, 2)) /\ ReadableBody(Value(e, 3))
      ELSE Readable(e) /\ ~Made(e, "MAKE-EXPRESSION-PRODUCT-FIELD", 3)

(* A transformed function, put into a cell for the user to go on with, reads   *)
(* as the function ACL2 made, unless it has a measure, no output, a bare       *)
(* variable, number or boolean behind assumes, a field as a statement, a type  *)
(* that is optional, a set or a map, or an expression that does not read; it   *)
(* reads as another function only if a type or an expression is mistaken.      *)
TransformedFunctionsReadBack ==
    way = "reply" /\ Done /\ Heading = "Transformation success"
    /\ Sent({"MAKE-OUTCOME-TRANSFORMATION-SUCCESS"}) =>
        \A f \in {x \in Range(Part(ExtractMakeForm(result), 5).list) :
                    Made(x, "MAKE-TOPLEVEL-FUNCTION", 1)} :
          LET function == Value(f, 1)
              header == Value(function, 1)
              definer == Value(function, 4)
              read == G!ReadFunction(R!FunctionText(f))
              readable == /\ Value(definer, 2) = NIL
                          /\ Elements(Value(header, 3)) # <<>>
                          /\ \A i \in {2, 3} : Value(function, i) # NIL => Readable(Value(function, i))
                          /\ Value(function, 2) # NIL => EndsApart(Value(function, 2))
                          /\ ReadableBody(Value(definer, 1))
                          /\ MakersIn(header) \cap {"MAKE-TYPE-OPTION", "MAKE-TYPE-SET",
                                                    "MAKE-TYPE-MAP"} = {}
          IN  /\ readable <=> read # {} /\ \A c \in read : SaysFunction(f, c)
              /\ (\E c \in read : ~SaysFunction(f, c)) =>
                   MakersIn(f) \cap (Misleading \cup {"MAKE-TYPE-OPTION", "MAKE-TYPE-SET"}) # {}
=============================================================================
