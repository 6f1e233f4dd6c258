------------------------------ MODULE Visitor ------------------------------
(***************************************************************************)
(* SynthetoVisitor with the makers of the abstract syntax and their        *)
(* toSExpression: from the parse tree of a construct to the form that ACL2 *)
(* is sent.  Of the constructs, functions, theorems, product types and     *)
(* transformations; of the expressions, literals, operators, calls, if and  *)
(* paths of fields, after which the others are made.                       *)
(*                                                                         *)
(* Names are characters.  A path has a step for the variable, or for the   *)
(* definition of a type, and one for each field or alternative behind it;  *)
(* a step has the kind and, if there is one, the name of its type.         *)
(***************************************************************************)
EXTENDS SExpressions

Identifier(name) == Form("MAKE-IDENTIFIER", <<<<"NAME", Str(<<name>>)>>>>)
Variable(name) == Form("MAKE-EXPRESSION-VARIABLE", <<<<"NAME", Identifier(name)>>>>)
Literal(class, value) ==
    Form("MAKE-EXPRESSION-LITERAL", <<<<"GET", Form(class, <<<<"VALUE", value>>>>)>>>>)
BinaryOps == {"EQ", "NE", "LT", "LE", "GT", "GE", "AND", "OR", "IMPLIES", "IMPLIED", "IFF",
              "ADD", "SUB", "MUL", "DIV", "REM"}
UnaryOps == {"NOT", "MINUS"}
Operator(kind, op) == List(<<Syntheto("MAKE-" \o kind \o "-OP-" \o op)>>)
Binary(op, left, right) ==
    Form("MAKE-EXPRESSION-BINARY",
         <<<<"OPERATOR", Operator("BINARY", op)>>,
           <<"LEFT-OPERAND", left>>, <<"RIGHT-OPERAND", right>>>>)
Unary(op, operand) ==
    Form("MAKE-EXPRESSION-UNARY",
         <<<<"OPERATOR", Operator("UNARY", op)>>, <<"OPERAND", operand>>>>)
Call(function, arguments) ==
    Form("MAKE-EXPRESSION-CALL",
         <<<<"FUNCTION", Identifier(function)>>, <<"TYPES", ListMaker(<<>>)>>,
           <<"ARGUMENTS", ListMaker(arguments)>>>>)
ProductField(type, target, field) ==
    Form("MAKE-EXPRESSION-PRODUCT-FIELD",
         <<<<"TYPE", Identifier(type)>>, <<"TARGET", target>>,
           <<"FIELD", Identifier(field)>>>>)
IfExpression(test, then, else) ==
    Form("MAKE-EXPRESSION-IF",
         <<<<"TEST", test>>, <<"THEN", then>>, <<"ELSE", else>>>>)
SumConstruct(type, alternative) ==
    Form("MAKE-EXPRESSION-SUM-CONSTRUCT",
         <<<<"TYPE", Identifier(type)>>, <<"ALTERNATIVE", Identifier(alternative)>>,
           <<"FIELDS", ListMaker(<<>>)>>>>)

\* toAcl2.
RECURSIVE VisitedType(_)
VisitedType(t) ==
    CASE Is("primitive", t) -> Form("MAKE-TYPE-INTEGER", <<>>)
      [] Is("typeref", t)   -> Form("MAKE-TYPE-DEFINED", <<<<"NAME", Identifier(t.typeref)>>>>)
      [] Is("option", t)    -> Form("MAKE-TYPE-OPTION", <<<<"BASE", VisitedType(t.option)>>>>)
      [] Is("sequence", t)  -> Form("MAKE-TYPE-SEQUENCE",
                                    <<<<"ELEMENT", VisitedType(t.sequence)>>>>)
      [] Is("set", t)       -> Form("MAKE-TYPE-SET", <<<<"ELEMENT", VisitedType(t.set)>>>>)
      [] Is("domain", t)    -> Form("MAKE-TYPE-MAP", <<<<"DOMAIN", VisitedType(t.domain)>>,
                                                      <<"RANGE", VisitedType(t.range)>>>>)

Typed(maker, vars) ==
    ListMaker([i \in 1..Len(vars) |->
                 Form(maker, <<<<"NAME", Identifier(vars[i].name)>>,
                               <<"TYPE", VisitedType(vars[i].type)>>>>)])

-----------------------------------------------------------------------------
(* Expressions. *)

\* The field that is step i of a path, of the product that the steps before it lead to.
AccessTo(target, path, i) == ProductField(path[i - 1].type, target, path[i].name)
\* Variant: every field is taken for one of the variable's type.
FieldsOfFirst(path, n) ==
    FoldLeft(LAMBDA target, i : AccessTo(target, <<path[1], path[i]>>, 2),
             Variable(path[1].name), [i \in 1..(n - 1) |-> i + 1])
\* The first n steps of a path.
Fields(path, n) ==
    FoldLeft(LAMBDA target, i : AccessTo(target, path, i),
             Variable(path[1].name), [i \in 1..(n - 1) |-> i + 1])

\* toAcl2ExpressionFromVariableAssignment: no expression unless the variable is a
\* product; the accesses end before a field of a sum type; the name of a type, a
\* collection and an alternative fail a cast.
VisitedFields(path) ==
    LET odd == {i \in 3..Len(path) : path[i].kind \in {"sum", "collection", "alternative"}}
    IN  IF path[1].kind \in {"definition", "collection"} THEN Thrown
        ELSE IF path[1].kind # "product" THEN Null
        ELSE IF odd = {} THEN Fields(path, Len(path))
        ELSE IF path[Min(odd)].kind = "sum" THEN Fields(path, Min(odd) - 1)
        ELSE Thrown

VisitedPath(path) ==
    IF Len(path) = 1
      THEN IF path[1].kind = "definition" THEN Thrown ELSE Variable(path[1].name)
    ELSE IF Last(path).kind = "alternative"
      THEN SumConstruct(path[Len(path) - 1].type, Last(path).name)
    ELSE VisitedFields(path)

RECURSIVE Visited(_)
Visited(e) ==
    CASE Is("path", e) -> VisitedPath(e.path)
      [] Is("string", e) -> Literal("MAKE-LITERAL-STRING", Str(e.string))
      [] Is("int", e) -> Literal("MAKE-LITERAL-INTEGER", Integer(<<e.int>>))
      [] Is("bool", e) ->
           Literal("MAKE-LITERAL-BOOLEAN", IF e.bool THEN Special("T") ELSE NIL)
      [] Is("test", e) -> IfExpression(Visited(e.test), Visited(e.then), Visited(e.else))
      [] Is("binary", e) -> Binary(e.binary, Visited(e.left), Visited(e.right))
      [] Is("unary", e) -> Unary(e.unary, Visited(e.operand))
      [] Is("call", e) ->
           Call(e.call, [i \in 1..Len(e.args) |-> Visited(e.args[i])])

-----------------------------------------------------------------------------
(* Constructs. *)

\* A part that may be missing, which it also is when it has no expression.
Optional(e) ==
    IF e = Null THEN NIL
    ELSE LET form == Visited(e) IN IF form = Null THEN NIL ELSE form

FunctionDefinition(c) ==
    LET header == Form("MAKE-FUNCTION-HEADER",
                       <<<<"NAME", Identifier(c.name)>>,
                         <<"INPUTS", Typed("MAKE-TYPED-VARIABLE", c.inputs)>>,
                         <<"OUTPUTS", Typed("MAKE-TYPED-VARIABLE", c.outputs)>>>>)
        definer == Form("MAKE-FUNCTION-DEFINER-REGULAR",
                        <<<<"BODY", Visited(c.body)>>, <<"MEASURE", Optional(c.measure)>>>>)
    IN  Form("MAKE-TOPLEVEL-FUNCTION",
             <<<<"GET", Form("MAKE-FUNCTION-DEFINITION",
                             <<<<"HEADER", header>>,
                               <<"PRECONDITION", Optional(c.assumes)>>,
                               <<"POSTCONDITION", Optional(c.ensures)>>,
                               <<"DEFINER", definer>>>>)>>>>)

Theorem(c) ==
    Form("MAKE-TOPLEVEL-THEOREM",
         <<<<"GET", Form("MAKE-THEOREM",
                         <<<<"NAME", Identifier(c.name)>>,
                           <<"VARIABLES", Typed("MAKE-TYPED-VARIABLE", c.variables)>>,
                           <<"FORMULA", Visited(c.formula)>>>>)>>>>)

\* No TopLevel without struct, which caseProgram leaves out.
ProductTypeDefinition(c) ==
    LET product == Form("MAKE-TYPE-PRODUCT",
                        <<<<"FIELDS", Typed("MAKE-FIELD", c.elements)>>,
                          <<"INVARIANT", Optional(c.invariant)>>>>)
    IN  IF product # Thrown /\ ~c.struct THEN Null
        ELSE Form("MAKE-TOPLEVEL-TYPE",
                  <<<<"GET", Form("MAKE-TYPE-DEFINITION",
                                  <<<<"NAME", Identifier(c.name)>>,
                                    <<"BODY", Form("MAKE-TYPE-DEFINER-PRODUCT",
                                                   <<<<"GET", product>>>>)>>>>)>>>>)

\* The parameters of flatten_param are added to a list that is null.
TransformArguments(c) ==
    IF c.transformation = "flatten_param" THEN Thrown
    ELSE ListMaker([i \in 1..Len(c.args) |->
           Form("MAKE-TRANSFORM-ARGUMENT",
                <<<<"NAME", Identifier(c.args[i].name)>>,
                  <<"VALUE", Form("MAKE-TRANSFORM-ARGUMENT-VALUE-IDENTIFIER",
                                  <<<<"NAME", Identifier(c.args[i].value)>>>>)>>>>)])

TransformDefinition(c) ==
    Form("MAKE-TOPLEVEL-TRANSFORM",
         <<<<"GET", Form("MAKE-TRANSFORM",
                         <<<<"NEW-FUNCTION-NAME", Identifier(c.name)>>,
                           <<"OLD-FUNCTION-NAME", Identifier(c.old)>>,
                           <<"TRANSFORM-NAME", Str(<<c.transformation>>)>>,
                           <<"ARGUMENTS", TransformArguments(c)>>>>)>>>>)

\* What caseProgram makes of a construct: Null if it leaves it out.
TopLevel(c) ==
    CASE c.construct = "function"  -> FunctionDefinition(c)
      [] c.construct = "theorem"   -> Theorem(c)
      [] c.construct = "product"   -> ProductTypeDefinition(c)
      [] c.construct = "transform" -> TransformDefinition(c)

\* The expressions in a construct.
RECURSIVE Subtrees(_)
Subtrees(e) ==
    {e} \cup CASE Is("unary", e)  -> Subtrees(e.operand)
               [] Is("binary", e) -> Subtrees(e.left) \cup Subtrees(e.right)
               [] Is("call", e)   -> UNION {Subtrees(a) : a \in Range(e.args)}
               [] Is("test", e)   -> Subtrees(e.test) \cup Subtrees(e.then) \cup Subtrees(e.else)
               [] OTHER -> {}
ExpressionsOf(c) ==
    LET tops == CASE c.construct = "function"  -> {c.assumes, c.ensures, c.measure, c.body}
                  [] c.construct = "theorem"   -> {c.formula}
                  [] c.construct = "product"   -> {c.invariant}
                  [] c.construct = "transform" -> {}
    IN  UNION {Subtrees(e) : e \in tops \ {Null}}

\* Of what checkResource finds, the one issue such constructs can have: an INT that
\* Xtext cannot convert to an int of Java.
CheckResource(c) == [int |-> TooLarge] \notin ExpressionsOf(c)

Written(forms) == forms \ {Null, Thrown, Unwritable}

\* The text sent for a construct: none if its program is refused, if it is left out,
\* or if the execution throws.
SentText(c) ==
    IF CheckResource(c) /\ TopLevel(c) \in Written({TopLevel(c)})
      THEN Text(Command(TopLevel(c)), FALSE) ELSE <<>>
=============================================================================
