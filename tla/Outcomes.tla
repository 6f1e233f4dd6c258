------------------------------ MODULE Outcomes ------------------------------
(***************************************************************************)
(* What generate tells the user of a reply of ACL2 to a construct: the     *)
(* form that Util.extractMakeForm2 finds in it, the outcome that           *)
(* OutcomeBuilder makes of the form, and the heading for the outcome.      *)
(*                                                                         *)
(* Of the abstract syntax an outcome may hold, a few classes of each kind  *)
(* stand for the rest: each reads (maker :KEY value ...) in this way.      *)
(***************************************************************************)
EXTENDS Visitor, TLC

IsList(e, n) == Is("list", e) /\ Len(e.list) = n
Part(e, i) == e.list[i]

\* A form in the place where ACL2 puts what PROCESS-SYNTHETO-TOPLEVEL returns:
\* (NIL (NIL (NIL NIL STATE) NIL form REPLACED-STATE) STATE).
ExtractMakeForm(e) ==
    IF /\ IsList(e, 3) /\ Part(e, 1) = NIL /\ Part(e, 3) = NIL
       /\ LET in == Part(e, 2) IN
          /\ IsList(in, 5) /\ Part(in, 1) = NIL /\ Part(in, 3) = NIL /\ Part(in, 5) = NIL
          /\ Part(in, 2) = List(<<NIL, NIL, NIL>>)
      THEN Part(Part(e, 2), 4)
      ELSE Null

-----------------------------------------------------------------------------
(* The abstract syntax: the class of a maker, the kind of node that is, and *)
(* its fields, each with its key and what it takes.                         *)

Class(kind, fields) == [kind |-> kind, fields |-> fields]

ASTClasses ==
    "MAKE-IDENTIFIER"          :> Class("Identifier", <<<<"NAME", "valid name">>>>) @@
    "MAKE-EXPRESSION-VARIABLE" :> Class("Expression", <<<<"NAME", "Identifier">>>>) @@
    "MAKE-EXPRESSION-LITERAL"  :> Class("Expression", <<<<"GET", "Literal">>>>) @@
    "MAKE-EXPRESSION-BINARY"   :>
        Class("Expression", <<<<"OPERATOR", "binary operator">>, <<"LEFT-OPERAND", "Expression">>,
                              <<"RIGHT-OPERAND", "Expression">>>>) @@
    "MAKE-EXPRESSION-UNARY"    :>
        Class("Expression", <<<<"OPERATOR", "unary operator">>, <<"OPERAND", "Expression">>>>) @@
    "MAKE-EXPRESSION-CALL"     :>
        Class("Expression", <<<<"FUNCTION", "Identifier">>, <<"TYPES", "list of Type">>,
                              <<"ARGUMENTS", "list of Expression">>>>) @@
    "MAKE-EXPRESSION-IF"       :>
        Class("Expression", <<<<"TEST", "Expression">>, <<"THEN", "Expression">>,
                              <<"ELSE", "Expression">>>>) @@
    "MAKE-EXPRESSION-PRODUCT-FIELD" :>
        Class("Expression", <<<<"TYPE", "Identifier">>, <<"TARGET", "Expression">>,
                              <<"FIELD", "Identifier">>>>) @@
    "MAKE-EXPRESSION-SUM-FIELD" :>
        Class("Expression", <<<<"TYPE", "Identifier">>, <<"TARGET", "Expression">>,
                              <<"ALTERNATIVE", "Identifier">>, <<"FIELD", "Identifier">>>>) @@
    "MAKE-LITERAL-STRING"      :> Class("Literal", <<<<"VALUE", "string">>>>) @@
    "MAKE-LITERAL-CHARACTER"   :> Class("Literal", <<<<"VALUE", "character">>>>) @@
    "MAKE-LITERAL-INTEGER"     :> Class("Literal", <<<<"VALUE", "natural">>>>) @@
    "MAKE-LITERAL-BOOLEAN"     :> Class("Literal", <<<<"VALUE", "boolean">>>>) @@
    "MAKE-TYPE-DEFINED"        :> Class("Type", <<<<"NAME", "Identifier">>>>) @@
    "MAKE-TYPE-INTEGER"        :> Class("Type", <<>>) @@
    "MAKE-TYPE-OPTION"         :> Class("Type", <<<<"BASE", "Type">>>>) @@
    "MAKE-TYPE-SEQUENCE"       :> Class("Type", <<<<"ELEMENT", "Type">>>>) @@
    "MAKE-TYPE-SET"            :> Class("Type", <<<<"ELEMENT", "Type">>>>) @@
    "MAKE-TYPE-MAP"            :> Class("Type", <<<<"DOMAIN", "Type">>, <<"RANGE", "Type">>>>) @@
    "MAKE-TYPED-VARIABLE"      :>
        Class("TypedVariable", <<<<"NAME", "Identifier">>, <<"TYPE", "Type">>>>) @@
    "MAKE-FUNCTION-HEADER"     :>
        Class("FunctionHeader", <<<<"NAME", "Identifier">>, <<"INPUTS", "list of TypedVariable">>,
                                  <<"OUTPUTS", "list of TypedVariable">>>>) @@
    "MAKE-FUNCTION-DEFINER-REGULAR" :>
        Class("FunctionDefiner", <<<<"BODY", "Expression">>, <<"MEASURE", "optional Expression">>>>) @@
    "MAKE-FUNCTION-DEFINITION" :>
        Class("FunctionDefinition",
              <<<<"HEADER", "FunctionHeader">>, <<"PRECONDITION", "optional Expression">>,
                <<"POSTCONDITION", "optional Expression">>, <<"DEFINER", "FunctionDefiner">>>>) @@
    "MAKE-TOPLEVEL-FUNCTION"   :> Class("TopLevel", <<<<"GET", "FunctionDefinition">>>>) @@
    "MAKE-TYPE-RECURSION"      :> Class("TypeRecursion", <<<<"DEFINITIONS", "list of TypeDefinition">>>>) @@
    "MAKE-TOPLEVEL-TYPES"      :> Class("TopLevel", <<<<"GET", "TypeRecursion">>>>)

Listed == "list of Expression" :> "Expression" @@ "list of Type" :> "Type" @@
          "list of TypedVariable" :> "TypedVariable" @@
          "list of TypeDefinition" :> "TypeDefinition" @@ "list of TopLevel" :> "TopLevel"

Maker(e, makers) ==
    /\ Is("list", e) /\ e.list # <<>> /\ Is("name", Part(e, 1))
    /\ Part(e, 1).pkg = "SYNTHETO" /\ Part(e, 1).name \in makers

\* Identifier.isValid: letters and digits, a letter first.
IsValid(s) ==
    /\ s # <<>> /\ s[1] \notin Digits
    /\ \A i \in 1..Len(s) : s[i] \notin Punctuation \cup {NonAscii}

\* The kind of node that ASTBuilder makes of e; Null where it returns null or
\* throws, both of which whoever asked for the node answers by throwing.
RECURSIVE BuiltNode(_)
Fits(value, of) ==
    CASE of = "string"    -> Is("str", value)
      [] of = "valid name" -> Is("str", value) /\ IsValid(value.str)
      [] of = "character" -> Is("chr", value)
      [] of = "natural"   -> Is("int", value) /\ value.int[1] # "-"
      [] of = "boolean"   -> value \in {Special("T"), NIL}
      [] of = "unary operator"  -> value \in {Operator("UNARY", op) : op \in UnaryOps}
      [] of = "binary operator" -> value \in {Operator("BINARY", op) : op \in BinaryOps}
      [] of = "optional Expression" -> value = NIL \/ BuiltNode(value) = "Expression"
      [] of \in DOMAIN Listed ->
           /\ Is("list", value) /\ value.list # <<>> /\ Part(value, 1) = Special("LIST")
           /\ \A i \in 2..Len(value.list) : BuiltNode(Part(value, i)) = Listed[of]
      [] OTHER -> BuiltNode(value) = of
BuiltNode(e) ==
    IF ~Maker(e, DOMAIN ASTClasses) THEN Null
    ELSE LET class == ASTClasses[Part(e, 1).name] IN
         IF /\ IsList(e, 1 + 2 * Len(class.fields))
            /\ \A i \in DOMAIN class.fields :
                 /\ Part(e, 2 * i) = Keyword(class.fields[i][1])
                 /\ Fits(Part(e, 2 * i + 1), class.fields[i][2])
           THEN class.kind ELSE Null

-----------------------------------------------------------------------------
(* The outcomes: what is said of each, and the field it has beside its message. *)

Outcome(says, more) == [says |-> says, more |-> more]

OutcomeClasses ==
    "MAKE-OUTCOME-FUNCTION-SUCCESS"      :> Outcome("Function success", "") @@
    "MAKE-OUTCOME-TYPE-SUCCESS"          :> Outcome("Type success", "") @@
    "MAKE-OUTCOME-SPECIFICATION-SUCCESS" :> Outcome("Default response", "") @@
    "MAKE-OUTCOME-THEOREM-SUCCESS"       :> Outcome("Theorem success", "") @@
    "MAKE-OUTCOME-THEOREM-FAILURE"       :> Outcome("Theorem failure", "") @@
    "MAKE-OUTCOME-PROOF-OBLIGATION-FAILURE" :>
        Outcome("Proof obligation failure", "OBLIGATION-EXPR") @@
    "MAKE-OUTCOME-TRANSFORMATION-SUCCESS" :>
        Outcome("Transformation success", "TOPLEVELS") @@
    "MAKE-OUTCOME-TRANSFORMATION-FAILURE" :> Outcome("Transformation success", "") @@
    "MAKE-OUTCOME-UNEXPECTED-FAILURE"    :> Outcome("Unexpected ACL2 failure", "")

More(e, field) ==
    Fits(e, IF field = "TOPLEVELS" THEN "list of TopLevel" ELSE "Expression")

\* fromSExpression of the class whose maker heads the form.
Reads(e) ==
    LET more == OutcomeClasses[Part(e, 1).name].more IN
    /\ IsList(e, IF more = "" THEN 3 ELSE 5)
    /\ Part(e, 2) = Keyword("MESSAGE") /\ Is("str", Part(e, 3))
    /\ more # "" => Part(e, 4) = Keyword(more) /\ More(Part(e, 5), more)

\* Variant: the form is looked up by its maker alone.
ReportedByMaker(e) ==
    LET form == ExtractMakeForm(e) IN
    IF form = Null \/ ~Maker(form, DOMAIN OutcomeClasses) THEN "error"
    ELSE OutcomeClasses[Part(form, 1).name].says

\* The heading of the result, in generate.  OutcomeBuilder throws on what has no
\* known maker, which ends the execution in an error, and answers null on a form
\* its class does not read.
Reported(e) ==
    LET form == ExtractMakeForm(e) IN
    IF form = Null \/ ~Maker(form, DOMAIN OutcomeClasses) THEN "error"
    ELSE IF Reads(form) THEN OutcomeClasses[Part(form, 1).name].says
    ELSE "Default response"
=============================================================================
