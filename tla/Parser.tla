------------------------------- MODULE Parser -------------------------------
(***************************************************************************)
(* The parser of the scripts (crates/parser/src/parser.rs): one operator   *)
(* for each parse function, from parse_source_file down.  An operator      *)
(* named for a node opens it, parses what it is made of and closes it.     *)
(* Messages and ranges of errors are left out, and with them               *)
(* object_separator, which only chooses a message.                         *)
(***************************************************************************)
EXTENDS Events, FiniteSets

CONSTANTS
  Inputs         \* sets of texts, which are sequences of kinds of tokens

ASSUME ParserAssumption ==
  \A i \in DOMAIN Inputs : Inputs[i] \subseteq Seq(EVERYTHING \ {"eof"})

VARIABLES
  p,             \* the parser, between two statements of the source file
  done           \* the source file is parsed

vars == <<p, done>>

RECURSIVE Parse(_, _, _), BinaryTail(_, _, _, _), PostfixTail(_, _, _), CommaTail(_, _, _),
          Arguments(_), Elements(_), MemberList(_, _, _, _), Parameters(_),
          Statements(_, _), Clauses(_), Variables(_), QualifiedTail(_, _), SkipTo(_, _)

(* The calls that make the grammar recursive all go through Parse, at the  *)
(* end of the grammar; the other argument is the one the function takes.   *)
Expression(q, recovery) == Parse("expression", q, recovery)
Binary(q, precedence, recovery) == Parse("binary", q, <<precedence, recovery>>)
Prefix(q, recovery) == Parse("prefix", q, recovery)
Statement(q, kind) == Parse("statement", q, kind)
Members(q, object, separator, stop) == Parse("members", q, <<object, separator, stop>>)

-----------------------------------------------------------------------------
(* Lists and functions *)

(* parse_comma_expression.                                                 *)
CommaTail(q, m, recovery) ==
  IF At(q, ",")
  THEN CommaTail(Precede(Finish(Expression(Bump(q), recovery), m, "BinaryExpression"), m),
                 m, recovery)
  ELSE Drop(q, m)
CommaExpression(q, recovery) ==
  LET s == StartBare(q) IN CommaTail(Expression(s, recovery), s.mark, recovery)

(* What may follow a declared name: a parameter and a variable may lack    *)
(* the '=' before their value, and nothing may be assigned in a catch.     *)
Recovery(kind) ==
  CASE kind = "local" -> VARIABLE_RECOVERY
    [] kind = "parameter" -> PARAMETER_RECOVERY
    [] kind = "catch" -> CATCH_RECOVERY
VariableDeclaration(q, kind) ==
  LET Value(y) == Expression(Proper(y, "="), Recovery(kind))
      Bare(y) == Expression(Err(y), Recovery(kind))
      Wrong(y) == Expression(ErrorAndAdvance(y), Recovery(kind))
      Rest(n) ==
        CASE AtSet(n, INIT_OPERATORS) ->
               IF kind = "catch" THEN Node(n, "Error", Wrong(Start(n)))
               ELSE Node(n, "Initialiser", Value(Start(n)))
          [] AtSet(n, EXPRESSIONS) /\ (kind = "parameter" \/ (kind = "local" /\ ~ n.nl)) ->
               Node(n, "Initialiser", Bare(Start(n)))
          [] OTHER -> n
      Body(x) == Rest(Name(x, Recovery(kind)))
  IN Node(q, "VariableDeclaration", Body(Start(q)))

(* parse_function_signature.                                               *)
Parameters(q) ==
  LET Rest(r) ==
        CASE AtSet(r, {"eof", ")"} \cup STATEMENT_WITH_SEMICOLON \cup {"}"}) -> r
          [] At(r, ",") -> Parameters(Bump(r))
          [] OTHER -> Parameters(ErrorWithRecovery(r, PARAMETER_RECOVERY))
  IN Rest(IF At(q, "...") THEN Node(q, "VariedArgs", Bump(Start(q)))
          ELSE VariableDeclaration(q, "parameter"))
Bracketed(q) == Expect(Expression(Bump(q), STATEMENT_OR({"]"})), "]")
Signature(q) ==
  LET Inside(r) == IF At(r, ")") THEN Bump(r) ELSE Expect(Parameters(r), ")")
      List(e) == Node(e, "ParameterList", Inside(Expect(Start(e), "(")))
  IN List(IF At(q, "[") THEN Node(q, "Environment", Bracketed(Start(q))) ELSE q)

(* parse_call_arguments: '(' arguments ')' and a post-call initialiser.    *)
Arguments(q) ==
  IF AtSet(q, CALL_ARGUMENTS_STOP) THEN q
  ELSE LET r == Expression(q, STATEMENT_OR({")"})) IN
       IF ~ AtSet(r, SEPARATORS) THEN Arguments(r)
       ELSE LET s == Proper(r, ",") IN
            IF At(s, ")") THEN Err(s) ELSE Arguments(s)
CallArguments(q) ==
  LET Initialiser(x) ==
        Expect(Members(Bump(x), "postcall", ",", END_OF_BLOCK), "}")
      Rest(r) ==
        IF At(r, "{") THEN Node(r, "PostCallInitialiser", Initialiser(Start(r))) ELSE r
  IN Rest(IF At(q, "(") THEN Expect(Arguments(Bump(q)), ")") ELSE Err(q))

-----------------------------------------------------------------------------
(* Members of tables, classes, enums, attributes and post-call initialisers *)

Attributes(q) ==
  LET Body(x) == Expect(Members(Bump(x), "table", ",", END_OF_BLOCK \cup {"/>"}), "/>")
  IN Node(q, "Attributes", Body(Start(q)))

ErrIf(q, wrong) == IF wrong THEN Err(q) ELSE q

(* The value of a member with a computed or quoted name.                   *)
MemberValue(q, object, operator) ==
  LET recovery == STATEMENT_OR({"</"}) IN
  CASE AtSet(q, INIT_OPERATORS) -> Expression(Proper(q, operator), recovery)
    [] ~ AtSet(q, INIT_OPERATORS) /\ object # "enum" ->
         IF ~ q.nl /\ AtSet(q, EXPRESSIONS) THEN Expression(Err(q), recovery) ELSE Err(q)
    [] OTHER -> q

(* parse_property_init for the member that began at marker m.              *)
PropertyInit(q, m, object) ==
  LET unassigned == AtSet(q, NON_MEMBER_FIRST_EXPRESSIONS) IN
  IF AtSet(q, INIT_OPERATORS)
  THEN Finish(Expression(Proper(q, "="), STATEMENT_OR({"</"})), m, "Property")
  ELSE IF object # "enum" /\ At(q, "(")
  THEN Finish(Statement(Signature(Err(q)), "method"), m, "Method")
  ELSE Finish(IF unassigned THEN Expression(Err(q), STATEMENT)
              ELSE ErrIf(q, object # "enum"), m, "Property")

(* parse_simple_name_property.                                             *)
SimpleProperty(q, m, object) ==
  LET n == Name(q, MEMBER_RECOVERY)
      wrapped == Finish(Precede(n, n.mark), n.mark, "SimpleName") IN
  CASE n.mark # 0 -> PropertyInit(Ranged(wrapped, n.mark), m, object)
    [] n.mark = 0 /\ AtSet(n, MEMBER_RECOVERY) -> PropertyInit(n, m, object)
    [] OTHER -> Drop(n, m)

(* 'static' and attributes, each for members of classes only.              *)
MemberPrefix(q, object) ==
  CASE At(q, "static") -> IF object = "class" THEN Bump(q) ELSE ErrorAndAdvance(q)
    [] At(q, "</") -> Attributes(ErrIf(q, object # "class"))
    [] OTHER -> q

MemberFrom(r, m, object) ==
  LET data == object \in {"enum", "postcall"}
      Computed(x) == Expect(CommaExpression(Bump(x), STATEMENT_OR({"]"})), "]")
  IN
  CASE At(r, "[") ->
         LET n == Node(r, "ComputedName", Computed(Start(ErrIf(r, object = "enum")))) IN
         Finish(MemberValue(n, object, "="), m, "Property")
    [] At(r, "string") ->
         LET n == Node(r, "StringName", Bump(Start(ErrIf(r, object # "table")))) IN
         Finish(MemberValue(n, object, ":"), m, "Property")
    [] At(r, "constructor") ->
         LET n == Bump(ErrIf(r, data)) IN
         IF AtSet(n, INIT_OPERATORS) THEN PropertyInit(Err(n), m, object)
         ELSE Finish(Statement(Signature(n), "method"), m, "Constructor")
    [] At(r, "function") ->
         LET n == Name(Bump(ErrIf(r, data)), EVERYTHING) IN
         Finish(Statement(Signature(n), "method"), m, "Method")
    [] OTHER -> SimpleProperty(r, m, object)
Member(q, object) ==
  LET s == Start(q) IN MemberFrom(MemberPrefix(s, object), s.mark, object)

(* The loop of each list of members.                                       *)
MemberList(q, object, separator, stop) ==
  IF AtSet(q, stop) THEN q
  ELSE LET Separator(r) == IF AtSet(r, SEPARATORS) THEN Proper(r, separator) ELSE r
       IN MemberList(Separator(Member(q, object)), object, separator, stop)

ClassBody(q) ==
  LET Extends(x) == Expression(Bump(x), STATEMENT)
      r == IF At(q, "extends") THEN Node(q, "Extends", Extends(Start(q))) ELSE q
  IN IF At(r, "{") THEN Expect(Members(Bump(r), "class", ";", END_OF_BLOCK), "}")
     ELSE Err(r)

-----------------------------------------------------------------------------
(* Expressions *)

(* finish_wrapper_or_drop: a branch of '?' that has no expression is none. *)
Branch(q, kind, recovery) ==
  LET s == Start(q)
      r == Expression(s, recovery) IN
  CASE MarkerKind(r, r.mark) = "unfinished" -> Panic(r, "unfinished marker")
    [] MarkerKind(r, r.mark) = "Unknown" -> Drop(r, s.mark)
    [] OTHER -> Finish(r, s.mark, kind)

Conditional(q, m) ==
  LET then == Branch(Bump(q), "ThenBranch", STATEMENT_OR({":"}))
      colon == Expect(then, ":") IN
  Finish(IF At(then, ":") \/ AtSet(colon, EXPRESSIONS)
         THEN Branch(colon, "ElseBranch", STATEMENT) ELSE colon,
         m, "ConditionalExpression")

(* Fault: what is assigned to is not looked at.                            *)
ParseExpressionUnchecked(q, recovery) ==
  LET s == StartBare(q)
      r == Binary(s, 0, recovery) IN
  CASE AtSet(r, ASSIGNMENT_OPERATORS) ->
         Finish(Expression(Bump(r), recovery), s.mark, "BinaryExpression")
    [] At(r, "?") -> Conditional(r, s.mark)
    [] OTHER -> Drop(r, s.mark)

ParseExpression(q, recovery) ==
  LET s == StartBare(q)
      r == Binary(s, 0, recovery) IN
  CASE AtSet(r, ASSIGNMENT_OPERATORS) ->
         Finish(Expression(Bump(Target(r, r.mark)), recovery), s.mark, "BinaryExpression")
    [] At(r, "?") -> Conditional(r, s.mark)
    [] OTHER -> Drop(r, s.mark)

(* Fault: operators of one precedence group to the right.                  *)
BinaryTailRight(q, m, precedence, recovery) ==
  LET new == Precedence(Token(q)) IN
  IF new > 0 /\ new >= precedence
  THEN BinaryTail(Precede(Finish(Binary(Bump(q), new, recovery), m, "BinaryExpression"), m),
                  m, precedence, recovery)
  ELSE Drop(q, m)

(* parse_binary_expression: operators that bind tighter than precedence.   *)
BinaryTail(q, m, precedence, recovery) ==
  LET new == Precedence(Token(q)) IN
  IF new > precedence
  THEN BinaryTail(Precede(Finish(Binary(Bump(q), new, recovery), m, "BinaryExpression"), m),
                  m, precedence, recovery)
  ELSE Drop(q, m)
ParseBinary(q, precedence, recovery) ==
  LET s == Start(q) IN BinaryTail(Prefix(s, recovery), s.mark, precedence, recovery)

(* The loop of parse_array_literal_expression.                             *)
Elements(q) ==
  IF AtSet(q, STATEMENT_OR({"]", "eof"})) THEN q
  ELSE LET r == Expression(q, NON_EXPRESSION_STATEMENT) IN
       Elements(IF AtSet(r, SEPARATORS) THEN Proper(r, ",") ELSE r)

(* parse_primary_expression; without one the marker is after all events.   *)
Primary(q, recovery) ==
  LET Root(x) == Name(Bump(x), EVERYTHING)
      Parenthesised(x) == Expect(CommaExpression(Bump(x), STATEMENT_OR({")"})), ")")
      Array(x) == Expect(Elements(Bump(x)), "]")
      Table(x) == Expect(Members(Bump(x), "table", ",", END_OF_BLOCK), "}")
      Function(x) ==
        LET r == Bump(x) IN
        Statement(Signature(IF AtSet(r, NAME) THEN ErrorAndAdvance(r) ELSE r), "method")
      Lambda(x) == Expression(Signature(Bump(x)), STATEMENT)
      Class(x) == ClassBody(Bump(x)) IN
  CASE AtSet(q, LITERALS) -> Node(q, "LiteralExpression", Bump(Start(q)))
    [] At(q, "::") -> Node(q, "RootAccessExpression", Root(Start(q)))
    [] At(q, "this") -> Node(q, "ThisExpression", Bump(Start(q)))
    [] At(q, "base") -> Node(q, "BaseExpression", Bump(Start(q)))
    [] At(q, "file") -> Node(q, "FileExpression", Bump(Start(q)))
    [] At(q, "(") -> Node(q, "ParenthesisedExpression", Parenthesised(Start(q)))
    [] At(q, "[") -> Node(q, "ArrayLiteralExpression", Array(Start(q)))
    [] At(q, "{") -> Node(q, "TableLiteralExpression", Table(Start(q)))
    [] At(q, "function") -> Node(q, "FunctionExpression", Function(Start(q)))
    [] At(q, "@") -> Node(q, "LambdaExpression", Lambda(Start(q)))
    [] At(q, "class") -> Node(q, "ClassExpression", Class(Start(q)))
    [] OTHER -> LET n == Name(q, recovery) IN
                IF n.mark = 0 THEN Marked(n, Len(n.ev) + 1) ELSE n

Index(q) == Node(q, "Index", Bracketed(Start(ErrIf(q, q.nl))))

MemberAccess(q) ==
  LET Part(x) == Node(x, "MemberPart", Name(Start(x), EVERYTHING)) IN Part(Proper(q, "."))

(* The loop of parse_postfix_expression; operand is the marker of what     *)
(* stood first, m the one of the postfix expression so far.                *)
PostfixTail(q, m, operand) ==
  LET Next(r) == PostfixTail(Precede(r, m), m, operand) IN
  CASE At(q, "++") /\ ~ Ends(q) ->
         Next(Finish(Bump(Target(q, operand)), m, "PostfixUpdateExpression"))
    [] At(q, ".") \/ (At(q, "::") /\ ~ Ends(q)) ->
         Next(Finish(MemberAccess(q), m, "MemberAccessExpression"))
    [] At(q, "[") -> Next(Finish(Index(q), m, "ElementAccessExpression"))
    [] At(q, "(") ->
         LET callee == Precede(Finish(q, m, "Callee"), m) IN
         Next(Finish(CallArguments(callee), m, "CallExpression"))
    [] OTHER -> Drop(q, m)
(* Fault: an update looks at the postfix expression that it begins.        *)
PostfixOwn(q, recovery) ==
  LET s == Start(q) IN PostfixTail(Primary(s, recovery), s.mark, s.mark)

Postfix(q, recovery) ==
  LET s == Start(q)
      Rest(operand) == PostfixTail(operand, s.mark, operand.mark)
  IN Rest(Primary(s, recovery))

ParsePrefix(q, recovery) ==
  LET Operand(x) == Prefix(Bump(x), recovery)
      Updated(x) == LET r == Operand(x) IN Target(r, r.mark)
      RawCall(x) == CallArguments(Bump(x)) IN
  CASE AtSet(q, {"-", "!"}) -> Node(q, "PrefixUnaryExpression", Operand(Start(q)))
    [] At(q, "+") -> Prefix(ErrorAndAdvance(q), recovery)
    [] At(q, "++") -> Node(q, "PrefixUpdateExpression", Updated(Start(q)))
    [] At(q, "delete") -> Node(q, "DeleteExpression", Updated(Start(q)))
    [] At(q, "typeof") -> Node(q, "TypeOfExpression", Operand(Start(q)))
    [] At(q, "resume") -> Node(q, "ResumeExpression", Operand(Start(q)))
    [] At(q, "clone") -> Node(q, "CloneExpression", Operand(Start(q)))
    [] At(q, "rawcall") -> Node(q, "RawCallExpression", RawCall(Start(q)))
    [] OTHER -> Postfix(q, recovery)

-----------------------------------------------------------------------------
(* Statements *)

Body(q) == Statement(q, "body")
Condition(q) ==
  Expect(CommaExpression(Expect(q, "("), STATEMENT_OR({")"})), ")")

Block(q) == Expect(Statements(Bump(q), "block"), "}")

(* parse_if_statement: the semicolon of a body belongs to the body.        *)
If(q) ==
  LET Else(x) == Statement(Bump(x), "bodyend")
      test == CommaExpression(Expect(Bump(q), "("), STATEMENT_OR({")", "else"}))
      close == Expect(test, ")")
      then == Statement(close, "bodyend") IN
  CASE At(test, "else") -> Node(test, "IfElseBranch", Else(Start(test)))
    [] ~ At(test, "else") /\ At(close, "else") ->
         Node(close, "IfElseBranch", Else(Start(Err(close))))
    [] OTHER ->
         IF then.some /\ At(then, "else")
         THEN Node(then, "IfElseBranch", Else(Start(then))) ELSE then

While(q) == Body(Condition(Bump(q)))

Do(q) ==
  LET body == Body(Bump(q)) IN
  IF body.some THEN Condition(Expect(body, "while")) ELSE body

(* parse_local_statement.                                                  *)
Variables(q) ==
  LET r == VariableDeclaration(q, "local") IN IF At(r, ",") THEN Variables(Bump(r)) ELSE r
LocalStatement(q) ==
  LET Function(x) ==
        LET n == Name(Bump(Bump(x)), EVERYTHING)
            Rest(r) == IF n.mark # 0 \/ ~ r.nl THEN Statement(Signature(r), "function") ELSE r
        IN Rest(IF AtSet(n, NAME_QUALIFIER) THEN ErrorAndAdvance(n) ELSE n)
      List(x) == Variables(Bump(x))
  IN IF At(Bump(Start(q)), "function")
     THEN Node(q, "LocalFunctionDeclaration", Function(Start(q)))
     ELSE Node(q, "LocalVariableDeclaration", List(Start(q)))

ForInitialiser(r) ==
  LET s == Start(r)
      First(x) ==
        IF At(x, "local") THEN LocalStatement(x) ELSE CommaExpression(x, STATEMENT) IN
  CASE At(r, ";") -> Bump(r)
    [] AtSet(r, EXPRESSIONS \cup {"local"}) ->
         Expect(Node(r, "ForInitialiser", First(Start(r))), ";")
    [] OTHER -> Drop(ErrorWithRecovery(s, STATEMENT_OR({")"})), s.mark)
ForPart(q, kind, close, recovery) ==
  LET Part(x) == CommaExpression(x, STATEMENT) IN
  CASE At(q, close) -> Bump(q)
    [] AtSet(q, EXPRESSIONS) -> Expect(Node(q, kind, Part(Start(q))), close)
    [] OTHER -> ErrorWithRecovery(q, recovery)
For(q) ==
  Body(ForPart(ForPart(ForInitialiser(Expect(Bump(q), "(")),
                       "ForCondition", ";", STATEMENT_OR({")"})),
               "ForIncrement", ")", STATEMENT))

(* A loop variable of foreach: what follows it tells whether it is a key.  *)
Variable(q) == Name(Start(q), FOREACH_RECOVERY)
Named(q, m, found, kind) == IF found THEN Finish(q, m, kind) ELSE Drop(q, m)
ForEach(q) ==
  LET r == Expect(Bump(q), "(")
      n == Variable(r)
      As(kind) == Named(n, Start(r).mark, n.mark # 0, kind)
      separator == Proper(As("ForeachKey"), ",")
      value == Variable(separator)
      Second(x) == Node(x, "ForeachValue", GuaranteedName(Start(x)))
      names ==
        CASE AtSet(n, SEPARATORS) ->
               Named(value, Start(separator).mark, value.mark # 0, "ForeachValue")
          [] AtSet(n, NAME) -> Second(Err(As("ForeachKey")))
          [] OTHER -> As("ForeachValue")
      container == Expression(Expect(names, "in"), STATEMENT_OR({")"}))
  IN Body(Expect(container, ")"))

(* The clauses of a switch; what stands between them is an error.          *)
SkipTo(q, set) == IF AtSet(q, set) THEN q ELSE SkipTo(Bump(q), set)
Clauses(q) ==
  LET Case(x) == Statements(Expect(Expression(Bump(x), STATEMENT_OR({":"})), ":"), "case")
      Default(x) == Statements(Expect(Bump(x), ":"), "case")
      Stray(x) == Statements(x, "case") IN
  CASE AtSet(q, END_OF_BLOCK) -> q
    [] At(q, "case") -> Clauses(Node(q, "CaseClause", Case(Start(q))))
    [] At(q, "default") -> Clauses(Node(q, "DefaultClause", Default(Start(q))))
    [] AtSet(q, STATEMENT_OR_EXPRESSION) -> Clauses(Node(q, "CaseClause", Stray(Start(Err(q)))))
    [] OTHER -> Clauses(SkipTo(Err(q), SWITCH_RECOVERY))
Switch(q) ==
  LET value == Expression(Expect(Bump(q), "("), STATEMENT_OR({")"}))
  IN Expect(Clauses(Expect(Expect(value, ")"), "{")), "}")

(* parse_const_statement, with the end of the statement.                   *)
Const(q) ==
  LET Value(x) == Expression(Proper(x, "="), STATEMENT_WITH_SEMICOLON)
      Bare(x) == Expression(Err(x), STATEMENT_WITH_SEMICOLON)
      Inner(x) ==
        LET n == Name(Bump(x), VARIABLE_RECOVERY) IN
        CASE AtSet(n, INIT_OPERATORS) -> Node(n, "Initialiser", Value(Start(n)))
          [] AtSet(n, EXPRESSIONS) -> Node(n, "Initialiser", Bare(Start(n)))
          [] OTHER -> n
  IN EndOfStatement(Node(q, "ConstStatement", Inner(Start(q))))

(* return and yield, with or without a value.                              *)
Giving(q, recovery) ==
  LET r == Bump(q) IN IF Ends(r) THEN r ELSE CommaExpression(r, recovery)

QualifiedTail(q, part) ==
  IF AtSet(q, NAME_QUALIFIER)
  THEN LET s == Start(Finish(Proper(q, "::"), part, "QualifiedNamePart"))
       IN QualifiedTail(Name(s, FUNCTION_NAME_RECOVERY), s.mark)
  ELSE Drop(q, part)
QualifiedName(q) ==
  LET s == Start(q)
      part == Start(s)
      n == Name(part, FUNCTION_NAME_RECOVERY) IN
  IF n.mark = 0 /\ ~ AtSet(n, NAME_QUALIFIER) THEN Drop(Drop(n, part.mark), s.mark)
  ELSE Finish(QualifiedTail(n, part.mark), s.mark, "QualifiedName")

FunctionStatement(q) ==
  LET n == QualifiedName(Bump(q))
      kind == MarkerKind(n, n.mark) IN
  CASE kind = "unfinished" -> Panic(n, "unfinished marker")
    [] kind = "Unknown" /\ n.nl -> n
    [] OTHER -> Statement(Signature(n), "function")

ClassStatement(q) ==
  LET r == Bump(q)
      n == Expression(r, STATEMENT) IN
  ClassBody(IF At(r, "extends") THEN Err(r) ELSE Target(n, n.mark))

Enum(q) ==
  LET n == Name(Bump(q), STATEMENT_OR_EXPRESSION) IN
  IF At(n, "{") THEN Expect(Members(Bump(n), "enum", ",", END_OF_BLOCK), "}") ELSE Err(n)

Catch(q) ==
  LET e == VariableDeclaration(Expect(Bump(q), "("), "catch") IN Body(Expect(e, ")"))
Try(q) ==
  LET r == Bump(q)
      body == Body(r) IN
  CASE At(r, "catch") -> Node(r, "CatchClause", Catch(Start(Err(r))))
    [] ~ At(r, "catch") /\ ~ body.some -> body
    [] OTHER ->
         IF At(body, "catch") THEN Node(body, "CatchClause", Catch(Start(body))) ELSE Err(body)

Throw(q) == CommaExpression(Bump(q), STATEMENT_WITH_SEMICOLON)

ExpressionStatement(q) ==
  LET s == StartBare(q)
  IN Finish(CommaExpression(s, STATEMENT_WITH_SEMICOLON), s.mark, "ExpressionStatement")

(* The dispatch in parse_statement.                                        *)
OneStatement(q) ==
  LET Return(x) == Giving(x, STATEMENT)
      Yield(x) == Giving(x, STATEMENT_WITH_SEMICOLON) IN
  CASE At(q, ";") -> Node(q, "EmptyStatement", Bump(Start(q)))
    [] At(q, "{") -> Node(q, "BlockStatement", Block(Start(q)))
    [] At(q, "if") -> Node(q, "IfStatement", If(Start(q)))
    [] At(q, "while") -> Node(q, "WhileStatement", While(Start(q)))
    [] At(q, "do") -> Node(q, "DoWhileStatement", Do(Start(q)))
    [] At(q, "for") -> Node(q, "ForStatement", For(Start(q)))
    [] At(q, "foreach") -> Node(q, "ForEachStatement", ForEach(Start(q)))
    [] At(q, "switch") -> Node(q, "SwitchStatement", Switch(Start(q)))
    [] At(q, "local") -> LocalStatement(q)
    [] At(q, "const") -> Const(q)
    [] At(q, "return") -> Node(q, "ReturnStatement", Return(Start(q)))
    [] At(q, "yield") -> Node(q, "YieldStatement", Yield(Start(q)))
    [] At(q, "continue") -> Node(q, "ContinueStatement", Bump(Start(q)))
    [] At(q, "break") -> Node(q, "BreakStatement", Bump(Start(q)))
    [] At(q, "function") -> Node(q, "FunctionStatement", FunctionStatement(Start(q)))
    [] At(q, "class") -> Node(q, "ClassStatement", ClassStatement(Start(q)))
    [] At(q, "enum") -> Node(q, "EnumStatement", Enum(Start(q)))
    [] At(q, "try") -> Node(q, "TryStatement", Try(Start(q)))
    [] At(q, "throw") -> Node(q, "ThrowStatement", Throw(Start(q)))
    [] OTHER -> ExpressionStatement(q)

(* Where a statement of a kind may not begin; for three of the kinds that  *)
(* ends a list of statements, and for the others it is an error.           *)
Stop(kind) ==
  CASE kind = "top" -> {"eof"}
    [] kind = "case" -> END_OF_CASE_CLAUSE
    [] kind = "method" -> END_OF_METHOD
    [] kind \in {"block", "function", "body", "bodyend"} -> END_OF_BLOCK
Lists == {"top", "block", "case"}

(* parse_statement: "some" is what it returns.                             *)
ParseStatement(q, kind) ==
  LET Ended(r) ==
        IF kind \in Lists \cup {"bodyend"} /\ r.prev \notin END_OF_STATEMENT
        THEN EndOfStatement(r) ELSE r IN
  CASE AtSet(q, Stop(kind)) -> [ErrIf(q, kind \notin Lists) EXCEPT !.some = FALSE]
    [] AtSet(q, STATEMENT_OR_EXPRESSION) -> [Ended(OneStatement(q)) EXCEPT !.some = TRUE]
    [] At(q, "catch") ->
         LET Clause(x) == Node(x, "CatchClause", Catch(Start(x)))
         IN [Node(q, "TryStatement", Clause(Start(Err(q)))) EXCEPT !.some = TRUE]
    [] OTHER -> Statement(ErrorAndAdvance(q), kind)

Parse(function, q, with) ==
  CASE function = "expression" -> ParseExpression(q, with)
    [] function = "binary" -> ParseBinary(q, with[1], with[2])
    [] function = "prefix" -> ParsePrefix(q, with)
    [] function = "statement" -> ParseStatement(q, with)
    [] function = "members" -> MemberList(q, with[1], with[2], with[3])

Statements(q, kind) ==
  LET r == Statement(q, kind) IN IF r.some THEN Statements(r, kind) ELSE r

-----------------------------------------------------------------------------
(* parse_source_file *)

Init ==
  /\ \E i \in DOMAIN Inputs : \E t \in Inputs[i] : p = SkipTrivia(Fresh(t))
  /\ done = FALSE

Running == ~ done /\ p.panic = "none"

TopStatement ==
  /\ Running /\ p.some
  /\ p' = Statement(p, "top")
  /\ UNCHANGED done

EndOfFile ==
  /\ Running /\ ~ p.some
  /\ p' = Finish(Consume(p), 1, "SourceFile")
  /\ done' = TRUE

Next == TopStatement \/ EndOfFile

Spec == Init /\ [][Next]_vars
=============================================================================
