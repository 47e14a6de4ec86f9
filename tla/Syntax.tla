------------------------------- MODULE Syntax -------------------------------
(***************************************************************************)
(* What the parser promises about the events it makes: the tree they stand *)
(* for, and for expressions the language it accepts.  The grammar is       *)
(* written over whole texts, with no marker, event or lookahead in it.     *)
(***************************************************************************)
EXTENDS Parser

Sound == p.panic = "none"
Kind(n) == p.toks[n]
Count(S, what) == Cardinality({i \in S : p.ev[i].e \in what})
Depth(i) == Count(1..i, {"start", "pending"}) - Count(1..i, {"finish"})

(* The events that begin a node of one of the kinds.                       *)
Nodes(kinds) == {i \in DOMAIN p.ev : p.ev[i].e = "start" /\ p.ev[i].of \in kinds}

-----------------------------------------------------------------------------
(* The tree *)

(* LosslessTree: the leaves of the tree are the tokens of the text, each   *)
(* once and in their order, whatever errors there are.  Between two        *)
(* statements only the source file is open; at the end all nodes are       *)
(* closed, none is left pending, and one node holds everything.  Markers   *)
(* that are moved, dropped and reopened may lose a token, count it twice   *)
(* or close a node twice; the builder of the tree relies on this.  No node *)
(* but the source file begins with a blank, so that a node's range begins  *)
(* at its own text ("no node other than source file has preceding ...      *)
(* trivia", parser.rs:109).                                                *)
LosslessTree ==
  /\ LET leaves == SelectSeq(p.ev, LAMBDA x : x.e = "token")
     IN leaves = [i \in 1..p.used |-> Leaf(i)]
  /\ done => p.used = Len(p.toks) - 1
  /\ \A i \in 2..Len(p.ev) - 1 :
       p.ev[i].e = "start" /\ p.ev[i + 1].e = "token" => Kind(p.ev[i + 1].of) \notin BLANKS
  /\ Sound =>
       /\ \A i \in 1..Len(p.ev) - 1 : Depth(i) > 0
       /\ Depth(Len(p.ev)) = IF done THEN 0 ELSE 1
       /\ {i \in DOMAIN p.ev : p.ev[i] = Pending} = IF done THEN {} ELSE {1}

(* The tokens and nodes right under node i.                                *)
Under(i) ==
  {j \in i + 1..Closing(p.ev, i) - 1 :
     \/ p.ev[j].e = "token" /\ Depth(j) = Depth(i)
     \/ p.ev[j].e = "start" /\ Depth(j) = Depth(i) + 1}
Operator(i) ==
  CHOOSE j \in Under(i) :
    p.ev[j].e = "token"
      /\ Kind(p.ev[j].of) \in BINARY_OPERATORS \cup ASSIGNMENT_OPERATORS \cup {","}

(* The operators, loosest first; '?' ranks with the assignments.           *)
TABLE ==
  <<{","}, ASSIGNMENT_OPERATORS, {"||"}, {"&&"}, {"|"}, {"^"}, {"&"}, {"=="},
    {"<", "<=", "instanceof", "in"}, {"<<"}, {"+", "-"}, {"*"}>>
ASSIGNING == 2
Operand == Len(TABLE) + 1
Rank(i) ==
  CASE p.ev[i].of = "BinaryExpression" ->
         CHOOSE r \in DOMAIN TABLE : Kind(p.ev[Operator(i)].of) \in TABLE[r]
    [] p.ev[i].of = "ConditionalExpression" -> ASSIGNING
    [] OTHER -> Operand

(* Binds: in a text without errors an operand never has an operator that   *)
(* binds less tightly than its own; to the left it may bind equally, since *)
(* operators group to the left, but assignments and '?' group to the       *)
(* right, and a unary operator takes no binary one.  The ranks are those   *)
(* of the comments of BinaryOperatorPrecedence (parser.rs:12-22).          *)
Binds ==
  Sound /\ done /\ p.ok =>
    /\ \A i \in Nodes({"BinaryExpression"}), j \in DOMAIN p.ev :
         j \in Under(i) /\ p.ev[j].e = "start" =>
           IF (j < Operator(i)) = (Rank(i) # ASSIGNING)
           THEN Rank(j) >= Rank(i) ELSE Rank(j) > Rank(i)
    /\ \A i \in Nodes({"ConditionalExpression"}) : Rank(i + 1) > ASSIGNING
    /\ \A i \in Nodes({"PrefixUnaryExpression"}) :
         \A j \in Under(i) : p.ev[j].e = "start" => Rank(j) = Operand

-----------------------------------------------------------------------------
(* Comments *)

STATEMENTS ==
  {"ExpressionStatement", "LocalVariableDeclaration", "FunctionStatement", "EmptyStatement",
   "BlockStatement"}

(* The comment at position c stands on its own above what begins at n: no  *)
(* empty line comes between, and it does not end the line of what precedes *)
(* it, as it does where a line feed comes after it and none before it.     *)
Above(c, n) ==
  LET Line(i) == Kind(i) = "nl"
      begin == CHOOSE b \in 1..c : /\ \A i \in b..c : Kind(i) \in TRIVIA
                                   /\ b = 1 \/ Kind(b - 1) \notin TRIVIA IN
  /\ \A i, j \in c + 1..n - 1 :
       i < j /\ Line(i) /\ Line(j) => \E k \in i..j : Kind(k) = "comment"
  /\ (\E i \in c + 1..n - 1 : Line(i)) => \E i \in begin..c : Line(i)

(* CommentsBelong: of the comments before a statement those that stand     *)
(* above it are in its node, where its documentation is looked for, and    *)
(* the others are not, whatever statements and errors precede them         *)
(* (test_parser.rs:1055-1071).                                             *)
CommentsBelong ==
  Sound =>
    \A i \in Nodes(STATEMENTS) :
      LET leaf == {j \in i..Len(p.ev) :
                     p.ev[j].e = "token" /\ Kind(p.ev[j].of) \notin TRIVIA}
          n == p.ev[CHOOSE j \in leaf : \A k \in leaf : j <= k].of
      IN \A c \in 1..n - 1 :
           Kind(c) = "comment" /\ (\A k \in c..n - 1 : Kind(k) \in TRIVIA) =>
             ((\E j \in i..Len(p.ev) : p.ev[j] = Leaf(c)) <=> Above(c, n))

-----------------------------------------------------------------------------
(* The language *)

RECURSIVE Expr(_), Unary(_), Item(_), Items(_, _)

Part(t, i, j) == SubSeq(t, i, j)

(* What may be assigned to: a name, or an element of an expression.        *)
Assignable(t) ==
  \/ t = <<"id">>
  \/ /\ t # <<>> /\ Last(t) = "]"
     /\ \E k \in 2..Len(t) - 1 :
          t[k] = "[" /\ Item(Part(t, 1, k - 1)) /\ Expr(Part(t, k + 1, Len(t) - 1))

RECURSIVE CommaList(_)
CommaList(t) ==
  Expr(t) \/ \E k \in DOMAIN t :
    t[k] = "," /\ CommaList(Part(t, 1, k - 1)) /\ Expr(Part(t, k + 1, Len(t)))

(* Arguments or elements: commas between them may be left out where what   *)
(* follows cannot go on with the expression before it.                     *)
CONTINUING == {"-", "=", "(", "[", "++", "?"}
Items(t, trailing) ==
  \/ t = <<>> \/ Expr(t)
  \/ \E k \in 1..Len(t) - 1 :
       /\ Expr(Part(t, 1, k))
       /\ \/ /\ t[k + 1] = "," /\ (k + 1 < Len(t) \/ trailing)
             /\ Items(Part(t, k + 2, Len(t)), trailing)
          \/ /\ t[k + 1] \notin CONTINUING \cup {","}
             /\ Items(Part(t, k + 1, Len(t)), trailing)

(* An operand with what follows it.                                        *)
Item(t) ==
  \/ t = <<"id">> \/ Assignable(t)
  \/ t # <<>> /\ Last(t) = "++" /\ Assignable(Front(t))
  \/ Len(t) > 1 /\ t[1] = "(" /\ Last(t) = ")" /\ CommaList(Part(t, 2, Len(t) - 1))
  \/ Len(t) > 1 /\ t[1] = "[" /\ Last(t) = "]" /\ Items(Part(t, 2, Len(t) - 1), TRUE)
  \/ t # <<>> /\ Last(t) = ")" /\ \E k \in 2..Len(t) - 1 :
       t[k] = "(" /\ Item(Part(t, 1, k - 1)) /\ Items(Part(t, k + 1, Len(t) - 1), FALSE)

Unary(t) ==
  \/ Item(t)
  \/ t # <<>> /\ t[1] = "-" /\ Unary(Tail(t))
  \/ t # <<>> /\ t[1] = "++" /\ Assignable(Tail(t))

RECURSIVE Operation(_)
Operation(t) ==
  Unary(t) \/ \E k \in DOMAIN t :
    t[k] = "-" /\ Operation(Part(t, 1, k - 1)) /\ Unary(Part(t, k + 1, Len(t)))

Expr(t) ==
  \/ Operation(t)
  \/ \E k \in DOMAIN t :
       t[k] = "=" /\ Assignable(Part(t, 1, k - 1)) /\ Expr(Part(t, k + 1, Len(t)))
  \/ \E k, l \in DOMAIN t :
       /\ t[k] = "?" /\ t[l] = ":" /\ Operation(Part(t, 1, k - 1))
       /\ Expr(Part(t, k + 1, l - 1)) /\ Expr(Part(t, l + 1, Len(t)))

RECURSIVE Script(_)
Script(t) ==
  \/ t = <<>> \/ CommaList(t)
  \/ \E k \in DOMAIN t : /\ t[k] = ";" /\ (k = 1 \/ CommaList(Part(t, 1, k - 1)))
                         /\ Script(Part(t, k + 1, Len(t)))

(* The tokens that the grammar is written for.                             *)
LANGUAGE == {"id", "-", "=", "(", ")", "[", "]", "++", ",", "?", ":", ";"}

(* Accepts: the parser reports no error for exactly the texts of the       *)
(* grammar.  An error that a recovery swallows, or one it makes up, breaks *)
(* this in one of the two directions.                                      *)
Accepts ==
  LET t == Front(p.toks) IN
  Sound /\ done /\ Range(t) \subseteq LANGUAGE => (p.ok <=> Script(t))

(* PanicsAreErrors: the assertions of the parser fail only in texts that   *)
(* have errors; no legal script stops it.                                  *)
PanicsAreErrors == Sound \/ ~ p.ok

(* Matched: in a text without errors each bracket closes the last one that *)
(* was opened.  Only the test of an 'if' with an 'else' may lack its ')'.  *)
PAIRS == {<<"(", ")">>, <<"[", "]">>, <<"{", "}">>, <<"</", "/>">>}
RECURSIVE Match(_, _)
Match(t, open) ==
  CASE t = <<>> -> open = <<>>
    [] t # <<>> /\ \E pair \in PAIRS : pair[1] = t[1] -> Match(Tail(t), <<t[1]>> \o open)
    [] t # <<>> /\ \E pair \in PAIRS : pair[2] = t[1] ->
         open # <<>> /\ <<open[1], t[1]>> \in PAIRS /\ Match(Tail(t), Tail(open))
    [] OTHER -> Match(Tail(t), open)
Matched ==
  Sound /\ done /\ p.ok /\ "else" \notin Range(p.toks) => Match(Front(p.toks), <<>>)

(* NeverPanics: no text makes an assertion of the parser fail.             *)
NeverPanics == Sound
=============================================================================
