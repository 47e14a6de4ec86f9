-------------------------------- MODULE Front --------------------------------
(***************************************************************************)
(* Parse::new (crates/parser/src/lib.rs): the lexer, the parser and the    *)
(* parser of doc comments, one after the other, and the tree that is built *)
(* from their events.  A text is a sequence of characters; some are given  *)
(* as the tokens that the lexer makes of them, to start at the parser.     *)
(***************************************************************************)
EXTENDS Syntax

CONSTANTS
  Texts          \* sets of texts, sequences of characters

VARIABLES
  lexer,         \* the lexer
  tree           \* what the builder has made, NoTree before it begins

Lex == INSTANCE Lexer
Doc == INSTANCE DocComment

frontVars == <<p, done, lexer, tree>>

-----------------------------------------------------------------------------
(* The builder of trees *)

Spelled(token) == SubSeq(lexer.text, token.from, token.to - 1)

NoTree == [built |-> FALSE]

(* GreenNodeBuilder: "open" nodes, nodes and tokens that are in none, and  *)
(* the ranges of the tokens.  Its calls panic when they do not nest.       *)
Builder ==
  [built |-> TRUE, open |-> 0, roots |-> 0, leaves |-> <<>>, errors |-> <<>>,
   failed |-> "none"]

StartNode(b) == [b EXCEPT !.open = @ + 1, !.roots = IF b.open = 0 THEN @ + 1 ELSE @]
FinishNode(b) ==
  IF b.open = 0 THEN [b EXCEPT !.failed = "no open node"] ELSE [b EXCEPT !.open = @ - 1]
AddToken(b, from, to) ==
  [b EXCEPT !.leaves = Append(@, <<from, to>>), !.roots = IF b.open = 0 THEN @ + 1 ELSE @]
FinishTree(b) ==
  IF b.failed = "none" /\ (b.open # 0 \/ b.roots # 1) THEN [b EXCEPT !.failed = "no root"]
  ELSE b

PendingFound(b) == [b EXCEPT !.failed = "pending event"]

(* The node of a doc comment, whose parser is d, where it is in the text.  *)
AddPieces(b, d, token) ==
  LET Add(x, v) ==
        CASE v.e = "start" -> StartNode(x)
          [] v.e = "finish" -> FinishNode(x)
          [] v.e = "pending" -> PendingFound(x)
          [] v.e = "token" -> AddToken(x, v.from + token.from - 1, v.to + token.from - 1)
      before == Lex!Offset(lexer.text, token.from)
      Shifted(range) == [from |-> range.from + before, to |-> range.to + before] IN
  [FinishNode(FoldLeft(Add, StartNode(b), d.ev)) EXCEPT
     !.errors = @ \o [n \in DOMAIN d.errors |-> Shifted(d.errors[n])],
     !.failed = IF d.stuck THEN "stuck" ELSE @]
AddDocument(b, token) == AddPieces(b, Doc!Parse(Spelled(token)), token)

(* One event of the parser.                                                *)
AddEvent(b, v) ==
  LET token == lexer.toks[v.of] IN
  CASE b.failed # "none" -> b
    [] b.failed = "none" /\ v.e = "start" -> StartNode(b)
    [] b.failed = "none" /\ v.e = "finish" -> FinishNode(b)
    [] b.failed = "none" /\ v.e = "pending" -> PendingFound(b)
    [] b.failed = "none" /\ v.e = "token" ->
         IF token.kind = "doc" THEN AddDocument(b, token) ELSE AddToken(b, token.from, token.to)

-----------------------------------------------------------------------------
(* Parse::new *)

KindOf(token) == IF token.kind = "doc" THEN "comment" ELSE token.kind
Given(L) == [i \in DOMAIN L.toks |-> KindOf(L.toks[i])]

(* A text whose every character is a token: the lexer does not run, and    *)
(* the events are not built into a tree, of whose tokens nothing is known. *)
Tokenised(t) ==
  [Lex!Begin(t) EXCEPT !.pos = 0, !.eof = TRUE,
     !.toks = [i \in DOMAIN t |-> [kind |-> t[i], from |-> i, to |-> i + 1]]]

FrontInit ==
  /\ tree = NoTree
  /\ \/ Init /\ lexer = Tokenised(Front(p.toks))
     \/ /\ \E i \in DOMAIN Texts : \E t \in Texts[i] : lexer = Lex!Begin(t)
        /\ p = Fresh(<<>>) /\ done = FALSE

(* One token; with the last one the parser begins.                         *)
LexToken ==
  /\ ~ lexer.eof
  /\ lexer' = Lex!NextToken(lexer)
  /\ p' = IF lexer'.eof THEN SkipTrivia(Fresh(Given(lexer'))) ELSE p
  /\ UNCHANGED <<done, tree>>

ParseStep == lexer.eof /\ Next /\ UNCHANGED <<lexer, tree>>

Build ==
  /\ done /\ lexer.pos > 0 /\ ~ tree.built
  /\ tree' = FinishTree(FoldLeft(AddEvent, Builder, p.ev))
  /\ UNCHANGED <<p, done, lexer>>

FrontNext == LexToken \/ ParseStep \/ Build

FrontSpec == FrontInit /\ [][FrontNext]_frontVars
=============================================================================
