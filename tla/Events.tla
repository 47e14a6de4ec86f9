------------------------------- MODULE Events -------------------------------
(***************************************************************************)
(* What every function of the parser is made of (crates/parser/src/        *)
(* parser.rs): the tokens, the flat list of events that becomes the syntax *)
(* tree, and markers, which are indices of that list.                      *)
(*                                                                         *)
(* A parser p is a record, and an operator that takes p and returns a      *)
(* parser is what the function of that name does to it.  A panic puts the  *)
(* parser at the end of the file, where every loop ends; what it does from *)
(* there on does not matter.  Of the errors only their presence is kept.   *)
(***************************************************************************)
EXTENDS Naturals, Sequences, SequencesExt, Tokens

CONSTANTS
  Fuel           \* failed attempts to parse a name that are allowed

ASSUME EventsAssumption == Fuel \in Nat

(* The events; "of" is the kind of a node or the position of a token.      *)
Pending == [e |-> "pending", of |-> "none"]
Opened(kind) == [e |-> "start", of |-> kind]
Closed == [e |-> "finish", of |-> "none"]
Leaf(n) == [e |-> "token", of |-> n]

(* The fields of a parser, at the start of tokens t.  Positions begin with *)
(* 1, and "used" tokens are in the events.                                 *)
Fresh(t) ==
  [toks |-> t \o <<"eof">>,
   used |-> 0,
   look |-> 1,          \* lookahead_index
   comments |-> 0,      \* preceding_comments_index, 0 if there are none
   nl |-> FALSE,        \* has_preceding_new_line
   nlc |-> FALSE,       \* has_new_line_after_comment
   prev |-> "ws",       \* kind of prev_token
   fuel |-> 0,
   ev |-> <<Pending>>,
   ok |-> TRUE,         \* no error was reported
   panic |-> "none",
   mark |-> 0,          \* the marker the last function returned, 0 for None
   some |-> TRUE]       \* what the last parse_statement returned

Token(p) == p.toks[p.look]
At(p, kind) == Token(p) = kind
AtSet(p, set) == Token(p) \in set

Panic(p, why) ==
  [p EXCEPT !.panic = IF @ = "none" THEN why ELSE @, !.look = Len(p.toks)]
Err(p) == [p EXCEPT !.ok = FALSE]
Marked(p, m) == [p EXCEPT !.mark = m]
Push(p, event) == [p EXCEPT !.ev = Append(@, event)]

-----------------------------------------------------------------------------
(* Tokens *)

(* Tokens up to position n go into the events.                             *)
ConsumeTo(p, n) ==
  [p EXCEPT !.ev = @ \o [i \in 1..(IF n > p.used THEN n - p.used ELSE 0) |-> Leaf(p.used + i)],
            !.used = n]

Consume(p) == ConsumeTo(p, p.look - 1)

ResetComments(p) == [p EXCEPT !.comments = 0, !.nlc = FALSE]

(* maybe_attach_trailing_comments.                                         *)
Trailing(p) == IF p.nl THEN p ELSE ResetComments(Consume(p))

(* Fault: an empty line changes nothing.                                   *)
LineFeedSticky(p) ==
  LET q == IF p.comments = 0 THEN p ELSE Trailing([p EXCEPT !.nlc = TRUE])
  IN [q EXCEPT !.nl = TRUE]

(* A line feed: after an empty line the comments above do not belong to    *)
(* the next node.                                                          *)
LineFeed(p) ==
  LET q == IF p.comments = 0 THEN p
           ELSE IF p.nlc THEN ResetComments(p)
           ELSE Trailing([p EXCEPT !.nlc = TRUE])
  IN [q EXCEPT !.nl = TRUE]

Skip1(p) == [p EXCEPT !.look = @ + 1]

RECURSIVE Trivia(_)
Trivia(p) ==
  CASE At(p, "ws") -> Trivia(Skip1(p))
    [] At(p, "nl") -> Trivia(Skip1(LineFeed(p)))
    [] At(p, "comment") ->
         Trivia(Skip1([p EXCEPT !.comments = IF @ = 0 THEN p.look ELSE @, !.nlc = FALSE]))
    [] At(p, "eof") -> Trailing(p)
    [] OTHER -> p

SkipTrivia(p) == Trivia([p EXCEPT !.nl = FALSE])

(* Fault: a token is read and not put into the events.                     *)
BumpSilent(p) ==
  IF At(p, "eof") THEN p
  ELSE LET q == [p EXCEPT !.prev = Token(p), !.used = p.look, !.look = @ + 1]
       IN SkipTrivia(ResetComments(q))

Bump(p) ==
  IF At(p, "eof") THEN p
  ELSE LET q == [p EXCEPT !.prev = Token(p), !.look = @ + 1]
       IN SkipTrivia(Consume(ResetComments(q)))

-----------------------------------------------------------------------------
(* Markers *)

(* A node begins: the trivia before it go to its parent, apart from the    *)
(* comments right before it.                                               *)
Start(p) ==
  LET before == IF p.comments = 0 THEN p.look - 1 ELSE p.comments - 1
      q == Push(ConsumeTo(ResetComments(p), before), Pending)
  IN Marked(Consume(q), Len(q.ev))

(* The same, and the comments are left to a node within this one.          *)
StartBare(p) ==
  LET q == IF p.comments = 0 THEN Consume(ResetComments(p))
           ELSE ConsumeTo(p, p.comments - 1)
  IN Marked(Push(q, Pending), Len(q.ev) + 1)

IsPending(p, m) == m \in DOMAIN p.ev /\ p.ev[m] = Pending

Drop(p, m) ==
  IF IsPending(p, m) THEN Marked([p EXCEPT !.ev = RemoveAt(@, m)], m)
  ELSE Panic(p, "dropped marker")

Finish(p, m, kind) ==
  IF IsPending(p, m)
  THEN Marked(Push([p EXCEPT !.ev[m] = Opened(kind)], Closed), m)
  ELSE Panic(p, "finished marker")

Precede(p, m) ==
  IF m \in DOMAIN p.ev /\ p.ev[m].e = "start"
  THEN Marked([p EXCEPT !.ev = InsertAt(@, m, Pending)], m)
  ELSE Panic(p, "unfinished marker")

(* marker_kind, "unfinished" where it panics.                              *)
MarkerKind(p, m) ==
  IF m \notin DOMAIN p.ev \/ p.ev[m].e = "token" THEN "Unknown"
  ELSE IF p.ev[m].e = "start" THEN p.ev[m].of
  ELSE "unfinished"

(* The last event of the node that starts with event m.                    *)
Closing(ev, m) ==
  LET Depth(i) == Len(SelectSeq(SubSeq(ev, m, i), LAMBDA x : x.e = "start"))
                  - Len(SelectSeq(SubSeq(ev, m, i), LAMBDA x : x.e = "finish"))
  IN CHOOSE i \in m + 1..Len(ev) : Depth(i) = 0 /\ \A k \in m + 1..i - 1 : Depth(k) > 0

(* marker_range, for what it asserts: the node has a token.                *)
Ranged(p, m) ==
  IF \E i \in m..Closing(p.ev, m) : p.ev[i].e = "token" THEN p
  ELSE Panic(p, "empty node")

(* is_lhs_expression, and the error that there is if it is not.            *)
TARGETS ==
  {"Name", "MemberAccessExpression", "ElementAccessExpression", "RootAccessExpression",
   "Unknown", "Error"}
Target(p, m) ==
  CASE MarkerKind(p, m) \in TARGETS -> p
    [] MarkerKind(p, m) = "unfinished" -> Panic(p, "unfinished marker")
    [] OTHER -> Err(Ranged(p, m))

(* A node that is opened at p, and closed after what is parsed from        *)
(* Start(p) on.                                                            *)
Node(p, kind, parsed) == Finish(parsed, Start(p).mark, kind)

-----------------------------------------------------------------------------
(* Errors and single tokens *)

ErrorAndAdvance(p) == IF At(p, "eof") THEN Err(p) ELSE Node(p, "Error", Bump(Start(Err(p))))

ErrorWithRecovery(p, recovery) ==
  IF AtSet(p, ALWAYS_RECOVER \cup recovery) THEN Err(p) ELSE ErrorAndAdvance(p)

(* Fault: what is missing is not reported.                                 *)
ExpectSilent(p, kind) == IF At(p, kind) THEN Bump(p) ELSE p

Expect(p, kind) == IF At(p, kind) THEN Bump(p) ELSE Err(p)

(* parse_proper_or_error.                                                  *)
Proper(p, kind) == IF At(p, kind) THEN Bump(p) ELSE ErrorAndAdvance(p)

GuaranteedName(p) ==
  LET s == Start(p) IN Node(p, "Name", Bump([s EXCEPT !.toks[s.look] = "id"]))

(* parse_name; without a name the marker is 0.                             *)
Name(p, recovery) ==
  IF AtSet(p, NAME) THEN GuaranteedName(p)
  ELSE IF p.fuel > Fuel THEN Marked(Panic(p, "stuck"), 0)
  ELSE Marked(ErrorWithRecovery([p EXCEPT !.fuel = @ + 1], recovery), 0)

(* can_parse_end_of_statement.                                             *)
Ends(p) == AtSet(p, END_OF_STATEMENT) \/ p.nl

(* parse_end_of_statement: the node that was closed last gets the          *)
(* semicolon.                                                              *)
EndOfStatement(p) ==
  IF At(p, ";") THEN Push(Bump([p EXCEPT !.ev = Front(@)]), Closed)
  ELSE IF Ends(p) THEN p ELSE Err(p)
=============================================================================
