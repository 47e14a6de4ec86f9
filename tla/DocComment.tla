----------------------------- MODULE DocComment -----------------------------
(***************************************************************************)
(* The parser of one doc comment (crates/parser/src/doc_comment.rs), which *)
(* works on characters and makes tokens and events of its own.  A parser d *)
(* is a record; a marker is the index of an event.  When a loop comes back *)
(* to where it was, so that it would go on for ever, the parser is stuck   *)
(* and put at the end of the text: what it does from there on does not     *)
(* matter.  Of the tags there is one of each sort.                         *)
(***************************************************************************)
EXTENDS Characters, SequencesExt

Fresh(t) ==
  [text |-> t, pos |-> 1, ev |-> <<>>, errors |-> <<>>, stuck |-> FALSE,
   code |-> "none",      \* code_block_state: none, single or multi
   ticks |-> 0]          \* connected_backticks

Opened(kind) == [e |-> "start", of |-> kind]
Closed == [e |-> "finish"]
Pending == [e |-> "pending"]
Piece(kind, from, to) == [e |-> "token", of |-> kind, from |-> from, to |-> to]

Push(d, event) == [d EXCEPT !.ev = Append(@, event)]
Start(d) == Push(d, Pending)
Finish(d, m, kind) == Push([d EXCEPT !.ev[m] = Opened(kind)], Closed)
Drop(d, m) == [d EXCEPT !.ev = RemoveAt(@, m)]
Mark(d) == Len(d.ev) + 1

(* What is left of the text, up to where it ends with the comment.         *)
Peek(d) ==
  IF Char(d.text, d.pos) = "*" /\ Char(d.text, d.pos + 1) = "/" THEN "end"
  ELSE Char(d.text, d.pos)
PeekN(d, n) == Char(d.text, d.pos + n - 1)
Skip(d) == IF Peek(d) = "end" THEN d ELSE [d EXCEPT !.pos = @ + 1]

FinishToken(d, start, kind) == Push(d, Piece(kind, start, d.pos))
CharToken(d, kind) == FinishToken(Skip(d), d.pos, kind)

Report(d) ==
  LET range == IF Peek(d) = "end" THEN Cursor(d.text, d.pos) ELSE CharRange(d.text, d.pos)
  IN [d EXCEPT !.errors = Append(@, range)]

Expect(d, c) == IF Peek(d) = c THEN CharToken(d, c) ELSE Report(d)

RECURSIVE SkipAll(_, _)
SkipAll(d, set) == IF Peek(d) \in set THEN SkipAll(Skip(d), set) ELSE d
SkipTrivia(d) ==
  IF Peek(d) \in SPACES THEN FinishToken(SkipAll(d, SPACES), d.pos, "ws") ELSE d

(* after_new_line: a line of the comment begins with '*'.                  *)
LineBegins(d) ==
  CASE Peek(d) = "*" -> SkipTrivia(CharToken(d, "*"))
    [] Peek(d) = "end" -> d
    [] OTHER -> Report(d)
AfterNewLine(d) == LineBegins(SkipTrivia(d))
NewLine(d) == AfterNewLine(CharToken(d, "nl"))

-----------------------------------------------------------------------------
(* Descriptions *)

(* One more backtick: one opens code within a line, three open a block.    *)
Backtick(d) ==
  LET n == d.ticks + 1 IN
  CASE d.code = "none" /\ n = 1 -> [d EXCEPT !.code = "single", !.ticks = n]
    [] d.code = "single" /\ n = 3 -> [d EXCEPT !.code = "multi", !.ticks = 0]
    [] d.code = "single" /\ n = 1 -> [d EXCEPT !.code = "none", !.ticks = 0]
    [] d.code = "multi" /\ n = 3 -> [d EXCEPT !.code = "none", !.ticks = 0]
    [] OTHER -> [d EXCEPT !.ticks = n]

(* After the backticks; two of them hold nothing.                          *)
NoBacktick(d) ==
  [d EXCEPT !.code = IF d.code = "single" /\ d.ticks = 2 THEN "none" ELSE @, !.ticks = 0]

Unterminated(d) == [Report(d) EXCEPT !.code = "none"]

(* Fault: the piece of text that ends a description is forgotten.          *)
EndOfTextSilent(d, m, line, start) ==
  LET closed == Finish(Drop(d, line), m, "DocDescription")
  IN IF d.code = "none" THEN closed ELSE Unterminated(closed)

(* The end of a description with marker m, of whose last line the piece    *)
(* from start on is left.                                                  *)
LastLine(d, line, start) ==
  IF start = d.pos THEN Drop(d, line)
  ELSE Finish(FinishToken(d, start, "DocText"), line, "DocDescriptionLine")
EndOfText(d, m, line, start) ==
  LET closed == Finish(LastLine(d, line, start), m, "DocDescription")
  IN IF d.code = "none" THEN closed ELSE Unterminated(closed)

EndOfLine(d, line, start) ==
  AfterNewLine(Finish(FinishToken(Skip(d), start, "DocText"), line, "DocDescriptionLine"))

RECURSIVE Text(_, _, _, _)

(* A line of the description with marker m.                                *)
Line(d, m) == Text(Start(d), m, Mark(d), d.pos)

(* One character that is no backtick.                                      *)
Plain(d, m, line, start) ==
  CASE Peek(d) = "@" /\ d.code # "none" -> Text(Skip(d), m, line, start)
    [] Peek(d) = "end" \/ (Peek(d) = "@" /\ d.code = "none") -> EndOfText(d, m, line, start)
    [] Peek(d) = "nl" ->
         Line(EndOfLine(IF d.code = "single" THEN Unterminated(d) ELSE d, line, start), m)
    [] Peek(d) = "bs" /\ d.code = "none" -> Text(Skip(Skip(d)), m, line, start)
    [] OTHER -> Text(Skip(d), m, line, start)

Text(d, m, line, start) ==
  IF Peek(d) = "bq" THEN Text(Backtick(Skip(d)), m, line, start)
  ELSE Plain(NoBacktick(d), m, line, start)

RECURSIVE LeadingLines(_)
LeadingLines(d) == IF Peek(d) = "nl" THEN LeadingLines(NewLine(d)) ELSE d

DescriptionFrom(d) == IF Peek(d) \in {"end", "@"} THEN d ELSE Line(Start(d), Mark(d))
Description(d) == DescriptionFrom(LeadingLines(SkipTrivia(d)))

-----------------------------------------------------------------------------
(* Types *)

Identifier(d) ==
  IF Peek(d) \in LETTERS \cup {"_"}
  THEN FinishToken(SkipAll(d, LETTERS \cup DIGITS \cup {"_"}), d.pos, "DocIdentifier")
  ELSE Report(d)

Stuck(d) == [Report(d) EXCEPT !.stuck = TRUE, !.pos = Len(d.text) + 1]

(* The calls that make types recursive go through ParseTypes.              *)
RECURSIVE ParseTypes(_, _)
Types(d) == ParseTypes("types", d)

(* parse_function_type: its parameters and what it returns.                *)
ParameterName(d) ==
  Identifier(IF Peek(d) = "." /\ PeekN(d, 2) = "." /\ PeekN(d, 3) = "."
             THEN FinishToken(Skip(Skip(Skip(d))), d.pos, "...") ELSE d)
Default(d, variable) ==
  IF Peek(d) = "?" THEN CharToken(IF variable THEN Report(d) ELSE d, "?") ELSE d
Parameter(d) ==
  LET variable == Peek(d) = "." /\ PeekN(d, 2) = "." /\ PeekN(d, 3) = "."
      named == Default(SkipTrivia(ParameterName(Start(d))), variable)
  IN Finish(Types(SkipTrivia(Expect(SkipTrivia(named), ":"))), Mark(d), "DocFunctionParameter")
MoreParameters(d) ==
  IF Peek(d) = "," THEN ParseTypes("parameters", SkipTrivia(CharToken(d, ","))) ELSE d
Parameters(d) == IF Peek(d) = ")" THEN d ELSE ParseTypes("parameters", d)

Arrow(d) == FinishToken(Skip(Skip(Start(d))), d.pos, "arrow")
FunctionReturn(d) ==
  IF Peek(d) \in {"-", "~"} /\ PeekN(d, 2) = ">"
  THEN Finish(Types(SkipTrivia(Arrow(d))), Mark(d), "DocFunctionReturn") ELSE d
FunctionType(d) ==
  LET open == Expect(CharToken(d, "@"), "(")
  IN FunctionReturn(SkipTrivia(Expect(Parameters(SkipTrivia(open)), ")")))

OneType(d) ==
  LET Named(r) ==
        IF r.pos = d.pos THEN Drop(r, Mark(d)) ELSE Finish(r, Mark(d), "DocTypeName") IN
  CASE Peek(d) = "[" ->
         Finish(Expect(Types(CharToken(Start(d), "[")), "]"), Mark(d), "DocTypeArray")
    [] Peek(d) = "@" -> Finish(FunctionType(Start(d)), Mark(d), "DocTypeFunction")
    [] OTHER -> Named(Identifier(Start(d)))

(* What follows a type that began at a position: a letter outside ASCII is *)
(* taken for another type, which Identifier does not take it for.          *)
AfterType(d, from) ==
  CASE Peek(d) = "|" -> ParseTypes("type", SkipTrivia(CharToken(d, "|")))
    [] Peek(d) \in LETTERS \cup {"wide", "_", "["} ->
         IF d.pos = from THEN Stuck(d) ELSE ParseTypes("type", Report(d))
    [] OTHER -> d

Type(d) == AfterType(SkipTrivia(OneType(d)), d.pos)

ParseTypes(function, d) ==
  CASE function = "types" -> Type(SkipTrivia(d))
    [] function = "type" -> Type(d)
    [] function = "parameters" -> MoreParameters(SkipTrivia(Parameter(d)))

TagTypeFrom(d) ==
  IF Peek(d) = "{"
  THEN Finish(Expect(Types(CharToken(Start(d), "{")), "}"), Mark(d), "DocTagType")
  ELSE Report(d)
TagType(d) == TagTypeFrom(SkipTrivia(d))

PossibleTypeFrom(d) == IF Peek(d) = "{" THEN TagTypeFrom(d) ELSE d
PossibleType(d) == PossibleTypeFrom(SkipTrivia(d))
NameFrom(d) == Finish(Identifier(Start(d)), Mark(d), "DocName")

-----------------------------------------------------------------------------
(* Tags *)

(* What follows the tag's name.                                            *)
Content(d, name, range) ==
  CASE name \in {<<"param">>, <<"return">>} ->
         LET typed == PossibleType(d) IN
         IF name = <<"param">> THEN NameFrom(SkipTrivia(typed)) ELSE typed
    [] name = <<"type">> -> TagType(d)
    [] name = <<"hide">> -> d
    [] OTHER -> [d EXCEPT !.errors = Append(@, range)]

(* The tag with marker m whose name, from a position on, was just parsed.  *)
TagNamed(d, m, from) ==
  LET content == Content(Finish(d, m + 1, "DocTagItem"), SubSeq(d.text, from, d.pos - 1),
                         Span(d.text, from, d.pos))
  IN Finish(Description(content), m, "Tag")
Tag(d) == TagNamed(Identifier(CharToken(Start(Start(d)), "@")), Mark(d), d.pos + 1)

RECURSIVE Body(_)
Body(d) ==
  CASE Peek(d) = "end" -> d
    [] Peek(d) = "@" -> Body(Tag(d))
    [] Peek(d) = "nl" -> Body(NewLine(d))
    [] OTHER -> Body(Description(d))

(* A whole comment, from its slash to the last one if it is closed.        *)
CloseComment(d) ==
  IF Char(d.text, d.pos) = "*" /\ Char(d.text, d.pos + 1) = "/"
  THEN FinishToken([d EXCEPT !.pos = @ + 2], d.pos, "*/") ELSE d
Parse(t) == CloseComment(Body(SkipTrivia(FinishToken([Fresh(t) EXCEPT !.pos = 4], 1, "/**"))))
=============================================================================
