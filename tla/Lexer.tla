------------------------------- MODULE Lexer -------------------------------
(***************************************************************************)
(* The lexer of the scripts (crates/parser/src/lexer.rs).  A lexer L is a  *)
(* record, a token is its kind and the positions of its first character    *)
(* and of the one after it, and an operator named for a token says where   *)
(* the one that begins at position i ends and what is wrong with it.       *)
(*                                                                         *)
(* Kinds are those of Tokens, so that operators the parser never tells     *)
(* apart are one kind; "doc" marks the comments that document something.   *)
(***************************************************************************)
EXTENDS Characters, SequencesExt

Scanned(kind, to, errors) == [kind |-> kind, to |-> to, errors |-> errors]

(* The errors that a character range makes at some of the positions.       *)
RECURSIVE RangesAt(_, _, _, _)
RangesAt(t, i, to, wrong) ==
  IF i = to THEN <<>>
  ELSE (IF t[i] \in wrong THEN <<CharRange(t, i)>> ELSE <<>>) \o RangesAt(t, i + 1, to, wrong)

-----------------------------------------------------------------------------
(* White space and comments *)

Whitespace(t, i) == Scanned("ws", Past(t, i, SPACES), <<>>)

RECURSIVE LineEnd(_, _)
LineEnd(t, i) == IF Char(t, i) \in {"nl", "end"} THEN i ELSE LineEnd(t, i + 1)
LineComment(t, i) == Scanned("comment", LineEnd(t, i + 1), <<>>)

RECURSIVE CommentEnd(_, _)
CommentEnd(t, i) ==
  CASE Char(t, i) = "end" -> Scanned("comment", i, <<Cursor(t, i)>>)
    [] Char(t, i) = "*" /\ Char(t, i + 1) = "/" -> Scanned("comment", i + 2, <<>>)
    [] OTHER -> CommentEnd(t, i + 1)

(* Fault: the '*' that opens a comment may also close it.                  *)
BlockCommentShort(t, i) == CommentEnd(t, i + 1)

BlockComment(t, i) ==
  CASE Char(t, i + 2) = "*" /\ Char(t, i + 3) = "/" -> Scanned("comment", i + 4, <<>>)
    [] Char(t, i + 2) = "*" /\ Char(t, i + 3) # "/" ->
         [CommentEnd(t, i + 3) EXCEPT !.kind = "doc"]
    [] OTHER -> CommentEnd(t, i + 2)

-----------------------------------------------------------------------------
(* Strings and characters *)

(* hex_escape, from the letter on; "bytes" is how long the character is    *)
(* that it stands for.  Values above the largest character are all alike.  *)
Utf8(value) ==
  CASE value < 128 -> 1 [] value \in 128..2047 -> 2 [] value \in 2048..65535 -> 3 [] OTHER -> 4
HexValue(t, i, to) ==
  LET value[k \in i..to] ==
        IF k = i THEN 0
        ELSE IF value[k - 1] > 1114111 THEN value[k - 1]
        ELSE 16 * value[k - 1] + Value(t[k - 1])
  IN value[to]
HexCharacter(t, i, to, value) ==
  IF value > 1114111 \/ value \in 55296..57343
  THEN [to |-> to, bytes |-> 1, errors |-> <<Span(t, i, to)>>]
  ELSE [to |-> to, bytes |-> Utf8(value), errors |-> <<>>]
HexDigitsTo(t, i, to) ==
  IF to = i THEN [to |-> to, bytes |-> 1, errors |-> <<CharRange(t, to)>>]
  ELSE HexCharacter(t, i, to, HexValue(t, i, to))
HexEscape(t, i, most) ==
  LET AtMost(to) == IF to > i + 1 + most THEN i + 1 + most ELSE to
  IN HexDigitsTo(t, i + 1, AtMost(Past(t, i + 1, HEX)))

ESCAPED == {"a", "n", "f", "0", "bs", "dq", "sq"}

(* Fault: of a character that cannot be escaped nothing is said.           *)
LiteralCharacterLenient(t, i) ==
  LET c == Char(t, i + 1)
      One(to) == [to |-> to, bytes |-> 1, errors |-> <<>>] IN
  CASE Char(t, i) \in {"end", "nl", "cr"} -> [One(i) EXCEPT !.bytes = 0]
    [] Char(t, i) = "bs" /\ c = "end" -> [One(i + 1) EXCEPT !.bytes = 0]
    [] Char(t, i) = "bs" /\ c \in {"dq", "sq", "bs"} -> One(i + 2)
    [] OTHER -> [One(i + 1) EXCEPT !.bytes = Width(t[i])]

(* literal_character; "bytes" is 0 where it returns None.  An invalid      *)
(* escape is marked by the backslash and one more byte, and what follows   *)
(* the backslash is not taken.                                             *)
LiteralCharacter(t, i) ==
  LET c == Char(t, i + 1)
      One(to) == [to |-> to, bytes |-> 1, errors |-> <<>>] IN
  CASE Char(t, i) \in {"end", "nl", "cr"} -> [to |-> i, bytes |-> 0, errors |-> <<>>]
    [] Char(t, i) = "bs" ->
         CASE c = "x" -> [HexEscape(t, i + 1, 2) EXCEPT !.bytes = 1]
           [] c = "u" -> HexEscape(t, i + 1, 4)
           [] c = "U" -> HexEscape(t, i + 1, 8)
           [] c \in ESCAPED -> One(i + 2)
           [] c = "end" -> [to |-> i + 1, bytes |-> 0, errors |-> <<>>]
           [] OTHER ->
                [One(i + 1) EXCEPT !.errors =
                   <<[from |-> Offset(t, i), to |-> Offset(t, i + 1) + 1]>>]
    [] OTHER -> [to |-> i + 1, bytes |-> Width(t[i]), errors |-> <<>>]

(* The loop over the characters of a string or of a character.             *)
RECURSIVE Literal(_, _, _)
LiteralFrom(t, quote, sofar, c) ==
  IF c.bytes = 0
  THEN [sofar EXCEPT !.to = c.to, !.errors = Append(@, Cursor(t, c.to))]
  ELSE Literal(t, quote, [sofar EXCEPT !.to = c.to, !.bytes = @ + c.bytes, !.errors = @ \o c.errors])
Literal(t, quote, sofar) ==
  IF Char(t, sofar.to) = quote THEN [sofar EXCEPT !.to = @ + 1]
  ELSE LiteralFrom(t, quote, sofar, LiteralCharacter(t, sofar.to))

Opened(kind, i, errors) == [kind |-> kind, to |-> i + 1, errors |-> errors, bytes |-> 0]

String(t, i) ==
  Literal(t, t[i], Opened("string", i, IF t[i] = "bq" THEN <<CharRange(t, i)>> ELSE <<>>))

Character(t, i) ==
  LET OneByte(s) ==
        IF s.bytes = 1 THEN s ELSE [s EXCEPT !.errors = Append(@, Span(t, i, s.to))]
  IN OneByte(Literal(t, "sq", Opened("lit", i, <<>>)))

RECURSIVE VerbatimEnd(_, _)
VerbatimEnd(t, i) ==
  CASE Char(t, i) = "end" -> Scanned("string", i, <<Cursor(t, i)>>)
    [] Char(t, i) = "dq" /\ Char(t, i + 1) # "dq" -> Scanned("string", i + 1, <<>>)
    [] Char(t, i) = "dq" /\ Char(t, i + 1) = "dq" -> VerbatimEnd(t, i + 2)
    [] OTHER -> VerbatimEnd(t, i + 1)
VerbatimString(t, i) == VerbatimEnd(t, i + 2)

-----------------------------------------------------------------------------
(* Names and numbers *)

NAMING == LETTERS \cup DIGITS \cup {"_", "wide", "$"}
RESERVED == {"if", "in", "do", "local"}

IdentifierTo(t, i, to) ==
  LET keyword == to = i + 1 /\ t[i] \in RESERVED
  IN Scanned(IF keyword THEN t[i] ELSE "id", to, RangesAt(t, i, to, {"wide", "$"}))
Identifier(t, i) == IdentifierTo(t, i, Past(t, i, NAMING))

(* The part of a number from s.to on; its first dot or exponent makes it a *)
(* float.                                                                  *)
RECURSIVE Decimal(_, _)
Exponent(t, s, i) ==
  IF Char(t, i) \in DIGITS THEN Decimal(t, Scanned("lit", i + 1, s.errors))
  ELSE Decimal(t, Scanned("lit", i, Append(s.errors, CharRange(t, i))))
Decimal(t, s) ==
  CASE Char(t, s.to) \in DIGITS -> Decimal(t, [s EXCEPT !.to = @ + 1])
    [] Char(t, s.to) = "." -> Decimal(t, Scanned("lit", s.to + 1, s.errors))
    [] Char(t, s.to) = "e" ->
         Exponent(t, s, IF Char(t, s.to + 1) \in {"-", "+"} THEN s.to + 2 ELSE s.to + 1)
    [] OTHER -> s

OctalTo(t, i, to) == Scanned("hex", to, RangesAt(t, i, to, DIGITS \ OCTAL))
OctalNumber(t, i) == OctalTo(t, i, Past(t, i, DIGITS))
HexadecimalNumber(t, i) == Scanned("hex", Past(t, i + 2, HEX), <<>>)

Number(t, i) ==
  CASE t[i] = "0" /\ Char(t, i + 1) \in OCTAL -> OctalNumber(t, i)
    [] t[i] = "0" /\ Char(t, i + 1) = "x" -> HexadecimalNumber(t, i)
    [] OTHER -> Decimal(t, Scanned("int", i + 1, <<>>))

-----------------------------------------------------------------------------
(* Operators *)

(* The kinds of the operators, in the order of the code; those of WRONG    *)
(* belong to other languages and are reported.                             *)
SlashOrEquals ==
  [s \in {<<"/">>} |-> "*"] @@ [s \in {<<"/", "=">>} |-> "+="]
    @@ [s \in {<<"/", ">">>} |-> "/>"]
    @@ [s \in {<<"=">>} |-> "="] @@ [s \in {<<"=", "=">>, <<"=", "=", "=">>} |-> "=="]
    @@ [s \in {<<"=", ">">>} |-> "ws"]
Comparing ==
  [s \in {<<"<">>, <<">">>, <<">", "=">>} |-> "<"] @@ [s \in {<<"<", "=">>} |-> "<="]
    @@ [s \in {<<"<", "=", ">">>, <<"<", ">">>, <<"!", "=">>, <<"!", "=", "=">>} |-> "=="]
    @@ [s \in {<<"<", "-">>} |-> "<-"] @@ [s \in {<<"<", "/">>} |-> "</"]
    @@ [s \in {<<"<", "<">>, <<"<", "<", "<">>, <<">", ">">>, <<">", ">", ">">>} |-> "<<"]
    @@ [s \in {<<"!">>} |-> "!"]
Brackets ==
  [s \in {<<c>> : c \in {"@", "{", "}", "(", ")", "[", "]", ";", ",", "?"}} |-> s[1]]
    @@ [s \in {<<"?", "?">>} |-> "||"] @@ [s \in {<<"?", "?", "=">>} |-> "="]
    @@ [s \in {<<"?", ".">>} |-> "."]
Bitwise ==
  [s \in {<<c>> : c \in {"^", "&", "|", ".", ":"}} |-> s[1]] @@ [s \in {<<"~">>} |-> "!"]
    @@ [s \in {<<"^", "=">>, <<"&", "=">>, <<"|", "=">>} |-> "+="]
    @@ [s \in {<<"~", "=">>} |-> "=="]
    @@ [s \in {<<".", ".">>, <<".", ".", ".">>} |-> "..."]
    @@ [s \in {<<".", ".", "=">>} |-> "ws"]
    @@ [s \in {<<"&", "&">>} |-> "&&"] @@ [s \in {<<"|", "|">>} |-> "||"]
    @@ [s \in {<<"&", "&", "=">>, <<"|", "|", "=">>, <<":", "=">>} |-> "="]
    @@ [s \in {<<":", ":">>} |-> "::"]
Arithmetic ==
  [s \in {<<"*">>, <<"*", "*">>, <<"%">>} |-> "*"] @@ [s \in {<<"*", "/">>} |-> "ws"]
    @@ [s \in {<<c, "=">> : c \in {"*", "%", "-", "+"}} |-> "+="]
    @@ [s \in {<<"-", "-">>, <<"+", "+">>} |-> "++"] @@ [s \in {<<"-", ">">>} |-> "."]
    @@ [s \in {<<"-">>, <<"+">>} |-> s[1]]
OPERATORS == SlashOrEquals @@ Comparing @@ Brackets @@ Bitwise @@ Arithmetic

WRONG ==
  {<<"=", "=", "=">>, <<"=", ">">>, <<"<", "<", "<">>, <<"<", ">">>, <<"!", "=", "=">>,
   <<"?", "?">>, <<"?", "?", "=">>, <<"?", ".">>, <<"^", "=">>, <<"~", "=">>, <<".", ".">>,
   <<".", ".", "=">>, <<"&", "&", "=">>, <<"&", "=">>, <<"|", "|", "=">>, <<"|", "=">>,
   <<":", "=">>, <<"*", "*">>, <<"*", "/">>, <<"-", ">">>}

Begun(t, i, n) == SubSeq(t, i, IF i + n - 1 > Len(t) THEN Len(t) ELSE i + n - 1)

(* The longest one; after ".." one more character is taken, which the      *)
(* error does not cover.                                                   *)
OperatorText(t, i, text) ==
  LET to == i + Len(text)
      more == IF text = <<".", ".">> /\ to <= Len(t) THEN 1 ELSE 0
  IN Scanned(OPERATORS[text], to + more, IF text \in WRONG THEN <<Span(t, i, to)>> ELSE <<>>)
Longest(texts) == CHOOSE s \in texts : \A o \in texts : Len(o) <= Len(s)
OperatorAt(t, i) ==
  OperatorText(t, i, Longest({Begun(t, i, k) : k \in 1..3} \cap DOMAIN OPERATORS))

-----------------------------------------------------------------------------
(* next_token *)

NulByte(t, i) == Scanned("ws", i + 1, IF i < Len(t) THEN <<Span(t, i, i + 1)>> ELSE <<>>)

Scan(t, i) ==
  CASE t[i] \in SPACES -> Whitespace(t, i)
    [] t[i] = "nl" -> Scanned("nl", i + 1, <<>>)
    [] t[i] = "#" -> LineComment(t, i)
    [] t[i] = "/" /\ Char(t, i + 1) = "/" -> LineComment(t, i)
    [] t[i] = "/" /\ Char(t, i + 1) = "*" -> BlockComment(t, i)
    [] t[i] = "@" /\ Char(t, i + 1) = "dq" -> VerbatimString(t, i)
    [] t[i] \in {"dq", "bq"} -> String(t, i)
    [] t[i] = "sq" -> Character(t, i)
    [] t[i] \in DIGITS -> Number(t, i)
    [] t[i] \in LETTERS \cup {"_", "wide", "$"} -> Identifier(t, i)
    [] t[i] = "nul" -> NulByte(t, i)
    [] t[i] \in {"bs", "euro"} -> Scanned("ws", i + 1, <<Span(t, i, i + 1)>>)
    [] OTHER -> OperatorAt(t, i)

(* A lexer at the start of a text, and after one more token.  The last     *)
(* token, at the end of the text, has the range of the one before it.      *)
Begin(t) == [text |-> t, pos |-> 1, toks |-> <<>>, errors |-> <<>>, eof |-> FALSE]

TokenRead(L, s) ==
  [L EXCEPT !.pos = s.to, !.errors = @ \o s.errors,
            !.toks = Append(@, [kind |-> s.kind, from |-> L.pos, to |-> s.to])]
NextToken(L) ==
  IF L.pos > Len(L.text) THEN [L EXCEPT !.eof = TRUE] ELSE TokenRead(L, Scan(L.text, L.pos))
=============================================================================
