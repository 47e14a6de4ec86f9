------------------------------ MODULE Spelling ------------------------------
(***************************************************************************)
(* What Parse::new promises about the text it is given: how it is cut into *)
(* tokens, which texts are reported, and that the tree spells it.  The     *)
(* tokens are described as languages, each with the character that may     *)
(* follow, without the loops that find where they end.                     *)
(***************************************************************************)
EXTENDS Front

(* The text was not given as its tokens.                                   *)
Ran == lexer.pos > 0

Within(s, set) == Range(s) \subseteq set

(* How often a character stands right before position j.                   *)
RunBefore(s, j, c) ==
  CHOOSE n \in 0..j - 1 :
    (n = j - 1 \/ s[j - 1 - n] # c) /\ \A m \in j - n..j - 1 : s[m] = c

-----------------------------------------------------------------------------
(* The tokens: text s is one of the kind, where c comes after it.          *)

LineComments(s, c) == ~ Contains(s, "nl") /\ c \in {"nl", "end"}

Closing2(s, j) == j > 2 /\ s[j] = "*" /\ s[j + 1] = "/"
BlockClosed(s) == Len(s) > 3 /\ Closing2(s, Len(s) - 1)
BlockComments(s, c) ==
  (\A j \in 1..Len(s) - 2 : ~ Closing2(s, j)) /\ (BlockClosed(s) \/ c = "end")

(* A quote ends a literal unless it is escaped, which '`' cannot be.       *)
Ends1(s, j) ==
  j > 1 /\ s[j] = s[1] /\ (s[1] = "bq" \/ RunBefore(s, j, "bs") % 2 = 0)
Quoted(s, c) ==
  /\ Range(s) \cap {"nl", "cr"} = {}
  /\ \A j \in 1..Len(s) - 1 : ~ Ends1(s, j)
  /\ Ends1(s, Len(s)) \/ c \in {"nl", "cr", "end"}

(* In a verbatim string quotes come in pairs, up to the one that ends it.  *)
OddEnd(s) == RunBefore(s, Len(s) + 1, "dq") % 2 = 1
Verbatims(s, c) ==
  LET inner == SubSeq(s, 3, Len(s)) IN
  /\ \A j \in 1..Len(inner) - 1 :
       inner[j] = "dq" /\ inner[j + 1] # "dq" => ~ OddEnd(SubSeq(inner, 1, j))
  /\ IF OddEnd(inner) THEN c # "dq" ELSE c = "end"

Numbers(kind, s, c) ==
  LET octal == Len(s) > 1 /\ s[1] = "0" /\ s[2] \in Lex!OCTAL
      hexadecimal == Len(s) > 1 /\ s[1] = "0" /\ s[2] = "x"
      more == Lex!DIGITS \cup {".", "e"} IN
  CASE kind = "int" -> ~ octal /\ Within(s, Lex!DIGITS) /\ c \notin more
    [] kind = "hex" ->
         \/ octal /\ Within(s, Lex!DIGITS) /\ c \notin Lex!DIGITS
         \/ hexadecimal /\ Within(SubSeq(s, 3, Len(s)), Lex!HEX) /\ c \notin Lex!HEX
    [] kind = "lit" ->
         /\ ~ octal /\ Within(s, more \cup {"+", "-"}) /\ ~ Within(s, Lex!DIGITS)
         /\ \A j \in DOMAIN s : s[j] \in {"+", "-"} => s[j - 1] = "e"
         /\ c \notin more /\ ~ (Last(s) = "e" /\ c \in {"+", "-"})

Names(kind, s, c) ==
  /\ s[1] \notin Lex!DIGITS /\ Within(s, Lex!NAMING) /\ c \notin Lex!NAMING
  /\ kind = IF Len(s) = 1 /\ s[1] \in {"if", "in", "do", "local"} THEN s[1] ELSE "id"

(* Only the two dots, which mean nothing, take what follows with them.     *)
TwoDots(s) == Len(s) > 1 /\ s[1] = "." /\ s[2] = "." /\ s \notin DOMAIN Lex!OPERATORS
OperatorWords(kind, s, c) ==
  IF TwoDots(s) THEN kind = "..." /\ Len(s) = 3
  ELSE /\ s \in DOMAIN Lex!OPERATORS /\ kind = Lex!OPERATORS[s]
       /\ Append(s, c) \notin DOMAIN Lex!OPERATORS
       /\ (s = <<"/">> => c \notin {"/", "*"}) /\ (s = <<"@">> => c # "dq")
       /\ s = <<".", ".">> => c = "end"

Unknown == {"nul", "bs", "euro"}

WellCut(token) ==
  LET s == Spelled(token)
      c == Lex!Char(lexer.text, token.to)
      kind == token.kind IN
  CASE s[1] \in Lex!SPACES -> kind = "ws" /\ Within(s, Lex!SPACES) /\ c \notin Lex!SPACES
    [] s[1] = "nl" -> kind = "nl" /\ Len(s) = 1
    [] s[1] \in Unknown -> kind = "ws" /\ Len(s) = 1
    [] s[1] \in {"dq", "bq"} -> kind = "string" /\ Quoted(s, c)
    [] s[1] = "sq" -> kind = "lit" /\ Quoted(s, c)
    [] s[1] \in Lex!DIGITS -> kind \in {"int", "hex", "lit"} /\ Numbers(kind, s, c)
    [] s[1] \in Lex!NAMING \ Lex!DIGITS -> Names(kind, s, c)
    [] s[1] = "@" /\ Len(s) > 1 -> kind = "string" /\ s[2] = "dq" /\ Verbatims(s, c)
    [] s[1] = "#" -> kind = "comment" /\ LineComments(s, c)
    [] s[1] = "/" /\ Len(s) > 1 /\ s[2] = "/" -> kind = "comment" /\ LineComments(s, c)
    [] s[1] = "/" /\ Len(s) > 1 /\ s[2] = "*" ->
         /\ BlockComments(s, c)
         /\ kind = IF Len(s) > 2 /\ s[3] = "*" /\ s # <<"/", "*", "*", "/">> THEN "doc"
                   ELSE "comment"
    [] OTHER -> OperatorWords(kind, s, c)

(* TokensMatch: the next token always begins where the last one ended, is  *)
(* not empty, and is the longest of its kind that begins there.  Where a   *)
(* token ends is found by loops of look-ahead, which escapes, doubled      *)
(* quotes, "/**/" and exponents can get out of step; from there on the     *)
(* whole rest of a script is read wrongly.                                 *)
TokensMatch ==
  Ran /\ ~ lexer.eof =>
    LET t == lexer.toks
        n == Len(t) IN
    /\ lexer.pos = IF n = 0 THEN 1 ELSE t[n].to
    /\ lexer.pos <= Len(lexer.text) + 1
    /\ n > 0 =>
         /\ t[n].from = IF n = 1 THEN 1 ELSE t[n - 1].to
         /\ t[n].from < t[n].to /\ WellCut(t[n])

-----------------------------------------------------------------------------
(* Errors *)

(* A backslash at j begins an escape, and one that stands for a character. *)
Escape(s, j) == s[j] = "bs" /\ RunBefore(s, j, "bs") % 2 = 0
HexDigits(s, from, n) == from + n - 1 <= Len(s) /\ \A k \in from..from + n - 1 : s[k] \in Lex!HEX
Surrogate(s, j) ==
  s[j + 1] = "u" /\ HexDigits(s, j + 2, 4) /\ s[j + 2] = "d" /\ s[j + 3] \in Lex!HEX \ Lex!OCTAL
TooLarge(s, j) ==
  s[j + 1] = "U" /\ HexDigits(s, j + 2, 8) /\ SubSeq(s, j + 2, j + 4) # <<"0", "0", "0">>
EscapesLegal(s) ==
  \A j \in 1..Len(s) - 1 :
    Escape(s, j) =>
      \/ s[j + 1] \in {"a", "n", "f", "0", "bs", "dq", "sq"}
      \/ /\ s[j + 1] \in {"x", "u", "U"} /\ HexDigits(s, j + 2, 1)
         /\ ~ Surrogate(s, j) /\ ~ TooLarge(s, j)

(* The characters of one byte, as they are written between quotes.         *)
OneByte(s) ==
  LET n == Len(s)
      Zero(from, to) == \A k \in from..to : s[k] = "0" IN
  \/ n = 1 /\ s[1] # "bs" /\ Lex!Width(s[1]) = 1
  \/ n = 2 /\ s[1] = "bs" /\ s[2] \in {"a", "n", "f", "0", "bs", "dq", "sq"}
  \/ n \in 3..4 /\ s[1] = "bs" /\ s[2] = "x" /\ HexDigits(s, 3, n - 2)
  \/ /\ n \in 3..10 /\ s[1] = "bs" /\ HexDigits(s, 3, n - 2)
     /\ (s[2] = "u" /\ n < 7) \/ s[2] = "U"
     /\ n = 3 \/ (s[n - 1] \in Lex!OCTAL /\ Zero(3, n - 2))

Legal(token) ==
  LET s == Spelled(token) IN
  CASE s[1] \in Unknown -> s[1] = "nul" /\ token.to > Len(lexer.text)
    [] s[1] = "dq" -> Ends1(s, Len(s)) /\ EscapesLegal(s)
    [] s[1] = "bq" -> FALSE
    [] s[1] = "sq" ->
         /\ Ends1(s, Len(s)) /\ EscapesLegal(s) /\ OneByte(SubSeq(s, 2, Len(s) - 1))
    [] s[1] \in Lex!DIGITS ->
         IF token.kind = "hex" THEN s[2] = "x" \/ Within(s, Lex!OCTAL)
         ELSE \A j \in DOMAIN s :
                s[j] \in {"e", "+", "-"} => j < Len(s) /\ s[j + 1] \in Lex!DIGITS \cup {"+", "-"}
    [] s[1] \in Lex!NAMING \ Lex!DIGITS -> Range(s) \cap {"wide", "$"} = {}
    [] s[1] = "@" /\ Len(s) > 1 -> OddEnd(SubSeq(s, 3, Len(s)))
    [] s[1] = "/" /\ Len(s) > 1 /\ s[2] = "*" -> BlockClosed(s)
    [] OTHER -> s \notin Lex!WRONG /\ ~ TwoDots(s)

Boundaries == {Lex!Offset(lexer.text, i) : i \in 1..Len(lexer.text) + 1}

(* The range of an invalid escape is two bytes long, whatever the          *)
(* character after the backslash.                                          *)
EscapeRange(e) ==
  e.to = e.from + 2 /\ \E j \in DOMAIN lexer.text :
    lexer.text[j] = "bs" /\ e.from = Lex!Offset(lexer.text, j)

(* ErrorsTell: the lexer reports an error exactly if the text has a token  *)
(* that is no Squirrel, and the ranges of its errors, and of those of the  *)
(* doc comments once they are moved to where the comment is, lie in the    *)
(* text and between characters, apart from invalid escapes of a longer     *)
(* character.  The lexer goes on after every error, so one that a recovery *)
(* forgets to report makes a broken script look right.                     *)
ErrorsTell ==
  tree.built =>
    /\ lexer.errors = <<>> <=> \A k \in DOMAIN lexer.toks : Legal(lexer.toks[k])
    /\ \A e \in Range(lexer.errors) \cup Range(tree.errors) :
         /\ e.from <= e.to /\ e.from \in Boundaries
         /\ e.to \in Boundaries \/ EscapeRange(e)

-----------------------------------------------------------------------------
(* The tree *)

(* TreeIsText: the builder is never asked to close what is not open and is *)
(* left with one node, and the tokens of the tree, among them the pieces   *)
(* into which doc comments are cut, are the text in its order without a    *)
(* gap.  Offsets of every later request are offsets in this tree.  A doc   *)
(* comment alone may keep its parser for ever, with a letter outside ASCII *)
(* where it expects a type.                                                *)
TreeIsText ==
  tree.built =>
    LET leaves == tree.leaves
        size == Len(lexer.text) IN
    /\ tree.failed \in {"none", "stuck"}
    /\ tree.failed = "none" =>
         /\ \A k \in DOMAIN leaves :
              leaves[k][1] < leaves[k][2]
                /\ leaves[k][1] = IF k = 1 THEN 1 ELSE leaves[k - 1][2]
         /\ size + 1 = IF leaves = <<>> THEN 1 ELSE Last(leaves)[2]
    /\ tree.failed = "stuck" =>
         \E k \in DOMAIN lexer.toks :
           lexer.toks[k].kind = "doc" /\ Contains(Spelled(lexer.toks[k]), "wide")
=============================================================================
