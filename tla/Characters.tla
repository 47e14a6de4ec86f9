----------------------------- MODULE Characters -----------------------------
(***************************************************************************)
(* The characters that scripts are made of here, as far as the lexer and   *)
(* the doc comments tell them apart.  A character stands for itself, with  *)
(* these names for the others:                                             *)
(*                                                                         *)
(*   " "         a space or a tab                                          *)
(*   "nl", "cr"  a line feed, a carriage return                            *)
(*   "dq", "sq", "bq", "bs"  the quotes " ' `, and the backslash           *)
(*   "nul"       the character 0                                           *)
(*   "wide"      a letter outside ASCII, two bytes long                    *)
(*   "euro"      a character that no token begins with, three bytes long   *)
(*   a word      its letters, where nothing looks at them one by one; it   *)
(*               counts as two bytes                                       *)
(***************************************************************************)
EXTENDS Naturals, Sequences

SPACES == {" ", "cr"}
OCTAL == {"0", "7"}
DIGITS == OCTAL \cup {"8"}
HEX == DIGITS \cup {"a", "d", "e", "f"}
WORDS == {"if", "in", "do", "local", "type", "param", "return", "hide"}
LETTERS == {"a", "d", "e", "f", "g", "n", "u", "x", "U"} \cup WORDS

Value(digit) ==
  CASE digit = "0" -> 0 [] digit = "7" -> 7 [] digit = "8" -> 8 [] digit = "a" -> 10
    [] digit = "d" -> 13 [] digit = "e" -> 14 [] digit = "f" -> 15

Width(c) == IF c = "euro" THEN 3 ELSE IF c \in WORDS \cup {"wide"} THEN 2 ELSE 1

(* The character at position i, from 1 on.                                 *)
Char(t, i) == IF i \in DOMAIN t THEN t[i] ELSE "end"

(* The first position from i on whose character is not in the set.         *)
Past(t, i, set) ==
  CHOOSE j \in i..i + Len(t) :
    Char(t, j) \notin set /\ \A k \in i..j - 1 : Char(t, k) \in set

(* The bytes before position i: where it is in the text of the program.    *)
Offset(t, i) ==
  LET bytes[k \in 0..Len(t)] == IF k = 0 THEN 0 ELSE bytes[k - 1] + Width(t[k])
  IN bytes[i - 1]

(* Ranges of errors, in bytes: of the characters from i up to j, of the    *)
(* one at i if there is one, and an empty one at i.                        *)
Span(t, i, j) == [from |-> Offset(t, i), to |-> Offset(t, j)]
CharRange(t, i) == Span(t, i, IF i \in DOMAIN t THEN i + 1 ELSE i)
Cursor(t, i) == Span(t, i, i)
=============================================================================
