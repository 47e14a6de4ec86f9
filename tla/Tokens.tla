------------------------------- MODULE Tokens -------------------------------
(***************************************************************************)
(* The kinds of tokens and the sets of them that the parser asks for       *)
(* (crates/parser/src/token_set.rs, the precedences in parser.rs).         *)
(*                                                                         *)
(* Kinds that the parser never tells apart are one kind here: "==" stands  *)
(* for all equality operators, "*" for the multiplicative ones, "+=" for   *)
(* the assigning ones, "++" for both updates, "!" for both unary operators *)
(* that are not binary, "null" for the keywords of literals, "lit" for     *)
(* characters and floats, "string" for both strings, "hex" for octal and   *)
(* hexadecimal integers, "file" for __FILE__ and __LINE__, "comment" for   *)
(* the three comments, and "ws" for white space and unknown characters.    *)
(***************************************************************************)
EXTENDS Naturals

COMMENTS == {"comment"}
BLANKS == {"ws", "nl"}
TRIVIA == COMMENTS \cup BLANKS

KEYWORDS ==
  {"base", "break", "case", "catch", "class", "clone", "const", "constructor",
   "continue", "default", "delete", "do", "else", "enum", "extends", "null", "foreach",
   "for", "function", "if", "in", "instanceof", "local", "rawcall", "resume", "return",
   "static", "switch", "this", "throw", "try", "typeof", "while", "yield", "file"}

ALWAYS_RECOVER == {"eof", "{", "}"}
END_OF_BLOCK == {"eof", "}"}
END_OF_STATEMENT == {"eof", "}", ";"}
END_OF_CASE_CLAUSE == {"eof", "}", "case", "default"}
END_OF_METHOD == {"static", "}", "eof"}

NAME == {"id", "constructor"}
NAME_QUALIFIER == {".", "::"}
SEPARATORS == {",", ";"}

ASSIGNMENT_OPERATORS == {"=", "+=", "<-"}
BINARY_OPERATORS ==
  {"||", "&&", "|", "^", "&", "==", "<", "<=", "instanceof", "in", "<<", "+", "-", "*"}
INIT_OPERATORS == {"=", ":", "<-", "+=", "==", "<="}

EXPRESSIONS ==
  {"-", "!", "@", "++", "::", "clone", "delete", "typeof", "resume", "this", "base",
   "file", "int", "lit", "null", "string", "{", "(", "class", "rawcall", "id",
   "constructor", "function", "["}
MEMBER_FIRST == {"id", "constructor", "function", "[", "static"}
NON_MEMBER_FIRST_EXPRESSIONS == EXPRESSIONS \ MEMBER_FIRST
COMMON_EXPRESSION_STATEMENTS ==
  {"id", "constructor", "::", "++", "resume", "delete", "this", "base", "rawcall",
   "function", "class"}

NON_EXPRESSION_STATEMENT ==
  {"if", "while", "do", "for", "foreach", "switch", "local", "const", "return", "yield",
   "continue", "break", "enum", "try", "throw"}
STATEMENT == NON_EXPRESSION_STATEMENT \cup {"{", "function", "class"}
STATEMENT_WITH_SEMICOLON == STATEMENT \cup {";"}
STATEMENT_OR_EXPRESSION == EXPRESSIONS \cup STATEMENT_WITH_SEMICOLON
STATEMENT_OR(kinds) == NON_EXPRESSION_STATEMENT \cup kinds

MEMBER_RECOVERY == NON_MEMBER_FIRST_EXPRESSIONS \cup INIT_OPERATORS
FOREACH_RECOVERY == STATEMENT_OR_EXPRESSION \cup SEPARATORS \cup {")", "in"}
VARIABLE_RECOVERY ==
  COMMON_EXPRESSION_STATEMENTS \cup STATEMENT_WITH_SEMICOLON \cup INIT_OPERATORS
PARAMETER_RECOVERY == VARIABLE_RECOVERY \cup {")", "..."}
CATCH_RECOVERY == VARIABLE_RECOVERY \cup {")"}
FUNCTION_NAME_RECOVERY == PARAMETER_RECOVERY \cup {"(", "[", "]", "."}
SWITCH_RECOVERY == STATEMENT_OR_EXPRESSION \cup END_OF_CASE_CLAUSE
CALL_ARGUMENTS_STOP == STATEMENT_OR({"eof", ")", "}"})

LITERALS == {"null", "string", "int", "hex", "lit"}

EVERYTHING ==
  TRIVIA \cup KEYWORDS \cup LITERALS \cup NAME \cup NAME_QUALIFIER \cup SEPARATORS
    \cup BINARY_OPERATORS \cup INIT_OPERATORS \cup EXPRESSIONS \cup ALWAYS_RECOVER
    \cup {"]", ")", "...", "?", "</", "/>"}

(* BinaryOperatorPrecedence: 0 is Lowest, and what is no binary operator.  *)
Precedence(token) ==
  CASE token = "||" -> 1
    [] token = "&&" -> 2
    [] token = "|" -> 3
    [] token = "^" -> 4
    [] token = "&" -> 5
    [] token = "==" -> 6
    [] token \in {"<", "<=", "instanceof", "in"} -> 7
    [] token = "<<" -> 8
    [] token \in {"+", "-"} -> 9
    [] token = "*" -> 10
    [] OTHER -> 0
=============================================================================
