------------------------------ MODULE MCParser ------------------------------
EXTENDS Spelling

UpTo(k, S) == UNION {[1..n -> S] : n \in 0..k}
After(prefix, texts) == {prefix \o t : t \in texts}

(* Expressions.                                                            *)
Calls == UpTo(4, {"id", "-", "=", "(", ")", "++", ","})
Questions ==
  UpTo(4, {"id", "?", ":", "=", ";"}) \cup After(<<"id", "?", "id">>, UpTo(4, {"id", "?", ":", "="}))
Arrays == UpTo(4, {"id", "[", "]", ",", "-"})
Operators ==
  LET every == {",", "=", "||", "&&", "|", "^", "&", "==", "<", "<<", "+", "*"}
      some == {",", "=", "==", "<", "+"}
  IN {<<"id", o[1], "id", o[2], "id">> : o \in every \X every}
       \cup {<<"id", o[1], "id", o[2], "id", o[3], "id">> : o \in some \X some \X some}

(* Comments.                                                               *)
Comments == UpTo(5, {"id", "nl", "comment", ";"})
Blocks ==
  UpTo(4, {"id", "nl", "comment", "{", "}"})
    \cup After(<<"{", "comment">>, UpTo(4, {"id", "nl", "comment", "}"}))

(* Statements.                                                             *)
Ifs == After(<<"if", "(">>, UpTo(4, {"id", ")", "else", ";", "{", "}"}))
Fors == After(<<"for", "(">>, UpTo(4, {"id", ";", ")", "local", "="}))
Foreachs == After(<<"foreach", "(">>, UpTo(5, {"id", ",", "in", ")"}))
Whiles == UpTo(4, {"do", "while", "id", "(", ")"})
Switches == After(<<"switch", "(", "id", ")", "{">>,
                  UpTo(4, {"case", "default", ":", "id", "}", ";"}))
Locals == After(<<"local">>, UpTo(4, {"id", "=", ",", "function", "int", "nl"}))
FunctionTexts == After(<<"function">>, UpTo(4, {"id", "::", "(", ")", "{", "}", "nl"}))
ParameterTexts == After(<<"function", "id", "(">>, UpTo(4, {"id", "...", ",", "=", ")"}))
Tables == After(<<"id", "=", "{">>, UpTo(4, {"id", "=", ":", "string", ",", "}", "["}))
Classes == After(<<"class", "id", "{">>,
                 UpTo(4, {"}", "id", "static", "(", ")", "</"}) \cup
                 UpTo(3, {"}", "id", "constructor", "static", "(", ")", "</", "/>"}))
Others ==
  UpTo(2, {"enum", "const", "try", "catch", "throw", "return", "id", "{", "}", "class", "@",
           "function", "delete", "rawcall", "::", "."})
    \cup UpTo(3, {"try", "catch", "id", "{", "}", "@", "throw", "enum"})
    \cup UpTo(3, {"const", "id", "class", "function", "delete", "rawcall", "::", "."})

MCInputs ==
  <<Calls, Questions, Arrays, Operators, Comments, Blocks, Ifs, Fors, Foreachs, Whiles,
    Switches, Locals, FunctionTexts, ParameterTexts, Tables, Classes, Others>>

(* Texts of characters: literals, names, numbers, operators and comments.  *)
Strings ==
  After(<<"dq">>, UpTo(3, {"dq", "bs", "nl", "cr", "a", "x", "wide"}))
    \cup After(<<"dq">>, UpTo(4, {"dq", "bs", "x"}))
    \cup After(<<"bq">>, UpTo(3, {"bq", "dq", "bs", "n", "euro"}))
    \cup After(<<"@", "dq">>, UpTo(5, {"dq", "nl"}))
Units ==
  After(<<"sq">>, UpTo(3, {"sq", "bs", "a", "wide", "nl", "x"}))
    \cup After(<<"sq", "bs", "u">>, UpTo(4, {"0", "7", "8", "sq"}))
    \cup {<<"sq", "bs", "u", "d", "8", "0", "0", "sq">>,
          <<"sq", "bs", "U", "0", "0", "8", "0", "0", "0", "0", "0", "sq">>,
          <<"sq", "bs", "U", "0", "0", "0", "0", "0", "0", "7", "f", "sq">>}
NumberTexts == UpTo(4, {"0", "7", "8", ".", "e", "-", "x"})
NameTexts == UpTo(3, {"if", "a", "wide", "$", "_", "0", " ", "nul"})
OperatorTexts ==
  UpTo(2, {"=", "<", ">", "!", "?", ".", "&", "|", ":", "*", "-", "+", "/", "^", "~", "%", "@"})
    \cup UpTo(3, {"=", "<", ">", "!", "?", ".", "&", "/"})
CommentTexts == UpTo(5, {"/", "*", "nl", "g"}) \cup After(<<"#">>, UpTo(2, {"/", "nl", "euro"}))

(* Doc comments: descriptions, tags, types and types of functions.         *)
Documents(texts) == {<<"/", "*", "*">> \o t \o <<"*", "/">> : t \in texts}
Descriptions ==
  Documents(UpTo(3, {"bq", "@", "nl", "*", "g", "bs", "hide", " "}))
    \cup Documents(UpTo(5, {"bq", "@", "nl"}))
    \cup After(<<"/", "*", "*">>, UpTo(2, {"@", "nl", "type", "wide"}))
Tags ==
  {<<"/", "*", "*", "@", tag>> \o t \o <<"nl", " ", "*", "/", "g">> :
     tag \in {"param", "type", "return", "hide", "in"}, t \in UpTo(3, {" ", "{", "}", "g"})}
TypeTexts ==
  Documents({<<"@", "type", "{">> \o t \o <<"}">> :
               t \in UpTo(3, {"[", "]", "|", "g", "wide", " "})})
FunctionTypes ==
  Documents({<<"@", "return", "{", "@", "(">> \o t \o <<"}">> :
               t \in UpTo(4, {"g", ":", ",", ")", "-", ">"})})
    \cup Documents({<<"@", "type", "{", "@", "(", ".", ".", ".">> \o t \o <<"}">> :
                     t \in UpTo(3, {"g", "?", ":", ")"})})

MCTexts ==
  <<Strings, Units, NumberTexts, NameTexts, OperatorTexts, CommentTexts, Descriptions, Tags,
    TypeTexts, FunctionTypes>>
NoTexts == <<>>

(* Arrays that are not closed.                                             *)
MCOpenArrays == <<UpTo(5, {"id", "=", "[", "}"})>>
=============================================================================
