----------------------------- MODULE Execution -----------------------------
(***************************************************************************)
(* What the name of Names stands for when the scripts run, statement by    *)
(* statement and with every include where it is, next to the answers of    *)
(* the server, which resolves each script on its own.                      *)
(***************************************************************************)
EXTENDS Names

-----------------------------------------------------------------------------
(* Running a script *)

(* There is one root, each script has a T of its own, and "this" is the    *)
(* table that the script is included into.                                 *)
Instance(g, this, t) ==
  CASE t = "this" -> this [] t = "T" -> <<g, "T">> [] OTHER -> <<None, t>>

(* What was written to which table, the delegates that were set and the    *)
(* constants, each in the order in which that happened, and if a script    *)
(* could not make a slot for the constant of one that it does not include. *)
World == [writes |-> <<>>, links |-> <<>>, consts |-> <<>>, blocked |-> FALSE]
Write(w, table, symbol) == [w EXCEPT !.writes = Append(@, [to |-> table, symbol |-> symbol])]
Link(w, g, table, to) == [w EXCEPT !.links = Append(@, [by |-> g, of |-> table, to |-> to])]

LocalsBefore(f, at) == {n \in 1..at - 1 : text[f][n] = Declare("local")}

Block(w, g) ==
  [w EXCEPT !.blocked = @ \/ \A n \in DOMAIN w.consts : w.consts[n].file \notin Reached({g})]

RECURSIVE Run(_, _, _, _)
Executed(w, g, this, i) ==
  LET s == text[g][i] IN
  CASE s.op = "slot" ->
         IF s.in = "this" /\ LocalsBefore(g, i) # {} THEN w
         ELSE IF s.in = "this" /\ w.consts # <<>> THEN Block(w, g)
         ELSE Write(w, Instance(g, this, s.in), Symbol(g, i))
    [] s = Declare("const") -> [w EXCEPT !.consts = Append(@, Symbol(g, i))]
    [] s.op = "include" -> Run(w, s.of, Instance(g, this, s.in), Len(text[s.of]))
    [] s.op = "delegate" -> Link(w, g, Instance(g, this, s.in), Instance(g, this, s.of))
    [] OTHER -> w
Run(w, g, this, n) ==
  FoldLeft(LAMBDA v, i : Executed(v, g, this, i), w, [i \in 1..n |-> i])

(* The slot x of a table, or of the first of its delegates that has one.   *)
Slots(w, table) == {n \in DOMAIN w.writes : w.writes[n].to = table}
Links(w, table) == {n \in DOMAIN w.links : w.links[n].of = table}
RECURSIVE Fetch(_, _, _)
Fetch(w, table, fuel) ==
  CASE Slots(w, table) # {} -> w.writes[Latest(Slots(w, table))].symbol
    [] Slots(w, table) = {} /\ Links(w, table) # {} /\ fuel > 0 ->
         Fetch(w, w.links[Latest(Links(w, table))].to, fuel - 1)
    [] OTHER -> None

Local(a) ==
  IF LocalsBefore(a.file, a.at) = {} THEN None
  ELSE Symbol(a.file, Latest(LocalsBefore(a.file, a.at)))
Const(w, a) ==
  LET seen == {n \in DOMAIN w.consts : w.consts[n].file # a.file \/ w.consts[n].at < a.at}
  IN IF seen = {} THEN None ELSE w.consts[Latest(seen)]

(* What x is for a look-up.                                                *)
Fetched(w, a) ==
  LET this == <<a.file, "this">>
      In(t) == Fetch(w, Instance(a.file, this, t), Cardinality(Scripts)) IN
  IF a.in = "this" THEN First(<<Local(a), Const(w, a), In("this"), In("root")>>) ELSE In(a.in)

(* The libraries run first, in root; a function runs when all has run.     *)
Boot(f) ==
  FoldLeft(LAMBDA w, g : Run(w, g, <<None, "root">>, Len(text[g])), World, LibsOf(f))
At(a) ==
  Run(Boot(a.file), a.file, <<a.file, "this">>, IF a.late THEN Len(text[a.file]) ELSE a.at - 1)

-----------------------------------------------------------------------------
(* Why an answer may be another one *)

(* All that runs is known, and it comes to an end.                         *)
Runs(a) ==
  /\ Reached(Needs(a.file)) \subseteq known
  /\ \A f \in Reached({a.file}) : f \notin Reached(Needs(f))

(* A script that is included includes others: these are looked for under   *)
(* the target of the first one.                                            *)
Deeper(a) == \E f \in Including(a.file) : Including(f) # {}

(* A delegate that scripts are included into: only its own members count.  *)
Behind(a) ==
  \E t \in IF a.in = "this" THEN {"this", "root"} ELSE {a.in} :
    \E u \in Chain(a.file, t) \ {t} : imports[a.file][u] # <<>>

(* One include after the other, each of another script and into one table. *)
Orderly(f) ==
  \A m, n \in IncludesOf(f) :
    text[f][m].in = text[f][n].in /\ (m # n => text[f][m].of # text[f][n].of)

(* An included script declares what the script itself, or a script that    *)
(* is included twice or into another table, declared before.  The own      *)
(* symbols and those of the root come first in the answers.                *)
Later(a, old, new) ==
  /\ new.file # a.file /\ old.file \notin ToSet(Libs)
  /\ old.file \in {a.file, new.file} \/ ~ Orderly(a.file)
Overwritten(a, w) ==
  \/ \E m, n \in DOMAIN w.writes :
       /\ m < n /\ w.writes[m].to = w.writes[n].to
       /\ Later(a, w.writes[m].symbol, w.writes[n].symbol)
  \/ \E m, n \in DOMAIN w.consts : m < n /\ Later(a, w.consts[m], w.consts[n])
  \/ \E m, n \in DOMAIN w.links :
       w.links[m].of = w.links[n].of /\ w.links[m].by # w.links[n].by

Right(a, w) == a.symbol = Fetched(w, a) \/ Deeper(a) \/ Behind(a) \/ Overwritten(a, w) \/ w.blocked

(* What a slot or a function finds under its name (resolve_name,           *)
(* members_of_table over import_members) is what is there when the scripts *)
(* run, but for the causes above, wherever the includes, delegates, locals *)
(* and constants are and in whichever order imports meet in one table.     *)
AnswerHasCause ==
  answers # <<>> /\ Runs(Last(answers)) => Right(Last(answers), At(Last(answers)))
=============================================================================
