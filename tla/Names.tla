------------------------------- MODULE Names -------------------------------
(***************************************************************************)
(* What a name stands for (crates/resolver/src/resolver.rs and lib.rs):    *)
(* the members of tables, their delegates, the scripts that are included   *)
(* into them, and the queries for the symbols of those scripts, which      *)
(* begin in the middle of a statement that looks a name up.                *)
(*                                                                         *)
(* There is one name, x; a symbol is the script and the number of the      *)
(* statement that declares it.  A script has its table "this" (the source  *)
(* table), "root" and "const", and one more, "T", that a local variable    *)
(* holds from the start.                                                   *)
(***************************************************************************)
EXTENDS Naturals, FiniteSets, SequencesExt

CONSTANTS
  Scripts,       \* the files
  Asked,         \* the one whose symbols are asked for
  Libs,          \* a sequence: squirrel_lib, vscript_lib, folded_lib
  Families,      \* kinds of programs: for each script the statements that it
                 \* may be made of ("of") and how many ("most"), and in which
                 \* order the tables are in a map of imports ("order")
  None

Tables == {"this", "root", "const", "T"}
Places == Tables \cup {"local"}

(* Statements: "x <- 1", "::x <- 1", "T.x <- 1", "const x = 1",            *)
(* "local x = 1", a function that reads x, IncludeScript and setdelegate.  *)
Slot(place) == [op |-> "slot", in |-> place]
Declare(place) == [op |-> "declare", in |-> place]
Function == [op |-> "function"]
Include(script, table) == [op |-> "include", of |-> script, in |-> table]
SetDelegate(table, to) == [op |-> "delegate", of |-> to, in |-> table]

Statements ==
  {Slot(t) : t \in Tables} \cup {Declare(place) : place \in {"const", "local"}} \cup {Function}
    \cup {Include(g, t) : g \in Scripts, t \in Tables}
    \cup {SetDelegate(t, u) : t, u \in Tables}

ASSUME NamesAssumption ==
  /\ IsFiniteSet(Scripts) /\ Asked \in Scripts /\ Libs \in Seq(Scripts)
  /\ None \notin Scripts /\ None \notin Tables /\ None \notin Statements
  /\ \A family \in Families :
       /\ family.of \in [Scripts -> SUBSET Statements] /\ family.most \in [Scripts -> Nat]
       /\ family.order \in [1..4 -> Tables]

VARIABLES
  text,          \* the statements of each script, as far as it was read
  stack,         \* the scripts that are being resolved, each with the statement
                 \* that waits for another script and the functions to walk
  known,         \* the scripts whose symbols are memoised
  members,       \* what each place of a script declares: numbers of statements
  delegate,      \* the delegate of each table
  imports,       \* the scripts included into each table
  family,        \* the kind of the program
  answers,       \* what slots and functions found: history
  failed         \* "none", "cycle" of queries, or "overflow" of the stack

vars == <<text, stack, known, members, delegate, imports, family, answers, failed>>

(* The libraries that a script includes into its root, which are those     *)
(* before it when it is one itself.                                        *)
LibsOf(f) ==
  LET own == {n \in DOMAIN Libs : Libs[n] = f}
  IN IF own = {} THEN Libs ELSE SubSeq(Libs, 1, (CHOOSE n \in own : TRUE) - 1)

Earliest(set) == CHOOSE n \in set : \A m \in set : n <= m
Latest(set) == CHOOSE n \in set : \A m \in set : m <= n

(* The first of the symbols that is anything.                              *)
First(symbols) ==
  LET some == {n \in DOMAIN symbols : symbols[n] # None}
  IN IF some = {} THEN None ELSE symbols[Earliest(some)]

-----------------------------------------------------------------------------
(* Members *)

Symbol(f, at) == [file |-> f, at |-> at]

(* A table and the delegates behind it: those of delegates are followed    *)
(* without an end, and there are four tables.                              *)
Delegate(f, t) == IF t = None THEN None ELSE delegate[f][t]
Line(f, t) ==
  LET u == Delegate(f, t)
      v == Delegate(f, u)
  IN <<t, u, v, Delegate(f, v)>>
Chain(f, t) == {Line(f, t)[n] : n \in 1..4} \ {None}
Endless(f, t) == Delegate(f, Line(f, t)[4]) # None

(* additional_table_members, where a table that declares a name at all     *)
(* hides what its delegate has under it.                                   *)
Hiding(f, t) == t # None /\ (members[f][t] # <<>> \/ delegate[f][t] = None)
AdditionalTableMembers(f, t) ==
  LET line == Line(f, t)
  IN members[f][line[Earliest({n \in 1..4 : Hiding(f, line[n])})]]

(* Fault: a function does not see what is declared after it.               *)
FilterSymbolsEarly(f, ids, at, late) ==
  LET seen == {n \in DOMAIN ids : ids[n] < at}
  IN IF seen = {} THEN None ELSE Symbol(f, ids[Latest(seen)])

(* filter_symbols: the last declaration before a place, or for a function, *)
(* that runs later, the last one anywhere.                                 *)
FilterSymbols(f, ids, at, late) ==
  LET seen == {n \in DOMAIN ids : late \/ ids[n] < at}
  IN IF seen = {} THEN None ELSE Symbol(f, ids[Latest(seen)])

(* top_source_members, top_source_and_root_members and the others, of a    *)
(* script that is gathered in some way.                                    *)
PLACES ==
  [target |-> {"this"}, constAsSource |-> {"this", "const"}, const |-> {"const"},
   rootAsSource |-> {"this", "root"}, root |-> {"root"}]
FlatMember(f, ids) == IF ids = <<>> THEN None ELSE Symbol(f, Last(ids))
TopMember(g) ==
  LET Of(t) == IF t \in PLACES[g.how] THEN FlatMember(g.file, AdditionalTableMembers(g.file, t)) ELSE None
  IN First(<<Of("root"), Of("const"), Of("this")>>)
TopEndless(g) == \E t \in PLACES[g.how] : Endless(g.file, t)

-----------------------------------------------------------------------------
(* Imports *)

Hows == DOMAIN PLACES
As(how, list) == [n \in DOMAIN list |-> [file |-> list[n], how |-> how]]

(* All that is included into the tables of a script, in the order of the   *)
(* map.                                                                    *)
ImportsOf(f) ==
  LET Of(n) == imports[f][family.order[n]] IN Of(1) \o Of(2) \o Of(3) \o Of(4)

(* What was gathered so far: "got", each script with the way it was; the   *)
(* scripts already_included; the first one whose symbols are missing; and  *)
(* what is still to be looked at.                                          *)
Gatherings ==
  [got : Seq([file : Scripts, how : Hows]), seen : SUBSET Scripts,
   missing : Scripts \cup {None}, todo : Seq([file : Scripts, how : Hows])]
Gathered(a) == a.missing # None \/ a.todo = <<>>

(* import_members_inner.  A table of another script has no imports here:   *)
(* those of a target are looked up under the target of the first script.   *)
Nested(g) == IF g.how = "target" THEN <<>> ELSE As(g.how, ImportsOf(g.file))
ImportNext(a) ==
  LET g == Head(a.todo) IN
  CASE g.file \in a.seen -> [a EXCEPT !.todo = Tail(@)]
    [] g.file \notin a.seen /\ g.file \notin known -> [a EXCEPT !.missing = g.file]
    [] OTHER -> [a EXCEPT !.seen = @ \cup {g.file}, !.got = Append(@, g),
                          !.todo = Nested(g) \o Tail(@)]
ImportMembersInner[a \in Gatherings] ==
  IF Gathered(a) THEN a ELSE ImportMembersInner[ImportNext(a)]

(* import_members: first what is included into the table, and for the      *)
(* tables that all scripts share then what is included anywhere.           *)
ImportsFor(f, t) ==
  CASE t = "const" -> As("constAsSource", imports[f]["const"]) \o As("const", ImportsOf(f))
    [] t = "root" -> As("rootAsSource", imports[f]["root"]) \o As("root", ImportsOf(f))
    [] OTHER -> As("target", imports[f][t])
Gathering(f, t) == [got |-> <<>>, seen |-> {f}, missing |-> None, todo |-> ImportsFor(f, t)]

(* Fault: the script itself is not among those already included.           *)
ImportMembersAgain(f, t) == ImportMembersInner[[Gathering(f, t) EXCEPT !.seen = {}]]

ImportMembers(f, t) == ImportMembersInner[Gathering(f, t)]

-----------------------------------------------------------------------------
(* Look-ups *)

(* What a look-up finds and where, or what stops it: a script whose        *)
(* symbols are missing, or a stack that overflows.                         *)
Found(symbol, place) == [symbol |-> symbol, in |-> place, missing |-> None, overflow |-> FALSE]
Nothing == Found(None, None)
Waiting(script) == [Nothing EXCEPT !.missing = script]
Overflow == [symbol |-> None, in |-> None, missing |-> None, overflow |-> TRUE]
Stopped(r) == r.missing # None \/ r.overflow

(* Members of imports: whichever was gathered last has the name.           *)
LastFound(got, t) ==
  LET with == {n \in DOMAIN got : TopMember(got[n]) # None} IN
  IF with = {} THEN Nothing
  ELSE Found(TopMember(got[Latest(with)]), t)

(* members_of_table: its own members come before those of its imports.     *)
Joined(own, a, t) ==
  LET endless == \E g \in ToSet(a.got) : TopEndless(g)
      missing == ~ endless /\ a.missing # None
  IN CASE endless -> Overflow
       [] missing -> Waiting(a.missing)
       [] ~ endless /\ ~ missing /\ own # None -> Found(own, t)
       [] OTHER -> LastFound(a.got, t)
MembersOfTable(f, t, at, late) ==
  IF Endless(f, t) THEN Overflow
  ELSE Joined(FilterSymbols(f, AdditionalTableMembers(f, t), at, late /\ t # "const"),
              ImportMembers(f, t), t)

(* resolve_name, for x and for a name that only the libraries have; the    *)
(* tables are looked through one after the other, as far as it takes.      *)
OrElse(r, named, other) == IF Stopped(r) \/ (named /\ r.symbol # None) THEN r ELSE other
FirstFound(f, at, late, named) ==
  LET In(t) == MembersOfTable(f, t, at, late)
      r == OrElse(In("const"), named, OrElse(In("this"), named, In("root")))
  IN IF named THEN r ELSE [r EXCEPT !.symbol = None]

ResolveOr(local, f, at, late) ==
  IF local # None THEN Found(local, "local") ELSE FirstFound(f, at, late, TRUE)
ResolveName(f, at, late) ==
  ResolveOr(FilterSymbols(f, members[f]["local"], at, FALSE), f, at, late)
ResolveLibrary(f, at) == FirstFound(f, at, FALSE, FALSE)

(* setdelegate: the member of the one table, then the other one, which     *)
(* takes a call if it is root or const.                                    *)
Then(r, f, s, at) ==
  IF Stopped(r) \/ {s.of, s.in} \cap {"root", "const"} = {} THEN [r EXCEPT !.symbol = None]
  ELSE ResolveLibrary(f, at)

(* The look-ups that statement number "at" makes before it does anything.  *)
Looked(f, s, at) ==
  CASE s.op = "slot" /\ s.in = "this" -> ResolveName(f, at, FALSE)
    [] s.op = "slot" /\ s.in # "this" -> MembersOfTable(f, s.in, at, FALSE)
    [] s.op = "include" -> ResolveLibrary(f, at)
    [] s.op = "delegate" -> Then(MembersOfTable(f, s.in, at, FALSE), f, s, at)
    [] OTHER -> Nothing

(* Fault: members come before constants.                                   *)
SymbolsAtSwapped(f, at, late) ==
  LET In(t) == MembersOfTable(f, t, at, late).symbol
  IN First(<<FilterSymbols(f, members[f]["local"], at, FALSE), In("this"), In("const"), In("root")>>)

(* symbols_at, for the handlers: what x is at a place, with all that is    *)
(* known of the script.                                                    *)
SymbolsAt(f, at, late) ==
  LET In(t) == MembersOfTable(f, t, at, late).symbol
  IN First(<<FilterSymbols(f, members[f]["local"], at, FALSE), In("const"), In("this"), In("root")>>)

-----------------------------------------------------------------------------
(* Resolving scripts *)

(* A script that is being resolved, at its end once it is "read".          *)
Frame(f) == [file |-> f, waits |-> None, read |-> FALSE, todo |-> {}]

Top == Last(stack)
Asking == {stack[n].file : n \in DOMAIN stack}

Init ==
  /\ text = [f \in Scripts |-> <<>>]
  /\ stack = <<Frame(Asked)>>
  /\ known = {}
  /\ members = [f \in Scripts |-> [p \in Places |-> <<>>]]
  /\ delegate = [f \in Scripts |-> [t \in Tables |-> None]]
  /\ imports = [f \in Scripts |-> [t \in Tables |-> IF t = "root" THEN LibsOf(f) ELSE <<>>]]
  /\ family \in Families
  /\ answers = <<>>
  /\ failed = "none"

(* A query for the symbols of a script begins, fails or is not needed.     *)
Stop(r, s) ==
  /\ Stopped(r)
  /\ CASE r.overflow -> failed' = "overflow" /\ UNCHANGED stack
       [] ~ r.overflow /\ r.missing \in Asking -> failed' = "cycle" /\ UNCHANGED stack
       [] OTHER ->
            /\ stack' = Append([stack EXCEPT ![Len(stack)].waits = s], Frame(r.missing))
            /\ UNCHANGED failed
  /\ UNCHANGED <<text, known, members, delegate, imports, family, answers>>

Answered(f, at, late, place, r) ==
  answers' = Append(answers, [file |-> f, at |-> at, late |-> late, in |-> place, symbol |-> r.symbol])

(* A slot is not made where the name is a local or a constant; otherwise   *)
(* it is a member of the table, or of "this" where none is named,          *)
(* wherever the name was found.                                            *)
AddMember(f, place, at) ==
  /\ members' = [members EXCEPT ![f][place] = Append(@, at)]
  /\ UNCHANGED <<delegate, imports>>
NewSlot(f, s, at, r) ==
  /\ Answered(f, at, FALSE, s.in, r)
  /\ IF s.in = "this" /\ r.in \in {"local", "const"} THEN UNCHANGED <<members, delegate, imports>>
     ELSE AddMember(f, s.in, at)

Perform(f, s, at, r) ==
  /\ ~ Stopped(r)
  /\ text' = [text EXCEPT ![f] = Append(@, s)]
  /\ stack' = [stack EXCEPT ![Len(stack)].waits = None]
  /\ UNCHANGED <<known, family, failed>>
  /\ CASE s.op = "slot" -> NewSlot(f, s, at, r)
       [] s.op = "declare" -> AddMember(f, s.in, at) /\ UNCHANGED answers
       [] s.op = "function" -> UNCHANGED <<members, delegate, imports, answers>>
       [] s.op = "include" ->
            /\ imports' = [imports EXCEPT ![f][s.in] = Append(@, s.of)]
            /\ UNCHANGED <<members, delegate, answers>>
       [] s.op = "delegate" ->
            /\ delegate' = [delegate EXCEPT ![f][s.in] = s.of]
            /\ UNCHANGED <<members, imports, answers>>

Try(f, s, at, r) == Stop(r, s) \/ Perform(f, s, at, r)

(* collect_stmt: the next statement, or the one that had to wait.          *)
Statement ==
  /\ failed = "none" /\ stack # <<>> /\ ~ Top.read
  /\ Len(text[Top.file]) < family.most[Top.file]
  /\ \E s \in IF Top.waits = None THEN family.of[Top.file] ELSE {Top.waits} :
       Try(Top.file, s, Len(text[Top.file]) + 1, Looked(Top.file, s, Len(text[Top.file]) + 1))

(* The end of the script: its functions are still to be walked.            *)
EndOfScript ==
  /\ failed = "none" /\ stack # <<>> /\ ~ Top.read /\ Top.waits = None
  /\ stack' = [stack EXCEPT ![Len(stack)].read = TRUE,
                            ![Len(stack)].todo = {n \in DOMAIN text[Top.file] :
                                                    text[Top.file][n].op = "function"}]
  /\ UNCHANGED <<text, known, members, delegate, imports, family, answers, failed>>

Walk(f, at, r) ==
  \/ Stop(r, None)
  \/ /\ ~ Stopped(r)
     /\ Answered(f, at, TRUE, "this", r)
     /\ stack' = [stack EXCEPT ![Len(stack)].todo = @ \ {at}]
     /\ UNCHANGED <<text, known, members, delegate, imports, family, failed>>
WalkFunction ==
  /\ failed = "none" /\ stack # <<>>
  /\ \E n \in Top.todo :
       (\A m \in Top.todo : n <= m) /\ Walk(Top.file, n, ResolveName(Top.file, n, TRUE))

(* The symbols of the script are known, and the query that waits goes on.  *)
Return ==
  /\ failed = "none" /\ stack # <<>> /\ Top.read /\ Top.todo = {}
  /\ known' = known \cup {Top.file}
  /\ stack' = Front(stack)
  /\ UNCHANGED <<text, members, delegate, imports, family, answers, failed>>

Next == Statement \/ EndOfScript \/ WalkFunction \/ Return

Spec == Init /\ [][Next]_vars

-----------------------------------------------------------------------------
(* What resolving promises *)

(* The scripts whose symbols a script asks for, and these ask for in turn: *)
(* those it includes and the libraries.                                    *)
IncludesOf(f) == {n \in DOMAIN text[f] : text[f][n].op = "include"}
Including(f) == {text[f][n].of : n \in IncludesOf(f)}
Needs(f) == Including(f) \cup ToSet(LibsOf(f))
Reached(scripts) ==
  {g \in Scripts : \A S \in SUBSET Scripts :
     scripts \subseteq S /\ (\A f \in S : Needs(f) \subseteq S) => g \in S}

(* A statement at the place or after it changes what is before it: an      *)
(* include or a delegate, or a declaration that hides the delegate's.      *)
Unsettled(a) ==
  \E n \in a.at..Len(text[a.file]) :
    \/ text[a.file][n].op \in {"include", "delegate"}
    \/ /\ text[a.file][n].op \in {"slot", "declare"}
       /\ \E t \in Tables : n \in ToSet(members[a.file][t]) /\ delegate[a.file][t] # None

(* Once a script is resolved, symbols_at gives its places, read with all   *)
(* that is known by then, what resolve_name gave them in the middle of     *)
(* resolving: hover and completion agree with the diagnostics.             *)
HandlersAgree ==
  \A n \in DOMAIN answers :
    LET asked == answers[n] IN
    asked.file \in known /\ asked.in = "this" =>
      \/ SymbolsAt(asked.file, asked.at, asked.late) = asked.symbol
      \/ ~ asked.late /\ Unsettled(asked)

(* Two scripts that need each other, or tables of one script that are, as  *)
(* the last setdelegate says, the delegates of one another.                *)
Mutual ==
  \E f, g \in Asking : f # g /\ g \in Reached(Needs(f)) /\ f \in Reached(Needs(g))
LastDelegate(f, t) ==
  LET set == {n \in DOMAIN text[f] : text[f][n].op = "delegate" /\ text[f][n].in = t}
  IN IF set = {} THEN None ELSE text[f][Latest(set)].of
Circle(f) ==
  \E tables \in SUBSET Tables \ {{}} : \A t \in tables : LastDelegate(f, t) \in tables

(* Resolving panics only for scripts that need each other, as              *)
(* source_symbol cannot recover from a cycle of queries, and overflows the *)
(* stack only for delegates that lead in a circle (additional_table_members *)
(* does not look).  A script may include itself, and be included twice.    *)
CrashHasCause ==
  /\ failed = "cycle" => Mutual
  /\ failed = "overflow" => \E f \in Reached(Asking) : Circle(f)
=============================================================================
