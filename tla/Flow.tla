-------------------------------- MODULE Flow --------------------------------
(***************************************************************************)
(* Flow types: what the resolver takes the type of a symbol to be at each  *)
(* place of a body (crates/resolver/src/resolver.rs, 3.4.0 and later).     *)
(*                                                                         *)
(* A symbol has one type, which assignments widen.  Besides, each scope    *)
(* may hold a flow type for the symbol: assignments set it, and conditions *)
(* narrow it in the scope that they guard.  The type at a place is that of *)
(* the innermost scope that has one.                                       *)
(*                                                                         *)
(* One symbol is followed through a body that is made up as the walk goes  *)
(* on.  Next to the walk runs the program, which enters a loop at most     *)
(* once: value is what the symbol holds, and run says if the run reaches   *)
(* this place or where it is instead.  A type is right where it stands for *)
(* the value.                                                              *)
(***************************************************************************)
EXTENDS Types, SequencesExt

CONSTANTS
  Values,        \* what the symbol may hold: primitives with all there is to know
  Families,      \* kinds of bodies: the types that a declaration documents
                 \* ("declared"), those of the expressions that are assigned,
                 \* by the declaration too, the conditions, the statements,
                 \* and as a bound the number of statements ("most")
  MaxDepth       \* bound: statements around a statement

(* A test of the symbol, with a ! before it or not; a condition is a test  *)
(* or two of them with && or ||, with a ! before the brackets or not, or   *)
(* an assignment to the symbol of an expression of type "sets".            *)
Test(op, arg, neg) == [op |-> op, arg |-> arg, neg |-> neg]
Condition(op, neg, parts) == [op |-> op, neg |-> neg, parts |-> parts, sets |-> None]
Assignment(t) == [op |-> "test", neg |-> FALSE, parts |-> <<Test("truthy", None, FALSE)>>, sets |-> t]

Tests ==
  [op : {"truthy", "null"}, arg : {None}, neg : BOOLEAN]
    \cup [op : {"typeof"}, arg : Kinds \ {"any"}, neg : BOOLEAN]
    \cup [op : {"instanceof"}, arg : Classes, neg : BOOLEAN]

IsCondition(c) ==
  /\ c.op \in {"test", "and", "or"} /\ c.neg \in BOOLEAN
  /\ c.parts \in Seq(Tests) /\ Len(c.parts) = IF c.op = "test" THEN 1 ELSE 2
  /\ c.sets = None \/ IsType(c.sets)

ASSUME FlowAssumption ==
  /\ \A family \in Families :
       /\ family.most \in Nat
       /\ \A t \in family.declared \cup family.assigned : IsType(t)
       /\ \A c \in family.conditions : IsCondition(c)
  /\ \A v \in Values :
       v \in Primitives /\ v.kind # "any" /\ (v.of = None => DataOf[v.kind] = {})
  /\ MaxDepth \in Nat /\ ~IsType(None)

VARIABLES
  family,        \* the kind of the body
  explicit,      \* is_type_explicit: the type of the symbol is documented
  typ,           \* Symbol::typ
  scopes,        \* the scopes around the place, the innermost one last
  dead,          \* dead_code
  can,           \* can_break and can_continue
  value,         \* what the symbol holds in the run
  run,           \* the run: "here", "past" a branch it did not come into,
                 \* or on its way to the end of what "break", "continue" and
                 \* "throw" leave, or "out" of what is followed
  documented,    \* the type that the declaration documents, any if none
  doubts,        \* history: why typ may be wrong where no scope has a flow type
  steps          \* statements so far

vars == <<family, explicit, typ, scopes, dead, can, value, run, documented, doubts, steps>>

live == run = "here"

(* Why a flow type may be wrong:                                           *)
(* "left"   an inner scope assigned the symbol and was left,               *)
(* "loop"   a condition of a loop that has ended narrowed it,              *)
(* "round"  the step of a for loop assigned it, which runs after the body, *)
(* "skipped" the condition of a do loop assigned it, which was left before *)
(*          its condition,                                                 *)
(* "falsy"  the symbol was false and its type kept false literals only,    *)
(* "pinned" a documented type was refined by an earlier value,             *)
(* "mixed"  it was refined by one member of what is any value besides,     *)
(* "unsaid" the symbol holds what its documented type does not stand for:  *)
(*          null without an initialiser, or what was assigned, of which    *)
(*          null, any and what one member of the type takes are accepted   *)
(*          without a report.                                              *)
Causes == {"left", "loop", "round", "skipped", "falsy", "pinned", "mixed", "unsaid"}

Loops == {"while", "do", "for", "foreach"}

(* flow is None where a scope has no flow type; saved is what "can" was    *)
(* before the statement the scope belongs to, cond its condition and step  *)
(* what the step of a for loop assigns.  History: why the flow type may be *)
(* wrong, if the run came to the statement and came into the scope or one  *)
(* of the same statement before, if the symbol was assigned in it.         *)
Frame(kind, cond, f, entered, held) ==
  [kind |-> kind, cond |-> cond, step |-> None, flow |-> f.flow, why |-> f.why,
   entered |-> entered, held |-> held, wrote |-> FALSE, saved |-> can]

-----------------------------------------------------------------------------
(* Conditions *)

Holds(t, v) ==
  t.neg # CASE t.op = "truthy" -> ~IsFalsy(v)
            [] t.op = "null" -> v.kind = "null"
            [] t.op = "typeof" -> v.kind = t.arg
            [] t.op = "instanceof" -> v.kind = "instance" /\ t.arg \in Supers[v.of]

Satisfied(c, v) ==
  c.neg # CASE c.op = "test" -> Holds(c.parts[1], v)
            [] c.op = "and" -> Holds(c.parts[1], v) /\ Holds(c.parts[2], v)
            [] c.op = "or" -> Holds(c.parts[1], v) \/ Holds(c.parts[2], v)

(* Fault: both branches of a condition narrow.                             *)
NarrowingAlways(c, branch) == TRUE

(* The branch tells the outcome of each test: && that is true, || that is  *)
(* false.                                                                  *)
Narrowing(c, branch) ==
  c.op = "test" \/ (c.op = "and") = (c.neg # branch)

(* A flow type and why it may be wrong; None: the scope gets none.         *)
Known(t, why) == [flow |-> t, why |-> why]
Unknown == Known(None, {})

(* A union of which RemoveTruthy takes out what may be false.              *)
Undecided(t) ==
  t.tag = "union" /\ \E i \in DOMAIN t.members :
    t.members[i].of = None /\ t.members[i].kind \in {"any", "integer", "float", "bool"}

(* apply_truthy_narrowing, apply_equality_narrowing,                       *)
(* apply_instanceof_narrowing: a test whose outcome is known.              *)
Narrowed(t, outcome, at, old) ==
  LET so == t.neg # outcome IN
  CASE t.op = "truthy" ->
         IF so THEN Known(RemoveFalsy(at.flow), at.why)
         ELSE Known(RemoveTruthy(at.flow),
                    at.why \cup (IF Undecided(at.flow) THEN {"falsy"} ELSE {}))
    [] t.op = "null" ->
         IF so THEN Known(NullType, {}) ELSE Known(RemoveNull(at.flow), at.why)
    [] t.op = "typeof" ->
         IF so THEN Known(One(Prim(t.arg, None)), {})
         ELSE Known(RemoveTypeof(at.flow, t.arg), at.why)
    [] t.op = "instanceof" ->
         IF so THEN Known(One(Prim("instance", t.arg)), {}) ELSE old

(* What a condition leaves in the scope it narrows in: at is the type      *)
(* around it, here what the scope has.  Each test starts from what the one *)
(* before it left.                                                         *)
Guarded(c, branch, at, here) ==
  LET after(t, old) == Narrowed(t, c.neg # branch, IF old.flow = None THEN at ELSE old, old)
      first == after(c.parts[1], here) IN
  IF ~Narrowing(c, branch) THEN here
  ELSE IF c.op = "test" THEN first ELSE after(c.parts[2], first)

-----------------------------------------------------------------------------
(* Helpers *)

Top == Last(scopes)
Outer == Front(scopes)

(* What the resolver knows of the symbol.                                  *)
Walk == [typ |-> typ, scopes |-> scopes, doubts |-> doubts]
Keep(w) == typ' = w.typ /\ scopes' = w.scopes /\ doubts' = w.doubts

(* symbol_type_at.                                                         *)
TypeIn(w) ==
  LET with == {i \in DOMAIN w.scopes : w.scopes[i].flow # None} IN
  IF with = {} THEN Known(w.typ, w.doubts)
  ELSE LET f == w.scopes[CHOOSE i \in with : \A j \in with : j <= i] IN Known(f.flow, f.why)

Here == TypeIn(Walk)

(* Why a documented type may be wrong once it was checked against a value  *)
(* v of type t, and why one that was checked before may be.                *)
Unfit(t, v) ==
  (IF explicit /\ t.tag = "union" /\ "any" \in t.flags THEN {"mixed"} ELSE {})
    \cup (IF explicit /\ ~Denotes(documented, v) THEN {"unsaid"} ELSE {})
Refining(w, t, v) ==
  Unfit(t, v) \cup (IF explicit /\ w.typ # documented THEN {"pinned"} ELSE {})

(* assign_operator with the symbol on the left, v what it then holds.      *)
AssignOperator(w, t, v) ==
  LET new == UpdateType(w.typ, explicit, t) IN
  [typ |-> new, doubts |-> IF explicit THEN {"pinned"} ELSE {},
   scopes |-> [w.scopes EXCEPT ![Len(w.scopes)] =
                [@ EXCEPT !.flow = new, !.wrote = TRUE, !.why = Refining(w, t, v)]]]
Collected(w, c, v) == IF c.sets = None THEN w ELSE AssignOperator(w, c.sets, v)

(* What the symbol may hold after an assignment, or after a condition:     *)
(* whatever the expression is, reported or not.                            *)
Outcomes(t) == {v \in Values : Denotes(t, v)}
After(t, values) == IF t = None THEN values ELSE Outcomes(t)

(* exit_scope for the innermost scope, with the symbol assigned in it or   *)
(* not: what is known around it is old.                                    *)
ExitScope(s, wrote) ==
  [i \in DOMAIN s |->
    IF wrote THEN [s[i] EXCEPT !.wrote = TRUE,
                               !.why = IF s[i].flow = None THEN @ ELSE @ \cup {"left"}]
    ELSE s[i]]
Left == [Walk EXCEPT !.scopes = ExitScope(Outer, Top.wrote)]

(* Fault: leaving a scope does not end the dead code.                      *)
StayDead == UNCHANGED dead

(* exit_scope: the code after it may be reached.                           *)
Revive == dead' = FALSE

Step(statement) ==
  /\ steps < family.most /\ steps' = steps + 1
  /\ statement \in family.statements
  /\ UNCHANGED <<family, explicit, documented>>
Deeper == Len(scopes) <= MaxDepth

-----------------------------------------------------------------------------
(* The walk *)

(* local_variable: the initialiser refines a documented type as an         *)
(* assignment does.  Without one the symbol is null, of which check_type   *)
(* takes no notice.                                                        *)
Init ==
  /\ family \in Families
  /\ explicit \in BOOLEAN
  /\ documented \in IF explicit THEN family.declared ELSE {AnyType}
  /\ \E t \in family.assigned \cup {NullType} :
       /\ typ = IF explicit THEN CheckType(documented, t) ELSE AddAny(t)
       /\ value \in Outcomes(t)
       /\ doubts = Unfit(t, value)
  /\ can = [break |-> FALSE, continue |-> FALSE]
  /\ scopes = <<Frame("body", None, Unknown, TRUE, TRUE)>>
  /\ dead = FALSE /\ run = "here" /\ steps = 0

Assign(t) ==
  /\ Step("assign")
  /\ \E v \in IF live THEN Outcomes(t) ELSE {value} :
       /\ value' = v
       /\ Keep(AssignOperator(Walk, t, v))
  /\ UNCHANGED <<dead, can, run>>

(* A scope is entered: f is the flow type that it starts with.  The run,   *)
(* if it is here, comes in or not.                                         *)
Enter(w, frame) ==
  /\ Deeper
  /\ Keep([w EXCEPT !.scopes = Append(@, frame)])
  /\ run' = IF live /\ ~frame.held THEN "past" ELSE run
  /\ UNCHANGED dead

(* block_statement; the body of try_statement.                             *)
Block(kind) ==
  /\ Step(kind)
  /\ Enter(Walk, Frame(kind, None, Unknown, live, live))
  /\ UNCHANGED <<value, can>>

(* A condition that is collected before the run evaluates it.              *)
Evaluated(c) == IF live THEN After(c.sets, {value}) ELSE {value}

(* What a condition that is true leaves in the innermost scope.            *)
NarrowTop(w, c) ==
  LET top == w.scopes[Len(w.scopes)]
      f == Guarded(c, TRUE, TypeIn(w), Known(top.flow, top.why)) IN
  [w EXCEPT !.scopes[Len(w.scopes)] = [@ EXCEPT !.flow = f.flow, !.why = f.why]]

(* if_statement: the condition and the start of the first branch.          *)
Then(c) ==
  /\ Step("then")
  /\ \E v \in Evaluated(c) :
       /\ value' = v
       /\ LET w == Collected(Walk, c, v) IN
          Enter(w, Frame("then", c, Guarded(c, TRUE, TypeIn(w), Unknown), live, live /\ Satisfied(c, v)))
  /\ UNCHANGED can

(* while_statement: the condition narrows before the scope is entered.     *)
While(c) ==
  /\ Step("while")
  /\ \E v \in Evaluated(c) :
       /\ value' = v
       /\ Enter(NarrowTop(Collected(Walk, c, v), c), Frame("while", c, Unknown, live, live /\ Satisfied(c, v)))
  /\ can' = [break |-> TRUE, continue |-> TRUE]

(* for_statement: the scope is entered, the condition narrows, and then    *)
(* the step is collected, all before the body.                             *)
Stepped(w, t, v) ==
  IF t = None THEN w
  ELSE LET after == AssignOperator(w, t, v) IN
       [after EXCEPT !.scopes[Len(after.scopes)].why = @ \cup {"round"}]
For(c, t) ==
  /\ Step("for")
  /\ \E v \in Evaluated(c) :
       /\ value' = v
       /\ LET frame == [Frame("for", c, Unknown, live, live /\ Satisfied(c, v)) EXCEPT !.step = t]
              w == Stepped(NarrowTop(Collected([Walk EXCEPT !.scopes = Append(@, frame)], c, v), c), t, v) IN
          Enter([w EXCEPT !.scopes = Front(@)], Last(w.scopes))
  /\ can' = [break |-> TRUE, continue |-> TRUE]

(* do_while_statement and for_each_statement: nothing is narrowed.         *)
Do(c) ==
  /\ Step("do")
  /\ Enter(Walk, Frame("do", c, Unknown, live, live))
  /\ can' = [break |-> TRUE, continue |-> TRUE]
  /\ UNCHANGED value
ForEach ==
  /\ Step("foreach")
  /\ \E held \in BOOLEAN : Enter(Walk, Frame("foreach", None, Unknown, live, live /\ held))
  /\ can' = [break |-> TRUE, continue |-> TRUE]
  /\ UNCHANGED value

(* switch_statement, with its first clause.                                *)
Switch ==
  /\ Step("case")
  /\ \E held \in BOOLEAN : Enter(Walk, Frame("case", None, Unknown, live, live /\ held))
  /\ can' = [can EXCEPT !.break = TRUE]
  /\ UNCHANGED value

(* The next part of a statement: a scope is left and another one entered.  *)
(* The run comes into it from where it is, as "runs" says.                 *)
Follow(kind, f, held, runs) ==
  /\ Keep([Left EXCEPT !.scopes =
       Append(@, [Frame(kind, Top.cond, f, Top.entered, held) EXCEPT !.saved = Top.saved])])
  /\ run' = IF Top.entered THEN runs ELSE run
  /\ Revive
  /\ UNCHANGED <<value, can>>

Else ==
  /\ Step("then") /\ Top.kind = "then"
  /\ Follow("else", Guarded(Top.cond, FALSE, TypeIn(Left), Unknown), Top.held,
            CASE run = "past" -> "here" [] run = "here" -> "past" [] OTHER -> run)

(* A clause without a break goes on in the next one.                       *)
Case ==
  /\ Step("case") /\ Top.kind = "case"
  /\ \E held \in BOOLEAN :
       Follow("case", Unknown, Top.held \/ (Top.entered /\ held),
              IF run = "past" /\ held THEN "here" ELSE run)

Catch ==
  /\ Step("try") /\ Top.kind = "try"
  /\ Follow("catch", Unknown, Top.held,
            CASE run = "throw" -> "here" [] run = "here" -> "past" [] OTHER -> run)

(* return_statement, break_statement, continue_statement, throw_statement. *)
Jump(to) ==
  /\ Step(to)
  /\ dead' = TRUE
  /\ run' = IF live THEN to ELSE run
  /\ UNCHANGED <<typ, scopes, can, value, doubts>>

(* Where the run is after a statement, the symbol holding v.               *)
Rounds == Top.kind \in Loops /\ Top.entered /\ run \in {"here", "continue"}
Passed(v) ==
  CASE Rounds -> IF Top.kind = "foreach" THEN "here" ELSE IF Satisfied(Top.cond, v) THEN "out" ELSE "here"
    [] ~Rounds /\ Top.entered /\ (run = "past" \/ (run = "break" /\ Top.kind \in Loops \cup {"case"})) ->
         "here"
    [] OTHER -> run

(* The condition c of a do loop, collected whether the run comes to it or  *)
(* not.                                                                    *)
Skipped(w, c) ==
  [w EXCEPT !.scopes[Len(w.scopes)].why =
     IF Rounds \/ c.sets = None THEN @ ELSE @ \cup {"skipped"}]

(* The end of a statement with scopes; a loop that the run came into goes  *)
(* on where its condition fails.  can_break and can_continue are restored. *)
Leave ==
  /\ Len(scopes) > 1 /\ Top.kind # "try"
  /\ LET known == [Left EXCEPT !.scopes[Len(Outer)].why =
                    IF Top.kind = "while" /\ Outer[Len(Outer)].flow # None
                    THEN @ \cup {"loop"} ELSE @]
         step == IF Rounds THEN After(Top.step, {value}) ELSE {value} IN
     \E v \in IF Rounds /\ Top.kind # "foreach" THEN After(Top.cond.sets, step) ELSE step :
       /\ value' = v
       /\ run' = Passed(v)
       /\ Keep(IF Top.kind = "do" THEN Skipped(Collected(known, Top.cond, v), Top.cond) ELSE known)
  /\ Revive
  /\ can' = IF Top.kind \in Loops THEN Top.saved
            ELSE IF Top.kind = "case" THEN [can EXCEPT !.break = Top.saved.break] ELSE can
  /\ UNCHANGED <<family, explicit, documented, steps>>

Next ==
  \/ \E t \in family.assigned : Assign(t)
  \/ \E c \in family.conditions :
       \/ Then(c) \/ While(c) \/ Do(c)
       \/ \E t \in family.assigned \cup {None} : For(c, t)
  \/ \E kind \in {"block", "try"} : Block(kind)
  \/ \E to \in {"break", "continue", "out", "throw"} : Jump(to)
  \/ ForEach \/ Switch \/ Else \/ Case \/ Catch \/ Leave

Spec == Init /\ [][Next]_vars

-----------------------------------------------------------------------------
(* Properties *)

(* Whatever was merged, checked and narrowed, the cached kinds of a union  *)
(* are those of its members (all questions to a type look at them), it is  *)
(* never left with a single member or with none, and it holds two          *)
(* primitives of a kind only if they are instances.                        *)
TypesCanonical ==
  \A t \in {typ} \cup ({scopes[i].flow : i \in DOMAIN scopes} \ {None}) : Canonical(t)

(* Wherever the run comes, the type there stands for the value it has,     *)
(* but for the causes above: narrowing by any condition is right, on every *)
(* way through branches, loops, switches, jumps and exceptions.            *)
WrongHasCause == live => Denotes(Here.flow, value) \/ Here.why # {}

(* A statement is reported as unreachable (dead_code in collect_stmt) only *)
(* where no run comes; break and continue are reported unless a statement  *)
(* around them takes them, whatever was entered, left and nested before.   *)
JumpsReported ==
  /\ dead => ~live
  /\ can.break = \E i \in DOMAIN scopes : scopes[i].kind \in Loops \cup {"case"}
  /\ can.continue = \E i \in DOMAIN scopes : scopes[i].kind \in Loops
=============================================================================
