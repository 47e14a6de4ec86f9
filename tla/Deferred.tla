------------------------------ MODULE Deferred ------------------------------
(***************************************************************************)
(* The order in which the resolver walks the bodies of functions           *)
(* (crates/resolver/src/resolver.rs).                                      *)
(*                                                                         *)
(* A function is collected where it is declared and its body is walked     *)
(* when it is called for the first time, with the types of the arguments.  *)
(* A later call that adds a type to a parameter has the body walked again, *)
(* after what the earlier walk left behind is purged.  A walk collects the *)
(* functions declared in the body once more, as new functions.  Bodies     *)
(* that no call reached are walked at the end of the file.                 *)
(*                                                                         *)
(* A site is a function in the source, and its body a sequence of          *)
(* statements: the declaration of a nested function, the call of a         *)
(* function with one argument, something that is worth a diagnostic.       *)
(***************************************************************************)
EXTENDS Naturals, Sequences, FiniteSets

CONSTANTS
  Sites,         \* the functions of a file, and the file itself
  File,          \* the file, whose body is walked first
  Parent,        \* the site in whose body a function is declared
  Types,         \* types of arguments
  Programs,      \* what the body of each site may be
  None

Statements ==
  [op : {"declare"}, site : Sites \ {File}, arg : {None}]
    \cup [op : {"call"}, site : Sites \ {File}, arg : Types]
    \cup [op : {"error"}, site : {None}, arg : {None}]

(* A function is declared in one place, in the body of its parent.         *)
ASSUME DeferredAssumption ==
  /\ File \in Sites /\ None \notin Sites \cup Types
  /\ Parent \in [Sites \ {File} -> Sites]
  /\ Programs \subseteq [Sites -> Seq(Statements)]
  /\ \A p \in Programs, s \in Sites : \A m \in DOMAIN p[s] : p[s][m].op = "declare" =>
       /\ Parent[p[s][m].site] = s
       /\ \A n \in DOMAIN p[s] : p[s][n] = p[s][m] => n = m

VARIABLES
  body,          \* the program: the statements of each site
  stack,         \* the walks that are under way, the last one running
  site,          \* the arena: the site of every function collected so far
  traces,        \* functions whose trace is checked in
  resolved,      \* resolved_once
  stale,         \* functions with the STALE flag
  bound,         \* the function that the name of each site stands for
  params,        \* the types of the parameter declared at each site
  errors,        \* the number of diagnostics in each body, not nested ones
  next,          \* function_i: position in the pass at the end of the file
  folded,        \* history: how often the doc of a function was folded in
  known,         \* history: the parameter's types at the last walk of a function
  missed         \* history: functions that learnt a type while being walked

bookkeeping == <<site, traces, resolved, stale, bound>>
history == <<folded, known, missed>>
vars == <<body, stack, bookkeeping, params, errors, next, history>>

Ids == DOMAIN site
Frame(id, s, pc) == [id |-> id, site |-> s, pc |-> pc]

(* symbol_from_source_file begins: function 0 is the file.                 *)
Init ==
  /\ body \in Programs
  /\ stack = <<Frame(0, File, 1)>>
  /\ site = << >>
  /\ traces = {} /\ resolved = {} /\ stale = {}
  /\ bound = [s \in Sites |-> 0]
  /\ params = [s \in Sites |-> {}]
  /\ errors = [s \in Sites |-> 0]
  /\ next = 0
  /\ folded = << >> /\ known = << >>
  /\ missed = {}

-----------------------------------------------------------------------------
(* Helpers *)

Top == stack[Len(stack)]
Statement == body[Top.site][Top.pc]
At(op) == stack # << >> /\ Top.pc <= Len(body[Top.site]) /\ Statement.op = op

(* The walk at the top goes on with its next statement.                    *)
Advanced == [stack EXCEPT ![Len(stack)].pc = @ + 1]

(* The sites whose source lies within the body of s: whatever holds s and  *)
(* with each site the functions declared in it holds them.                 *)
Closed(S) == \A t \in Sites \ {File} : Parent[t] \in S => t \in S
Inside(s) == {t \in Sites \ {s} : \A S \in SUBSET Sites : s \in S /\ Closed(S) => t \in S}

(* Fault: the comparison of the ranges is the wrong way round.             *)
PurgedOuter(s) == [t \in Sites |-> IF t = s \/ s \in Inside(t) THEN 0 ELSE errors[t]]

(* purge_range_bookkeeping: no diagnostic is left in the body.             *)
Purged(s) == [t \in Sites |-> IF t = s \/ t \in Inside(s) THEN 0 ELSE errors[t]]

(* resolve_deferred_function_entry up to the walk of function i, whose     *)
(* trace is checked out; rest is the stack once its caller has gone on.    *)
Enter(i, rest) ==
  /\ traces' = traces \ {i}
  /\ stack' = Append(rest, Frame(i, site[i], 1))
  /\ IF i \in resolved
     THEN /\ stale' = stale \cup {j \in Ids : site[j] \in Inside(site[i])}
          /\ errors' = Purged(site[i])
     ELSE UNCHANGED <<stale, errors>>

-----------------------------------------------------------------------------
(* Statements *)

(* collect_function: a new function; its parameter's symbol is the one of  *)
(* an earlier walk, if there was one, with its type reset.                 *)
Declare ==
  /\ At("declare")
  /\ LET s == Statement.site
         i == Len(site) + 1 IN
     /\ site' = Append(site, s)
     /\ traces' = traces \cup {i}
     /\ bound' = [bound EXCEPT ![s] = i]
     /\ params' = [params EXCEPT ![s] = {}]
     /\ folded' = Append(folded, 0)
     /\ known' = Append(known, {})
  /\ stack' = Advanced
  /\ UNCHANGED <<body, resolved, stale, errors, next, missed>>

Error ==
  /\ At("error")
  /\ errors' = [errors EXCEPT ![Top.site] = @ + 1]
  /\ stack' = Advanced
  /\ UNCHANGED <<body, bookkeeping, params, next, history>>

(* Fault: the doc is folded in whenever a function was not walked yet.     *)
FirstAlways(i) == i \notin resolved

(* The call is the first encounter with the function, and its trace is     *)
(* there: it is not in the middle of a walk.                               *)
First(i) == i \notin resolved /\ i \in traces

(* Fault: only the first call has the body walked.                         *)
AgainNever(i, t) == FALSE

(* The call taught something new about the parameter.                      *)
Again(i, t) == i \in resolved /\ i \in traces /\ t \notin params[site[i]]

(* callable_primitive with a function.                                     *)
Call ==
  /\ At("call")
  /\ LET i == bound[Statement.site]
         t == Statement.arg IN
     IF i = 0
     THEN /\ stack' = Advanced
          /\ UNCHANGED <<traces, stale, params, errors, folded, known, missed>>
     ELSE /\ params' = [params EXCEPT ![site[i]] = @ \cup {t}]
          /\ folded' = [folded EXCEPT ![i] = IF First(i) THEN @ + 1 ELSE @]
          /\ IF First(i) \/ Again(i, t)
             THEN /\ Enter(i, Advanced)
                  /\ known' = [known EXCEPT ![i] = params'[site[i]]]
                  /\ missed' = missed \ {i}
             ELSE /\ stack' = Advanced
                  /\ missed' = IF i \in traces \/ t \in params[site[i]] THEN missed
                               ELSE missed \cup {i}
                  /\ UNCHANGED <<traces, stale, errors, known>>
  /\ UNCHANGED <<body, site, resolved, bound, next>>

(* Fault: the trace of a body that was left is not checked in.              *)
ReturnKept ==
  /\ Len(stack) > 0 /\ Top.pc > Len(body[Top.site])
  /\ Top.id # 0
  /\ resolved' = resolved \cup {Top.id}
  /\ stack' = SubSeq(stack, 1, Len(stack) - 1)
  /\ UNCHANGED <<body, site, traces, stale, bound, params, errors, next, history>>

(* The end of a body: the trace is checked in again.                       *)
Return ==
  /\ Len(stack) > 0 /\ Top.pc > Len(body[Top.site])
  /\ Top.id # 0
  /\ resolved' = resolved \cup {Top.id}
  /\ traces' = traces \cup {Top.id}
  /\ stack' = SubSeq(stack, 1, Len(stack) - 1)
  /\ UNCHANGED <<body, site, stale, bound, params, errors, next, history>>

-----------------------------------------------------------------------------
(* The end of the file *)

(* All statements of the file are collected: the functions that were not   *)
(* called are next.                                                        *)
EndFile ==
  /\ Len(stack) > 0 /\ Top.id = 0 /\ Top.pc > Len(body[File])
  /\ next' = 1
  /\ stack' = << >>
  /\ UNCHANGED <<body, bookkeeping, params, errors, history>>

AtBackstop == stack = << >> /\ next \in Ids

Skip ==
  /\ AtBackstop /\ next \in resolved
  /\ next' = next + 1
  /\ UNCHANGED <<body, stack, bookkeeping, params, errors, history>>

(* Fault: the function before the last one ends the pass.                  *)
WalkUncalledShort ==
  /\ AtBackstop /\ next \notin resolved /\ next < Len(site)
  /\ next' = next + 1
  /\ Enter(next, << >>)
  /\ folded' = [folded EXCEPT ![next] = @ + 1]
  /\ known' = [known EXCEPT ![next] = params[site[next]]]
  /\ missed' = missed \ {next}
  /\ UNCHANGED <<body, site, resolved, bound, params>>

(* Fault: the pass steps over the function after the one it walks.         *)
WalkUncalledSkip ==
  /\ AtBackstop /\ next \notin resolved
  /\ next' = next + 2
  /\ Enter(next, << >>)
  /\ folded' = [folded EXCEPT ![next] = @ + 1]
  /\ known' = [known EXCEPT ![next] = params[site[next]]]
  /\ missed' = missed \ {next}
  /\ UNCHANGED <<body, site, resolved, bound, params>>

WalkUncalled ==
  /\ AtBackstop /\ next \notin resolved
  /\ next' = next + 1
  /\ IF next \in traces
     THEN /\ Enter(next, << >>)
          /\ folded' = [folded EXCEPT ![next] = @ + 1]
          /\ known' = [known EXCEPT ![next] = params[site[next]]]
          /\ missed' = missed \ {next}
     ELSE UNCHANGED <<stack, traces, stale, errors, history>>
  /\ UNCHANGED <<body, site, resolved, bound, params>>

Next == Declare \/ Error \/ Call \/ Return \/ EndFile \/ Skip \/ WalkUncalled

Spec == Init /\ [][Next]_vars

(* The resolver is a sequential program: it goes on as long as it can.     *)
FairSpec == Spec /\ WF_vars(Next)

-----------------------------------------------------------------------------
(* Properties *)

Done == stack = << >> /\ next = Len(site) + 1

Running == {stack[n].id : n \in DOMAIN stack}

(* A trace is checked in, or its function is being walked, once: recursion *)
(* of any shape walks no body inside itself.                               *)
TracesAccounted ==
  /\ traces \cap Running = {}
  /\ Ids \subseteq traces \cup Running
  /\ \A m, n \in DOMAIN stack : stack[m].id = stack[n].id => m = n

(* The doc of a function is folded into its parameters exactly once,       *)
(* before its body is walked for the first time.                           *)
DocFoldedOnce ==
  \A i \in Ids : folded[i] = IF i \in resolved \/ i \in Running THEN 1 ELSE 0

(* In the end the body of every function was walked, those of functions    *)
(* collected during the last pass included.                                *)
EveryBodyWalked == Done => resolved = Ids /\ traces = Ids

(* The diagnostics of a function that was collected are there in the end,  *)
(* whatever was purged, and those of a function that is not nested in      *)
(* another one are there once, however often it was walked; and no name    *)
(* stands for a function that was purged.                                  *)
OwnErrors(s) == Cardinality({n \in DOMAIN body[s] : body[s][n].op = "error"})
ErrorsKept ==
  Done =>
    /\ \A s \in {site[i] : i \in Ids} :
         /\ errors[s] >= OwnErrors(s)
         /\ Parent[s] = File => errors[s] = OwnErrors(s)
    /\ \A s \in Sites : bound[s] \notin stale

(* The function that a name stands for was walked last with all types of   *)
(* its parameter, unless a call from within that walk added one.  This is  *)
(* not so for functions collected before it at the same site, which may be *)
(* walked after it.                                                        *)
LastWalkKnows ==
  Done => \A s \in Sites : bound[s] # 0 =>
            known[bound[s]] = params[s] \/ bound[s] \in missed

(* The resolver ends, for every program.                                   *)
Terminates == <>Done

(* A comment says that a body's symbols and diagnostics are purged before  *)
(* it is walked again "so we don't end up with duplicates".                *)
NoDuplicates == Done => \A s \in Sites : errors[s] <= OwnErrors(s)
=============================================================================
