--------------------------- MODULE DeferredProofs ---------------------------
(***************************************************************************)
(* Proofs about Deferred, for any functions, nested in any way, and any    *)
(* bodies.                                                                 *)
(***************************************************************************)
EXTENDS Deferred, FiniteSetTheorems, SequenceTheorems, TLAPS

-----------------------------------------------------------------------------
(* The inductive invariant *)

Frames == [id : Nat, site : Sites, pc : Nat \ {0}]

TypeOK ==
  /\ body \in [Sites -> Seq(Statements)]
  /\ stack \in Seq(Frames)
  /\ site \in Seq(Sites)
  /\ traces \subseteq Ids /\ resolved \subseteq Ids /\ missed \subseteq Ids
  /\ bound \in [Sites -> Ids \cup {0}]
  /\ params \in [Sites -> SUBSET Types]
  /\ next \in Nat
  /\ folded \in Seq(Nat) /\ Len(folded) = Len(site)
  /\ known \in Seq(SUBSET Types) /\ Len(known) = Len(site)

(* The file is walked first and its walk is the outermost one until the    *)
(* pass at its end; every other walk is that of a collected function.      *)
Walks ==
  /\ next = 0 => stack # << >>
  /\ \A n \in DOMAIN stack :
       /\ stack[n].id = 0 => n = 1 /\ next = 0
       /\ n = 1 /\ next = 0 => stack[n].id = 0
       /\ stack[n].id # 0 => stack[n].id \in Ids

(* A name stands for a function that was collected at its site.            *)
Named == \A s \in Sites : bound[s] # 0 => site[bound[s]] = s

(* What a call adds to a parameter reaches a walk or is noted as missed.   *)
Learnt ==
  \A s \in Sites : bound[s] # 0 /\ bound[s] \in resolved \cup Running =>
    known[bound[s]] = params[s] \/ bound[s] \in missed

(* The pass at the end of the file leaves no function behind.              *)
Passed ==
  /\ next <= Len(site) + 1
  /\ \A i \in Ids : i < next => i \in resolved \cup Running

IInv ==
  TypeOK /\ Walks /\ Named /\ Learnt /\ Passed /\ TracesAccounted /\ DocFoldedOnce

-----------------------------------------------------------------------------
(* The stack *)

(* A walk that goes on is the same walk.                                   *)
LEMMA AdvancedStack ==
  ASSUME TypeOK, stack # << >>
  PROVE  /\ Len(stack) \in Nat \ {0} /\ Top \in Frames
         /\ Advanced \in Seq(Frames) /\ Len(Advanced) = Len(stack)
         /\ \A n \in 1..Len(stack) : Advanced[n].id = stack[n].id
<1>1. Len(stack) \in Nat \ {0} /\ Top \in Frames
  BY DEF TypeOK, Top
<1>2. [Top EXCEPT !.pc = @ + 1] \in Frames /\ [Top EXCEPT !.pc = @ + 1].id = Top.id
  BY <1>1 DEF Frames
<1>3. Advanced = [stack EXCEPT ![Len(stack)] = [Top EXCEPT !.pc = @ + 1]]
  BY DEF Advanced, Top
<1> DEFINE top == [Top EXCEPT !.pc = @ + 1]
<1> HIDE DEF top
<1>4. /\ [stack EXCEPT ![Len(stack)] = top] \in Seq(Frames)
      /\ Len([stack EXCEPT ![Len(stack)] = top]) = Len(stack)
      /\ \A n \in 1..Len(stack) :
           [stack EXCEPT ![Len(stack)] = top][n] = IF n = Len(stack) THEN top ELSE stack[n]
  BY <1>1, <1>2 DEF TypeOK, top
<1>5. Advanced \in Seq(Frames) /\ Len(Advanced) = Len(stack)
  BY <1>3, <1>4 DEF top
<1>6. ASSUME NEW n \in 1..Len(stack) PROVE Advanced[n].id = stack[n].id
  <2>1. top.id = stack[Len(stack)].id
    BY <1>2 DEF Top, top
  <2>2. Advanced[n] = IF n = Len(stack) THEN top ELSE stack[n]
    BY <1>3, <1>4 DEF top
  <2>. QED BY <2>1, <2>2
<1>. QED BY <1>1, <1>5, <1>6

(* What a statement that is not a call does to the stack.                  *)
LEMMA AdvanceRuns ==
  ASSUME TypeOK, stack # << >>, stack' = Advanced
  PROVE  /\ stack' \in Seq(Frames) /\ Len(stack') = Len(stack)
         /\ DOMAIN stack' = DOMAIN stack /\ DOMAIN stack = 1..Len(stack)
         /\ \A n \in DOMAIN stack : stack'[n].id = stack[n].id
         /\ Running' = Running
<1>1. /\ stack' \in Seq(Frames) /\ Len(stack') = Len(stack)
      /\ DOMAIN stack' = DOMAIN stack /\ DOMAIN stack = 1..Len(stack)
      /\ \A n \in DOMAIN stack : stack'[n].id = stack[n].id
  <2>1. stack \in Seq(Frames) /\ DOMAIN stack = 1..Len(stack)
    BY DEF TypeOK
  <2>2. /\ stack' \in Seq(Frames) /\ Len(stack') = Len(stack)
        /\ \A n \in 1..Len(stack) : stack'[n].id = stack[n].id
    BY AdvancedStack
  <2>3. DOMAIN stack' = 1..Len(stack')
    BY <2>2
  <2>. QED BY <2>1, <2>2, <2>3
<1>2. Running' = Running
  BY <1>1 DEF Running
<1>. QED BY <1>1, <1>2

(* A function that is entered is walked on top of those that were.         *)
LEMMA EnterRuns ==
  ASSUME TypeOK, NEW i \in Ids, Enter(i, IF stack = << >> THEN << >> ELSE Advanced)
  PROVE  /\ traces' = traces \ {i}
         /\ stack' \in Seq(Frames) /\ Len(stack') = Len(stack) + 1
         /\ DOMAIN stack' = DOMAIN stack \cup {Len(stack) + 1}
         /\ Len(stack) + 1 \notin DOMAIN stack /\ Len(stack) \in Nat
         /\ \A n \in DOMAIN stack : stack'[n].id = stack[n].id
         /\ stack'[Len(stack) + 1].id = i
         /\ Running' = Running \cup {i}
<1> DEFINE rest == IF stack = << >> THEN << >> ELSE Advanced
           frame == Frame(i, site[i], 1)
<1>1. /\ rest \in Seq(Frames) /\ Len(rest) = Len(stack) /\ Len(stack) \in Nat
      /\ \A n \in 1..Len(stack) : rest[n].id = stack[n].id
  BY AdvancedStack DEF TypeOK
<1>2. frame \in Frames /\ frame.id = i
  BY DEF TypeOK, Frames, Frame, Ids
<1>3. stack' = Append(rest, frame) /\ traces' = traces \ {i}
  BY DEF Enter
<1> HIDE DEF rest, frame
<1>4. /\ stack' \in Seq(Frames) /\ Len(stack') = Len(stack) + 1
      /\ \A n \in 1..Len(stack) : stack'[n] = rest[n]
      /\ stack'[Len(stack) + 1] = frame
  BY <1>1, <1>2, <1>3, AppendProperties
<1>5. /\ DOMAIN stack = 1..Len(stack) /\ DOMAIN stack' = DOMAIN stack \cup {Len(stack) + 1}
      /\ Len(stack) + 1 \notin DOMAIN stack
  BY <1>1, <1>4 DEF TypeOK
<1>6. /\ \A n \in DOMAIN stack : stack'[n].id = stack[n].id
      /\ stack'[Len(stack) + 1].id = i
  BY <1>1, <1>2, <1>4, <1>5
<1>7. Running' = Running \cup {i}
  BY <1>5, <1>6 DEF Running
<1>. QED BY <1>1, <1>3, <1>4, <1>5, <1>6, <1>7

-----------------------------------------------------------------------------
(* A function is entered *)

(* The walk of a function whose trace is there starts: it is walked inside *)
(* no other walk of it, and whoever had it entered had its doc folded in   *)
(* if it was the first time.                                               *)
LEMMA EnterKeeps ==
  ASSUME IInv, NEW i \in traces, Enter(i, IF stack = << >> THEN << >> ELSE Advanced),
         UNCHANGED <<body, site, resolved, bound>>,
         next' \in Nat, next' <= Len(site) + 1, next' = 0 <=> next = 0,
         \A j \in Ids : j < next' => j < next \/ j = i,
         \A s \in Sites : params'[s] = params[s] \/ bound[s] = i,
         params' \in [Sites -> SUBSET Types],
         folded' = [folded EXCEPT ![i] = IF i \in resolved THEN @ ELSE @ + 1],
         known' = [known EXCEPT ![i] = params'[site[i]]],
         missed' = missed \ {i}
  PROVE  IInv'
<1>1. i \in Ids /\ i # 0 /\ i \notin Running /\ Ids' = Ids
  BY DEF IInv, TypeOK, TracesAccounted, Ids
<1>2. /\ traces' = traces \ {i}
      /\ stack' \in Seq(Frames) /\ Len(stack') = Len(stack) + 1
      /\ DOMAIN stack' = DOMAIN stack \cup {Len(stack) + 1}
      /\ Len(stack) + 1 \notin DOMAIN stack /\ Len(stack) \in Nat
      /\ \A n \in DOMAIN stack : stack'[n].id = stack[n].id
      /\ stack'[Len(stack) + 1].id = i
      /\ Running' = Running \cup {i}
  BY <1>1, EnterRuns DEF IInv
<1> DEFINE once == IF i \in resolved THEN folded[i] ELSE folded[i] + 1
           learnt == params'[site[i]]
<1>3. /\ folded' \in Seq(Nat) /\ Len(folded') = Len(folded)
      /\ \A j \in Ids : folded'[j] = IF j = i /\ i \notin resolved THEN folded[j] + 1 ELSE folded[j]
  <2>4. folded \in Seq(Nat) /\ i \in 1..Len(folded)
    BY <1>1 DEF IInv, TypeOK, Ids
  <2>1. once \in Nat
    BY <2>4
  <2>2. folded' = [folded EXCEPT ![i] = once]
    OBVIOUS
  <2>3. Ids = 1..Len(folded)
    BY DEF IInv, TypeOK, Ids
  <2>. QED BY <2>4, <2>1, <2>2, <2>3, ExceptSeq
<1>4. /\ known' \in Seq(SUBSET Types) /\ Len(known') = Len(known)
      /\ \A j \in Ids : known'[j] = IF j = i THEN learnt ELSE known[j]
  <2>1. known \in Seq(SUBSET Types) /\ i \in 1..Len(known) /\ learnt \in SUBSET Types
    BY <1>1 DEF IInv, TypeOK, Ids
  <2>2. Ids = 1..Len(known)
    BY DEF IInv, TypeOK, Ids
  <2>. QED BY <2>1, <2>2, ExceptSeq
<1>5. TypeOK'
  <2>1. traces' \subseteq Ids' /\ resolved' \subseteq Ids' /\ missed' \subseteq Ids'
    BY <1>1, <1>2 DEF IInv, TypeOK
  <2>2. Len(folded') = Len(site') /\ Len(known') = Len(site')
    BY <1>3, <1>4 DEF IInv, TypeOK
  <2>. QED BY <1>1, <1>2, <1>3, <1>4, <2>1, <2>2 DEF IInv, TypeOK
<1>6. Walks'
  <2>1. stack' # << >>
    BY <1>2
  <2>4. stack = << >> <=> Len(stack) = 0
    BY DEF IInv, TypeOK
  <2>2. ASSUME NEW n \in DOMAIN stack
        PROVE  /\ stack'[n].id = 0 => n = 1 /\ next' = 0
               /\ n = 1 /\ next' = 0 => stack'[n].id = 0
               /\ stack'[n].id # 0 => stack'[n].id \in Ids'
    BY <1>1, <1>2 DEF IInv, Walks
  <2>3. Len(stack) + 1 = 1 => next' # 0
    BY <1>2, <2>4 DEF IInv, Walks
  <2>. QED BY <1>1, <1>2, <2>1, <2>2, <2>3 DEF Walks
<1>7. Named' /\ Passed'
  BY <1>1, <1>2 DEF IInv, Named, Passed
<1>8. Learnt'
  BY <1>1, <1>2, <1>4 DEF IInv, TypeOK, Named, Learnt
<1>9. TracesAccounted'
  BY SMTT(30), <1>1, <1>2 DEF IInv, TracesAccounted, Running
<1>10. DocFoldedOnce'
  BY <1>1, <1>2, <1>3 DEF IInv, DocFoldedOnce
<1>. QED BY <1>5, <1>6, <1>7, <1>8, <1>9, <1>10 DEF IInv

-----------------------------------------------------------------------------
(* The actions *)

LEMMA InitIInv == Init => IInv
<1> SUFFICES ASSUME Init PROVE IInv
  OBVIOUS
<1>1. Ids = {} /\ traces = {} /\ resolved = {} /\ missed = {} /\ next = 0
  BY DEF Init, Ids
<1>2. stack = <<Frame(0, File, 1)>> /\ Frame(0, File, 1) \in Frames
  BY DeferredAssumption DEF Init, Frame, Frames
<1>3. stack \in Seq(Frames) /\ DOMAIN stack = {1} /\ stack[1].id = 0 /\ stack # << >>
  BY <1>2 DEF Frame
<1>4. TypeOK
  BY <1>1, <1>3, DeferredAssumption DEF Init, TypeOK
<1>. QED BY <1>1, <1>3, <1>4
         DEF Init, IInv, Walks, Named, Learnt, Passed, TracesAccounted, DocFoldedOnce

(* All walks but the one of the file are those of collected functions.     *)
LEMMA RunningIds == IInv => Running \subseteq Ids \cup {0} /\ 0 \notin Ids
BY DEF IInv, Walks, Running, Ids, TypeOK

(* What is left of the walks when only the one at the top goes on.         *)
LEMMA AdvanceKeeps ==
  ASSUME IInv, stack # << >>, stack' = Advanced
  PROVE  /\ stack' \in Seq(Frames) /\ Running' = Running
         /\ \A m, n \in DOMAIN stack' : stack'[m].id = stack'[n].id => m = n
         /\ Ids \subseteq Ids' /\ next' = next => Walks'
<1>1. /\ stack' \in Seq(Frames) /\ Len(stack') = Len(stack)
      /\ DOMAIN stack' = DOMAIN stack /\ DOMAIN stack = 1..Len(stack)
      /\ \A n \in DOMAIN stack : stack'[n].id = stack[n].id
      /\ Running' = Running
  BY AdvanceRuns DEF IInv
<1>2. stack' # << >>
  BY <1>1 DEF IInv, TypeOK
<1>3. \A m, n \in DOMAIN stack' : stack'[m].id = stack'[n].id => m = n
  BY <1>1 DEF IInv, TracesAccounted
<1>4. ASSUME Ids \subseteq Ids', next' = next PROVE Walks'
  BY <1>1, <1>2, <1>4 DEF IInv, Walks
<1>. QED BY <1>1, <1>3, <1>4

LEMMA ErrorKeeps == ASSUME IInv, Error PROVE IInv'
<1>1. /\ stack # << >> /\ stack' = Advanced
      /\ UNCHANGED <<body, bookkeeping, params, next, history>>
  BY DEF Error, At
<1>2. Ids' = Ids
  BY <1>1 DEF bookkeeping, Ids
<1>3. /\ stack' \in Seq(Frames) /\ Running' = Running /\ Walks'
      /\ \A m, n \in DOMAIN stack' : stack'[m].id = stack'[n].id => m = n
  BY <1>1, <1>2, AdvanceKeeps
<1>4. TypeOK'
  BY <1>1, <1>2, <1>3 DEF bookkeeping, history, IInv, TypeOK
<1>5. Named' /\ Learnt' /\ Passed' /\ DocFoldedOnce'
  BY <1>1, <1>2, <1>3 DEF bookkeeping, history, IInv, Named, Learnt, Passed, DocFoldedOnce
<1>6. TracesAccounted'
  BY <1>1, <1>2, <1>3 DEF bookkeeping, IInv, TracesAccounted
<1>. QED BY <1>3, <1>4, <1>5, <1>6 DEF IInv

(* A new function has never been walked, and the type of its parameter is  *)
(* that of no call.                                                        *)
LEMMA DeclareKeeps == ASSUME IInv, Declare PROVE IInv'
<1> DEFINE s == Statement.site
           i == Len(site) + 1
<1>1. /\ stack # << >> /\ stack' = Advanced
      /\ site' = Append(site, s)
      /\ traces' = traces \cup {i}
      /\ bound' = [bound EXCEPT ![s] = i]
      /\ params' = [params EXCEPT ![s] = {}]
      /\ folded' = Append(folded, 0)
      /\ known' = Append(known, {})
      /\ UNCHANGED <<body, resolved, next, missed>>
  BY DEF Declare, At
<1>2. s \in Sites
  <2>1. Top \in Frames
    BY <1>1, AdvancedStack DEF IInv
  <2>2. Statement \in Statements
    <3>1. body[Top.site] \in Seq(Statements)
      BY <2>1 DEF Frames, IInv, TypeOK
    <3>2. Top.pc \in 1..Len(body[Top.site])
      BY <2>1, <3>1 DEF Declare, At, Frames
    <3>. QED BY <3>1, <3>2 DEF Statement
  <2>3. Statement.op = "declare"
    BY DEF Declare, At
  <2>. QED BY <2>2, <2>3 DEF Statements
<1>3. /\ site \in Seq(Sites) /\ Len(site) \in Nat /\ Ids = 1..Len(site)
      /\ folded \in Seq(Nat) /\ Len(folded) = Len(site)
      /\ known \in Seq(SUBSET Types) /\ Len(known) = Len(site)
  BY DEF IInv, TypeOK, Ids
<1> HIDE DEF s
<1>4. /\ site' \in Seq(Sites) /\ Len(site') = i
      /\ \A j \in Ids : site'[j] = site[j]
      /\ site'[i] = s
  BY <1>1, <1>2, <1>3, AppendProperties
<1>5. /\ folded' \in Seq(Nat) /\ Len(folded') = i
      /\ \A j \in Ids : folded'[j] = folded[j]
      /\ folded'[i] = 0
  BY <1>1, <1>3, AppendProperties
<1>6. /\ known' \in Seq(SUBSET Types) /\ Len(known') = i
      /\ \A j \in Ids : known'[j] = known[j]
  BY <1>1, <1>3, AppendProperties
<1>7. Ids' = Ids \cup {i} /\ i \notin Ids /\ i # 0
  BY <1>3, <1>4 DEF Ids
<1>8. /\ stack' \in Seq(Frames) /\ Running' = Running /\ Walks'
      /\ \A m, n \in DOMAIN stack' : stack'[m].id = stack'[n].id => m = n
  BY <1>1, <1>7, AdvanceKeeps
<1>9. i \notin Running /\ i \notin resolved
  BY <1>7, RunningIds DEF IInv, TypeOK
<1>10. /\ bound' \in [Sites -> Ids' \cup {0}]
       /\ \A t \in Sites : bound'[t] = IF t = s THEN i ELSE bound[t]
  BY <1>1, <1>2, <1>7 DEF IInv, TypeOK
<1>11. /\ params' \in [Sites -> SUBSET Types]
       /\ \A t \in Sites : t # s => params'[t] = params[t]
  BY <1>1, <1>2 DEF IInv, TypeOK
<1>12. TypeOK'
  <2>1. traces' \subseteq Ids' /\ resolved' \subseteq Ids' /\ missed' \subseteq Ids'
    BY <1>1, <1>7 DEF IInv, TypeOK
  <2>. QED BY <1>1, <1>4, <1>5, <1>6, <1>8, <1>10, <1>11, <2>1 DEF IInv, TypeOK
<1>13. Named'
  BY <1>4, <1>7, <1>10 DEF IInv, TypeOK, Named
<1>14. Learnt'
  <2>1. \A t \in Sites : bound'[t] # 0 /\ bound'[t] \in resolved \cup Running =>
          t # s /\ bound'[t] = bound[t] /\ bound[t] \in Ids
    BY <1>9, <1>10 DEF IInv, TypeOK
  <2>2. ASSUME NEW t \in Sites, bound'[t] # 0, bound'[t] \in resolved \cup Running
        PROVE  known'[bound'[t]] = params'[t] \/ bound'[t] \in missed'
    <3>1. /\ known'[bound'[t]] = known[bound[t]] /\ params'[t] = params[t]
          /\ bound'[t] = bound[t] /\ missed' = missed
      BY <1>1, <1>6, <1>11, <2>1, <2>2
    <3>. QED BY <2>2, <3>1 DEF IInv, Learnt
  <2>. QED BY <1>1, <1>8, <2>2 DEF Learnt
<1>15. Passed'
  BY <1>1, <1>3, <1>4, <1>7, <1>8 DEF IInv, TypeOK, Passed
<1>16. TracesAccounted'
  BY <1>1, <1>7, <1>8, <1>9 DEF IInv, TracesAccounted
<1>17. DocFoldedOnce'
  BY <1>1, <1>5, <1>7, <1>8, <1>9 DEF IInv, DocFoldedOnce
<1>. QED BY <1>8, <1>12, <1>13, <1>14, <1>15, <1>16, <1>17 DEF IInv

(* A call enters the function, or its argument is known, or the function   *)
(* is in the middle of a walk and learns a type that the walk may miss.    *)
LEMMA CallKeeps == ASSUME IInv, Call PROVE IInv'
<1> DEFINE i == bound[Statement.site]
           t == Statement.arg
<1>1. stack # << >> /\ UNCHANGED <<body, site, resolved, bound, next>> /\ Ids' = Ids
  BY DEF Call, At, Ids
<1>2. Statement.site \in Sites /\ t \in Types
  <2>1. Top \in Frames
    BY <1>1, AdvancedStack DEF IInv
  <2>2. Statement \in Statements
    <3>1. body[Top.site] \in Seq(Statements)
      BY <2>1 DEF Frames, IInv, TypeOK
    <3>2. Top.pc \in 1..Len(body[Top.site])
      BY <2>1, <3>1 DEF Call, At, Frames
    <3>. QED BY <3>1, <3>2 DEF Statement
  <2>3. Statement.op = "call"
    BY DEF Call, At
  <2>. QED BY <2>2, <2>3 DEF Statements
<1>3. i \in Ids \cup {0}
  BY <1>2 DEF IInv, TypeOK
<1>4. i # 0 => site[i] = Statement.site
  BY <1>2 DEF IInv, Named
<1>5. CASE i = 0
  <2>1. stack' = Advanced /\ UNCHANGED <<traces, stale, params, errors, folded, known, missed>>
    BY <1>5 DEF Call
  <2>2. /\ stack' \in Seq(Frames) /\ Running' = Running /\ Walks'
        /\ \A m, n \in DOMAIN stack' : stack'[m].id = stack'[n].id => m = n
    BY <1>1, <2>1, AdvanceKeeps
  <2>3. TypeOK'
    BY <1>1, <2>1, <2>2 DEF IInv, TypeOK
  <2>4. Named' /\ Learnt' /\ Passed' /\ DocFoldedOnce' /\ TracesAccounted'
    BY <1>1, <2>1, <2>2 DEF IInv, Named, Learnt, Passed, DocFoldedOnce, TracesAccounted
  <2>. QED BY <2>2, <2>3, <2>4 DEF IInv
<1>6. ASSUME i # 0
      PROVE  /\ i \in Ids /\ site[i] \in Sites
             /\ params' = [params EXCEPT ![site[i]] = @ \cup {t}]
             /\ params' \in [Sites -> SUBSET Types]
             /\ \A s \in Sites : params'[s] = params[s] \/ bound[s] = i
             /\ folded' = [folded EXCEPT ![i] = IF First(i) THEN @ + 1 ELSE @]
  <2>1. i \in Ids /\ site[i] = Statement.site
    BY <1>3, <1>4, <1>6
  <2>2. /\ params' = [params EXCEPT ![site[i]] = @ \cup {t}]
        /\ folded' = [folded EXCEPT ![i] = IF First(i) THEN @ + 1 ELSE @]
    BY <1>6 DEF Call
  <2>. QED BY <1>2, <2>1, <2>2 DEF IInv, TypeOK
<1>7. CASE i # 0 /\ (First(i) \/ Again(i, t))
  <2>1. /\ Enter(i, Advanced)
        /\ known' = [known EXCEPT ![i] = params'[site[i]]]
        /\ missed' = missed \ {i}
    BY <1>7 DEF Call
  <2>2. i \in traces /\ (First(i) <=> i \notin resolved)
    BY <1>7 DEF First, Again
  <2>3. folded' = [folded EXCEPT ![i] = IF i \in resolved THEN @ ELSE @ + 1]
    BY <1>6, <1>7, <2>2
  <2>4. next \in Nat /\ next <= Len(site) + 1
    BY DEF IInv, TypeOK, Passed
  <2>. QED BY <1>1, <1>6, <1>7, <2>1, <2>2, <2>3, <2>4, EnterKeeps
<1>8. CASE i # 0 /\ ~ (First(i) \/ Again(i, t))
  <2>1. /\ stack' = Advanced
        /\ missed' = IF i \in traces \/ t \in params[site[i]] THEN missed
                     ELSE missed \cup {i}
        /\ UNCHANGED <<traces, known>>
    BY <1>8 DEF Call
  <2>2. folded' = folded
    BY <1>6, <1>8 DEF IInv, TypeOK
  <2>3. /\ stack' \in Seq(Frames) /\ Running' = Running /\ Walks'
        /\ \A m, n \in DOMAIN stack' : stack'[m].id = stack'[n].id => m = n
    BY <1>1, <2>1, AdvanceKeeps
  <2>4. TypeOK'
    BY <1>1, <1>6, <1>8, <2>1, <2>2, <2>3 DEF IInv, TypeOK
  <2>5. Named' /\ Passed' /\ DocFoldedOnce' /\ TracesAccounted'
    BY <1>1, <2>1, <2>2, <2>3 DEF IInv, Named, Passed, DocFoldedOnce, TracesAccounted
  <2>6. params' = params \/ i \in missed'
    <3>1. CASE t \in params[site[i]]
      <4>1. params[site[i]] \cup {t} = params[site[i]]
        BY <3>1
      <4>. QED BY ZenonT(60), <1>6, <1>8, <4>1 DEF IInv, TypeOK
    <3>2. CASE t \notin params[site[i]]
      BY <1>8, <2>1, <3>2 DEF First, Again
    <3>. QED BY <3>1, <3>2
  <2>7. Learnt'
    BY <1>1, <1>6, <1>8, <2>1, <2>3, <2>6 DEF IInv, TypeOK, Learnt
  <2>. QED BY <2>3, <2>4, <2>5, <2>7 DEF IInv
<1>. QED BY <1>3, <1>5, <1>7, <1>8

(* A walk that ends leaves its function resolved, and its trace there.     *)
LEMMA ReturnKeeps == ASSUME IInv, Return PROVE IInv'
<1> DEFINE i == Top.id
           L == Len(stack)
<1>1. /\ L > 0 /\ i # 0
      /\ resolved' = resolved \cup {i}
      /\ traces' = traces \cup {i}
      /\ stack' = SubSeq(stack, 1, L - 1)
      /\ UNCHANGED <<body, site, bound, params, next, history>> /\ Ids' = Ids
  BY DEF Return, Ids
<1>2. stack \in Seq(Frames) /\ L \in Nat /\ L # 0 /\ DOMAIN stack = 1..L /\ i = stack[L].id
  BY <1>1 DEF IInv, TypeOK, Top
<1>3. i \in Ids
  BY <1>1, <1>2 DEF IInv, Walks
<1>4. /\ stack' \in Seq(Frames) /\ Len(stack') = L - 1
      /\ \A n \in 1..L - 1 : stack'[n] = stack[n]
  <2>1. \A n \in 1..L - 1 : stack[n] \in Frames
    BY <1>2
  <2>2. /\ SubSeq(stack, 1, L - 1) \in Seq(Frames)
        /\ Len(SubSeq(stack, 1, L - 1)) = L - 1
        /\ \A n \in 1..L - 1 : SubSeq(stack, 1, L - 1)[n] = stack[n]
    BY <1>2, <2>1
  <2>3. stack' = SubSeq(stack, 1, L - 1)
    BY <1>1
  <2>. QED BY <2>2, <2>3, Zenon
<1>5. DOMAIN stack' = 1..L - 1 /\ DOMAIN stack' = DOMAIN stack \ {L}
  <2>1. DOMAIN stack' = 1..L - 1
    BY <1>4
  <2>. QED BY <1>2, <2>1
<1>6. Running' = Running \ {i}
  <2>1. \A n \in DOMAIN stack' : stack'[n].id # i
    BY <1>2, <1>4, <1>5 DEF IInv, TracesAccounted
  <2>2. Running = {stack[n].id : n \in DOMAIN stack'} \cup {i}
    BY <1>2, <1>5 DEF Running
  <2>3. Running' = {stack[n].id : n \in DOMAIN stack'}
    BY <1>4, <1>5 DEF Running
  <2>. QED BY <1>4, <1>5, <2>1, <2>2, <2>3
<1>7. TypeOK'
  BY <1>1, <1>3, <1>4 DEF history, IInv, TypeOK
<1>8. Walks'
  <2>1. ASSUME next' = 0 PROVE stack' # << >>
    <3>1. stack[1].id = 0
      BY <1>1, <1>2, <2>1 DEF IInv, Walks
    <3>2. L # 1
      BY <1>1, <1>2, <3>1
    <3>. QED BY <1>2, <1>4, <3>2
  <2>2. \A n \in DOMAIN stack' : stack'[n] = stack[n] /\ n \in DOMAIN stack
    BY <1>4, <1>5
  <2>. QED BY <1>1, <2>1, <2>2 DEF IInv, Walks
<1>9. Named' /\ Learnt' /\ Passed' /\ DocFoldedOnce'
  <2>1. i \in Running /\ resolved' \cup Running' = resolved \cup Running
    <3>1. i \in Running
      BY <1>2 DEF Running
    <3>. QED BY <1>1, <1>6, <3>1
  <2>2. UNCHANGED <<site, bound, params, next, folded, known, missed>>
    BY <1>1 DEF history
  <2>. QED BY <1>1, <2>1, <2>2 DEF IInv, Named, Learnt, Passed, DocFoldedOnce
<1>10. TracesAccounted'
  BY <1>1, <1>4, <1>5, <1>6 DEF IInv, TracesAccounted
<1>. QED BY <1>7, <1>8, <1>9, <1>10 DEF IInv

(* Only the walk of the file is left when it ends.                         *)
LEMMA EndFileKeeps == ASSUME IInv, EndFile PROVE IInv'
<1>1. /\ Len(stack) > 0 /\ Top.id = 0
      /\ next' = 1 /\ stack' = << >>
      /\ UNCHANGED <<body, bookkeeping, params, history>> /\ Ids' = Ids
  BY DEF EndFile, bookkeeping, Ids
<1>2. stack \in Seq(Frames) /\ Len(stack) \in DOMAIN stack /\ stack[Len(stack)].id = 0
  BY <1>1 DEF IInv, TypeOK, Top
<1>3. Len(stack) = 1
  BY <1>2 DEF IInv, Walks
<1>4. Running = {0}
  BY <1>2, <1>3 DEF Running
<1>5. stack' \in Seq(Frames) /\ DOMAIN stack' = {} /\ Running' = {}
  BY <1>1 DEF Running
<1>6. 0 \notin Ids
  BY RunningIds
<1>7. TypeOK'
  BY <1>1, <1>5 DEF bookkeeping, history, IInv, TypeOK
<1>8. Walks'
  BY <1>1, <1>5 DEF Walks
<1>9. Named' /\ Learnt' /\ DocFoldedOnce' /\ TracesAccounted'
  BY <1>1, <1>4, <1>5, <1>6
     DEF bookkeeping, history, IInv, TypeOK, Named, Learnt, DocFoldedOnce, TracesAccounted
<1>10. Passed'
  BY <1>1 DEF bookkeeping, IInv, TypeOK, Passed, Ids
<1>. QED BY <1>7, <1>8, <1>9, <1>10 DEF IInv

LEMMA SkipKeeps == ASSUME IInv, Skip PROVE IInv'
<1>1. /\ next \in Ids /\ next \in resolved /\ next' = next + 1 /\ stack = << >>
      /\ UNCHANGED <<body, stack, bookkeeping, params, history>> /\ Ids' = Ids
  BY DEF Skip, AtBackstop, bookkeeping, Ids
<1>2. Ids = 1..Len(site) /\ Len(site) \in Nat /\ next # 0
  BY <1>1 DEF IInv, TypeOK, Ids
<1>3. UNCHANGED Running
  BY <1>1 DEF Running
<1>4. TypeOK' /\ Walks'
  BY <1>1, <1>2 DEF bookkeeping, history, IInv, TypeOK, Walks
<1>5. Named' /\ Learnt' /\ DocFoldedOnce' /\ TracesAccounted'
  BY <1>1, <1>3 DEF bookkeeping, history, IInv, Named, Learnt, DocFoldedOnce, TracesAccounted
<1>6. Passed'
  BY <1>1, <1>2, <1>3 DEF bookkeeping, IInv, TypeOK, Passed
<1>. QED BY <1>4, <1>5, <1>6 DEF IInv

(* The trace of a function that was never walked is there.                 *)
LEMMA WalkUncalledKeeps == ASSUME IInv, WalkUncalled PROVE IInv'
<1>1. /\ stack = << >> /\ next \in Ids /\ next \notin resolved /\ next' = next + 1
      /\ UNCHANGED <<body, site, resolved, bound, params>>
  BY DEF WalkUncalled, AtBackstop
<1>2. next \in traces
  <2>1. DOMAIN stack = {}
    BY <1>1
  <2>2. Running = {}
    BY <2>1 DEF Running
  <2>. QED BY <1>1, <2>2 DEF IInv, TracesAccounted
<1>3. /\ Enter(next, << >>)
      /\ folded' = [folded EXCEPT ![next] = @ + 1]
      /\ known' = [known EXCEPT ![next] = params[site[next]]]
      /\ missed' = missed \ {next}
  BY <1>2 DEF WalkUncalled
<1>4. Ids = 1..Len(site) /\ Len(site) \in Nat /\ next \in 1..Len(site)
  BY <1>1 DEF IInv, TypeOK, Ids
<1>5. /\ next' \in Nat /\ next' <= Len(site) + 1 /\ (next' = 0 <=> next = 0)
      /\ \A j \in Ids : j < next' => j < next \/ j = next
  BY <1>1, <1>4
<1>6. params \in [Sites -> SUBSET Types]
  BY DEF IInv, TypeOK
<1>. QED BY <1>1, <1>2, <1>3, <1>5, <1>6, EnterKeeps

LEMMA NextIInv == IInv /\ [Next]_vars => IInv'
<1> SUFFICES ASSUME IInv, [Next]_vars PROVE IInv'
  OBVIOUS
<1>1. CASE UNCHANGED vars
  BY <1>1 DEF vars, bookkeeping, history, IInv, TypeOK, Walks, Named, Learnt, Passed,
              TracesAccounted, DocFoldedOnce, Running, Ids
<1>2. CASE Next
  BY <1>2, DeclareKeeps, ErrorKeeps, CallKeeps, ReturnKeeps, EndFileKeeps, SkipKeeps,
     WalkUncalledKeeps
     DEF Next
<1>. QED BY <1>1, <1>2

-----------------------------------------------------------------------------
(* Theorems *)

THEOREM Invariance == Spec => []IInv
BY InitIInv, NextIInv, PTL DEF Spec

(* A body is never walked inside a walk of itself, however functions call  *)
(* each other, and no trace is lost.                                       *)
THEOREM TracesAccountedHolds == Spec => []TracesAccounted
BY Invariance, PTL DEF IInv

(* The doc of a function is folded in once, before its first walk.         *)
THEOREM DocFoldedOnceHolds == Spec => []DocFoldedOnce
BY Invariance, PTL DEF IInv

(* At the end every function that was ever collected was walked.           *)
THEOREM EveryBodyWalkedHolds == Spec => []EveryBodyWalked
<1>1. IInv => EveryBodyWalked
  <2> SUFFICES ASSUME IInv, stack = << >>, next = Len(site) + 1
               PROVE  resolved = Ids /\ traces = Ids
    BY DEF EveryBodyWalked, Done
  <2>1. Running = {}
    BY DEF Running
  <2>2. \A i \in Ids : i < next
    BY DEF IInv, TypeOK, Ids
  <2>. QED BY <2>1, <2>2 DEF IInv, TypeOK, Passed, TracesAccounted
<1>. QED BY <1>1, Invariance, PTL

(* At the end the function that a name stands for was walked with all the  *)
(* types its calls taught it, but those it was taught during that walk.    *)
THEOREM LastWalkKnowsHolds == Spec => []LastWalkKnows
<1>1. IInv => LastWalkKnows
  <2> SUFFICES ASSUME IInv, stack = << >>, next = Len(site) + 1,
                      NEW s \in Sites, bound[s] # 0
               PROVE  known[bound[s]] = params[s] \/ bound[s] \in missed
    BY DEF LastWalkKnows, Done
  <2>1. Running = {}
    BY DEF Running
  <2>2. bound[s] \in Ids /\ bound[s] < next
    BY DEF IInv, TypeOK, Ids
  <2>3. bound[s] \in resolved
    BY <2>1, <2>2 DEF IInv, Passed
  <2>. QED BY <2>3 DEF IInv, Learnt
<1>. QED BY <1>1, Invariance, PTL

-----------------------------------------------------------------------------
(* Diagnostics *)

Declares(s, m, c) ==
  m \in DOMAIN body[s] /\ body[s][m].op = "declare" /\ body[s][m].site = c
Within(s, c) == s = c \/ s \in Inside(c)
Collected == {site[i] : i \in Ids}
Waiting == Ids \ (resolved \cup Running)

(* The diagnostics that a walk of s has found before its statement pc.     *)
Marked(s, pc) == {n \in DOMAIN body[s] : n < pc /\ body[s][n].op = "error"}
Before(s, pc) == Cardinality(Marked(s, pc))

(* A frame walks the body of its function.                                 *)
Sited ==
  \A n \in DOMAIN stack :
    stack[n].site = IF stack[n].id = 0 THEN File ELSE site[stack[n].id]

(* A function was collected in the body of its parent, which was walked.   *)
Rooted ==
  \A s \in Collected :
    /\ s # File /\ \E m \in Nat : Declares(Parent[s], m, s)
    /\ Parent[s] = File \/ Parent[s] \in Collected

(* A walk to come, or what is left of one, collects the function at s anew *)
(* or one that s lies in.                                                  *)
Passes(f, s) == \E m \in Nat, c \in Sites : m >= f.pc /\ Declares(f.site, m, c) /\ Within(s, c)
Due(s) ==
  \/ \E i \in Waiting : s \in Inside(site[i])
  \/ \E n \in DOMAIN stack : Passes(stack[n], s)

(* The diagnostics of s are there, or those that its walk has come to, or  *)
(* it is to be walked.                                                     *)
Marks(f, s) == f.site = s /\ errors[s] >= Before(s, f.pc)
Fresh(s) ==
  \/ errors[s] >= OwnErrors(s)
  \/ \E i \in Waiting : site[i] = s
  \/ \E n \in DOMAIN stack : Marks(stack[n], s)

(* What was purged comes again.                                            *)
Kept == \A s \in Collected : Due(s) \/ (Fresh(s) /\ bound[s] \notin stale)

(* The functions of the file are collected once,                           *)
Single == \A i, j \in Ids : site[i] = site[j] /\ Parent[site[i]] = File => i = j
Ahead ==
  next = 0 => \A s \in Collected : Parent[s] = File =>
                \E m \in Nat : m < stack[1].pc /\ Declares(File, m, s)

(* and have the diagnostics of their last walk.                            *)
Exact ==
  /\ \A s \in Sites \ {File} : s \in Collected \/ errors[s] = 0
  /\ \A i \in Ids : Parent[site[i]] = File =>
       /\ i \in Waiting => errors[site[i]] = 0
       /\ i \in resolved \ Running => errors[site[i]] = OwnErrors(site[i])
       /\ \A n \in DOMAIN stack :
            stack[n].id = i => errors[site[i]] = Before(site[i], stack[n].pc)

Diagnosed ==
  /\ body \in Programs /\ errors \in [Sites -> Nat] /\ stale \subseteq Ids
  /\ Sited /\ Rooted /\ Kept /\ Single /\ Ahead /\ Exact

(* A walk marks one diagnostic more at each statement that is worth one.   *)
LEMMA Marking ==
  ASSUME TypeOK, NEW s \in Sites, NEW pc \in Nat \ {0}
  PROVE  /\ Before(s, pc) \in Nat /\ Before(s, 1) = 0
         /\ pc > Len(body[s]) => Before(s, pc) = OwnErrors(s)
         /\ pc <= Len(body[s]) =>
              Before(s, pc + 1) = IF body[s][pc].op = "error" THEN Before(s, pc) + 1 ELSE Before(s, pc)
<1>1. /\ body[s] \in Seq(Statements) /\ Len(body[s]) \in Nat
      /\ DOMAIN body[s] = 1..Len(body[s])
  BY DEF TypeOK
<1>2. ASSUME NEW q \in Nat PROVE IsFiniteSet(Marked(s, q)) /\ Before(s, q) \in Nat
  <2>1. Marked(s, q) \subseteq 1..Len(body[s])
    BY <1>1 DEF Marked
  <2>2. IsFiniteSet(1..Len(body[s]))
    BY <1>1, FS_Interval
  <2>. QED BY <2>1, <2>2, FS_Subset, FS_CardinalityType DEF Before
<1>3. Before(s, 1) = 0
  <2>1. Marked(s, 1) = {}
    BY <1>1 DEF Marked
  <2>. QED BY <2>1, FS_EmptySet DEF Before
<1>4. ASSUME pc > Len(body[s]) PROVE Before(s, pc) = OwnErrors(s)
  <2>1. Marked(s, pc) = {n \in DOMAIN body[s] : body[s][n].op = "error"}
    BY <1>1, <1>4 DEF Marked
  <2>. QED BY <2>1 DEF Before, OwnErrors
<1>5. ASSUME pc <= Len(body[s])
      PROVE  Before(s, pc + 1) = IF body[s][pc].op = "error" THEN Before(s, pc) + 1 ELSE Before(s, pc)
  <2>1. CASE body[s][pc].op = "error"
    <3>1. Marked(s, pc + 1) = Marked(s, pc) \cup {pc} /\ pc \notin Marked(s, pc)
      BY <1>1, <1>5, <2>1 DEF Marked
    <3>. QED BY <1>2, <2>1, <3>1, FS_AddElement DEF Before
  <2>2. CASE body[s][pc].op # "error"
    <3>1. Marked(s, pc + 1) = Marked(s, pc)
      BY <1>1, <1>5, <2>2 DEF Marked
    <3>. QED BY <2>2, <3>1 DEF Before
  <2>. QED BY <2>1, <2>2
<1>. QED BY <1>2, <1>3, <1>4, <1>5

(* Inside is closed downwards, and what is in it has its parent in it.     *)
LEMMA Nesting ==
  ASSUME NEW p \in Sites
  PROVE  /\ Inside(p) \subseteq Sites \ {p, File}
         /\ \A s \in Sites \ {File} : Within(Parent[s], p) => Within(s, p)
         /\ \A s \in Inside(p) : Within(Parent[s], p)
<1>1. Inside(p) \subseteq Sites \ {p}
  BY DEF Inside
<1>2. ASSUME NEW s \in Sites \ {File}, Within(Parent[s], p) PROVE Within(s, p)
  <2>1. ASSUME NEW S \in SUBSET Sites, p \in S, Closed(S) PROVE s \in S
    <3>1. Parent[s] \in S
      BY <1>2, <2>1 DEF Within, Inside
    <3>. QED BY <2>1, <3>1 DEF Closed
  <2>. QED BY <2>1 DEF Within, Inside
<1>3. ASSUME NEW s \in Inside(p) PROVE s # File /\ Within(Parent[s], p)
  <2> DEFINE S == {p} \cup {t \in Inside(p) : t # File /\ Within(Parent[t], p)}
  <2>1. S \in SUBSET Sites /\ p \in S
    BY <1>1
  <2>2. Closed(S)
    <3> SUFFICES ASSUME NEW t \in Sites \ {File}, Parent[t] \in S PROVE t \in S
      BY DEF Closed
    <3>1. Within(Parent[t], p)
      BY DEF Within
    <3>2. Within(t, p)
      BY <1>2, <3>1
    <3>. QED BY <3>1, <3>2 DEF Within
  <2>3. s \in S
    BY <2>1, <2>2 DEF Inside
  <2>. QED BY <1>1, <2>3
<1>. QED BY <1>1, <1>2, <1>3

(* A walk of p passes every collected function inside p.                   *)
LEMMA Passing ==
  ASSUME TypeOK, Rooted, NEW p \in Sites, NEW s \in Inside(p), s \in Collected
  PROVE  Passes(Frame(0, p, 1), s)
<1> DEFINE Found(t) == \E m \in Nat, c \in Sites : Declares(p, m, c) /\ Within(t, c)
           S == {t \in Sites : t = p \/ (t # File /\ (t \in Collected => Found(t)))}
<1>1. S \in SUBSET Sites /\ p \in S
  OBVIOUS
<1>2. Closed(S)
  <2> SUFFICES ASSUME NEW t \in Sites \ {File}, Parent[t] \in S, t \in Collected PROVE Found(t)
    BY DEF Closed
  <2>1. CASE Parent[t] = p
    BY <2>1 DEF Rooted, Within
  <2>2. CASE Parent[t] # p
    <3>1. Found(Parent[t])
      BY <2>2 DEF Rooted
    <3>2. PICK m \in Nat, c \in Sites : Declares(p, m, c) /\ Within(Parent[t], c)
      BY <3>1
    <3>3. Within(t, c)
      BY <3>2, Nesting
    <3>. QED BY <3>2, <3>3
  <2>. QED BY <2>1, <2>2
<1>3. s \in S /\ s # p
  BY <1>1, <1>2 DEF Inside
<1>4. PICK m \in Nat, c \in Sites : Declares(p, m, c) /\ Within(s, c)
  BY <1>3
<1>5. m >= 1
  BY <1>4 DEF TypeOK, Declares
<1>. QED BY <1>4, <1>5 DEF Passes, Frame

(* The statement that the innermost walk has come to.                      *)
LEMMA AtStatement ==
  ASSUME TypeOK, stack # << >>, Top.pc <= Len(body[Top.site])
  PROVE  /\ Len(stack) \in DOMAIN stack /\ Top = stack[Len(stack)] /\ Top \in Frames
         /\ Top.pc \in DOMAIN body[Top.site] /\ Statement \in Statements
<1>1. /\ Len(stack) \in DOMAIN stack /\ Top \in Frames /\ Top = stack[Len(stack)]
  BY AdvancedStack DEF TypeOK, Top
<1>2. body[Top.site] \in Seq(Statements)
  BY <1>1 DEF Frames, TypeOK
<1>3. Top.pc \in DOMAIN body[Top.site]
  BY <1>1, <1>2 DEF Frames
<1>. QED BY <1>1, <1>2, <1>3 DEF Statement

(* A frame.                                                                *)
LEMMA FrameType ==
  ASSUME TypeOK, NEW n \in DOMAIN stack
  PROVE  stack[n].id \in Nat /\ stack[n].site \in Sites /\ stack[n].pc \in Nat \ {0}
<1>1. stack[n] \in Frames
  BY DEF TypeOK
<1>. QED BY <1>1 DEF Frames

(* A function that was collected is not the file.                          *)
LEMMA IdType ==
  ASSUME TypeOK, Rooted, NEW i \in Ids
  PROVE  site[i] \in Sites /\ site[i] # File /\ site[i] \in Collected
<1>1. site[i] \in Sites
  BY DEF TypeOK, Ids
<1>2. site[i] \in Collected
  BY DEF Collected
<1>. QED BY <1>1, <1>2 DEF Rooted

(* The walks go on: each where it was, the innermost one perhaps with its  *)
(* next statement; a new one may be on top of them.                        *)
GoesOn(n) ==
  /\ n \in DOMAIN stack'
  /\ stack'[n].id = stack[n].id /\ stack'[n].site = stack[n].site
  /\ stack'[n].pc = IF n = Len(stack) THEN stack[n].pc + 1 ELSE stack[n].pc
Going == \A n \in DOMAIN stack : GoesOn(n)

(* A statement that enters nothing.                                        *)
LEMMA AdvanceGoes ==
  ASSUME TypeOK, stack # << >>, stack' = Advanced
  PROVE  Going /\ DOMAIN stack' = DOMAIN stack
<1>1. Len(stack) \in Nat \ {0} /\ stack \in Seq(Frames) /\ Top \in Frames
  BY AdvancedStack DEF TypeOK
<1> DEFINE top == [Top EXCEPT !.pc = @ + 1]
<1>2. top.id = Top.id /\ top.site = Top.site /\ top.pc = Top.pc + 1
  BY <1>1 DEF Frames
<1>3. stack' = [stack EXCEPT ![Len(stack)] = top]
  BY DEF Advanced, Top
<1> HIDE DEF top
<1>4. DOMAIN stack' = DOMAIN stack /\ \A n \in DOMAIN stack : stack'[n] = IF n = Len(stack) THEN top ELSE stack[n]
  BY <1>1, <1>3
<1>. QED BY <1>2, <1>4 DEF Going, GoesOn, Top

(* A function that is entered.                                             *)
LEMMA EnterGoes ==
  ASSUME TypeOK, NEW i \in Ids, Enter(i, IF stack = << >> THEN << >> ELSE Advanced)
  PROVE  /\ Going
         /\ DOMAIN stack' = DOMAIN stack \cup {Len(stack) + 1}
         /\ stack'[Len(stack) + 1] = Frame(i, site[i], 1)
<1> DEFINE rest == IF stack = << >> THEN << >> ELSE Advanced
<1>1. /\ rest \in Seq(Frames) /\ Len(rest) = Len(stack) /\ Len(stack) \in Nat
  BY AdvancedStack DEF TypeOK
<1>2. Frame(i, site[i], 1) \in Frames
  BY DEF TypeOK, Frames, Frame, Ids
<1>3. stack' = Append(rest, Frame(i, site[i], 1))
  BY DEF Enter
<1>4. Len(stack) = 0 <=> stack = << >>
  BY DEF TypeOK
<1>5. DOMAIN stack = 1..Len(stack)
  BY DEF TypeOK
<1> HIDE DEF rest
<1>6. /\ stack' \in Seq(Frames) /\ Len(stack') = Len(stack) + 1
      /\ \A n \in 1..Len(stack) : stack'[n] = rest[n]
      /\ stack'[Len(stack) + 1] = Frame(i, site[i], 1)
  BY <1>1, <1>2, <1>3, AppendProperties
<1>7. DOMAIN stack' = DOMAIN stack \cup {Len(stack) + 1}
  BY <1>1, <1>5, <1>6
<1>8. ASSUME NEW n \in DOMAIN stack PROVE GoesOn(n)
  <2>1. stack # << >>
    BY <1>4, <1>5
  <2>2. rest = Advanced
    BY <2>1 DEF rest
  <2>3. Advanced \in Seq(Frames) /\ DOMAIN Advanced = DOMAIN stack
    BY <1>1, <1>5, <2>2
  <2>4. /\ Advanced[n].id = stack[n].id /\ Advanced[n].site = stack[n].site
        /\ Advanced[n].pc = IF n = Len(stack) THEN stack[n].pc + 1 ELSE stack[n].pc
    <3>1. stack \in Seq(Frames) /\ Top \in Frames /\ Len(stack) \in 1..Len(stack)
      BY <2>1, AdvancedStack DEF TypeOK
    <3> DEFINE top == [Top EXCEPT !.pc = @ + 1]
    <3>2. top.id = Top.id /\ top.site = Top.site /\ top.pc = Top.pc + 1
      BY <3>1 DEF Frames
    <3>3. Advanced = [stack EXCEPT ![Len(stack)] = top]
      BY DEF Advanced, Top
    <3> HIDE DEF top
    <3>4. Advanced[n] = IF n = Len(stack) THEN top ELSE stack[n]
      BY <3>1, <3>3
    <3>. QED BY <3>2, <3>4 DEF Top
  <2>5. n \in DOMAIN stack' /\ stack'[n] = Advanced[n]
    BY <1>5, <1>6, <1>7, <2>2
  <2>. QED BY <2>4, <2>5 DEF GoesOn
<1>. QED BY <1>6, <1>7, <1>8 DEF Going

(* What is due stays due, unless the function collected now is what it     *)
(* waited for, or the walk that begins.                                    *)
LEMMA DueStays ==
  ASSUME TypeOK, Going, body' = body, NEW s, Due(s),
         stack # << >> => Top.pc <= Len(body[Top.site]) /\
                          ~ (Statement.op = "declare" /\ Within(s, Statement.site)),
         \A j \in Waiting : s \in Inside(site[j]) => j \in Waiting' /\ site'[j] = site[j]
  PROVE  Due(s)'
<1>1. CASE \E j \in Waiting : s \in Inside(site[j])
  BY <1>1 DEF Due
<1>2. CASE \E n \in DOMAIN stack : Passes(stack[n], s)
  <2>1. PICK n \in DOMAIN stack : Passes(stack[n], s)
    BY <1>2
  <2>2. PICK m \in Nat, c \in Sites : m >= stack[n].pc /\ Declares(stack[n].site, m, c) /\ Within(s, c)
    BY <2>1 DEF Passes
  <2>3. n \in DOMAIN stack' /\ stack'[n].site = stack[n].site
        /\ stack'[n].pc = IF n = Len(stack) THEN stack[n].pc + 1 ELSE stack[n].pc
    BY DEF Going, GoesOn
  <2>4. m >= stack'[n].pc
    <3>1. CASE n # Len(stack)
      BY <2>2, <2>3, <3>1
    <3>2. CASE n = Len(stack)
      <4>1. stack # << >> /\ stack[n].pc \in Nat /\ Top = stack[n]
        BY <3>2, AtStatement DEF TypeOK, Frames, Top
      <4>2. m # stack[n].pc
        BY <2>2, <4>1 DEF Declares, Statement
      <4>. QED BY <2>2, <2>3, <4>1, <4>2
    <3>. QED BY <3>1, <3>2
  <2>5. Declares(stack[n].site, m, c)'
    BY <2>2, <2>3 DEF Declares
  <2>6. Passes(stack[n], s)'
    BY <2>2, <2>4, <2>5 DEF Passes
  <2>. QED BY <2>3, <2>6 DEF Due
<1>. QED BY <1>1, <1>2 DEF Due

(* The diagnostics of s that are there stay there.                         *)
LEMMA FreshStays ==
  ASSUME TypeOK, errors \in [Sites -> Nat], Going, body' = body, NEW s \in Sites, Fresh(s),
         errors'[s] \in Nat, errors'[s] >= errors[s],
         stack # << >> =>
           /\ Top.pc <= Len(body[Top.site])
           /\ Statement.op = "error" /\ Top.site = s => errors'[s] >= errors[s] + 1,
         \A j \in Waiting : site[j] = s => j \in Waiting' /\ site'[j] = site[j]
  PROVE  Fresh(s)'
<1>1. OwnErrors(s) \in Nat /\ OwnErrors(s)' = OwnErrors(s)
  <2>1. OwnErrors(s)' = OwnErrors(s)
    BY DEF OwnErrors
  <2>2. Len(body[s]) + 1 \in Nat \ {0} /\ Len(body[s]) + 1 > Len(body[s])
    BY DEF TypeOK
  <2>3. Before(s, Len(body[s]) + 1) \in Nat /\ Before(s, Len(body[s]) + 1) = OwnErrors(s)
    BY <2>2, Marking
  <2>. QED BY <2>1, <2>3
<1>2. CASE errors[s] >= OwnErrors(s)
  <2>1. errors'[s] >= OwnErrors(s)
    BY <1>1, <1>2
  <2>. QED BY <1>1, <2>1 DEF Fresh
<1>3. CASE \E j \in Waiting : site[j] = s
  BY <1>3 DEF Fresh
<1>4. CASE \E n \in DOMAIN stack : Marks(stack[n], s)
  <2>1. PICK n \in DOMAIN stack : stack[n].site = s /\ errors[s] >= Before(s, stack[n].pc)
    BY <1>4 DEF Marks
  <2>2. n \in DOMAIN stack' /\ stack'[n].site = s
        /\ stack'[n].pc = IF n = Len(stack) THEN stack[n].pc + 1 ELSE stack[n].pc
    BY <2>1 DEF Going, GoesOn
  <2>3. stack[n].pc \in Nat \ {0}
    BY FrameType
  <2>4. errors'[s] >= Before(s, stack'[n].pc)
    <3>1. CASE n # Len(stack)
      BY <2>1, <2>2, <2>3, <3>1, Marking
    <3>2. CASE n = Len(stack)
      <4>1. stack # << >> /\ Top = stack[n]
        BY <3>2 DEF TypeOK, Top
      <4>2. Statement = body[s][stack[n].pc] /\ Top.site = s /\ stack[n].pc <= Len(body[s])
        BY <2>1, <4>1 DEF Statement
      <4>3. Before(s, stack'[n].pc) =
              IF Statement.op = "error" THEN Before(s, stack[n].pc) + 1 ELSE Before(s, stack[n].pc)
        BY <2>2, <2>3, <3>2, <4>2, Marking
      <4>4. Before(s, stack[n].pc) \in Nat
        BY <2>3, Marking
      <4>. QED BY <2>1, <4>1, <4>2, <4>3, <4>4
    <3>. QED BY <3>1, <3>2
  <2>5. Before(s, stack[n].pc)' = Before(s, stack'[n].pc)
    BY DEF Before, Marked
  <2>6. Marks(stack[n], s)'
    BY <2>2, <2>4, <2>5 DEF Marks
  <2>. QED BY <2>2, <2>6 DEF Fresh
<1>. QED BY <1>2, <1>3, <1>4 DEF Fresh

(* A function of the file is walked under one number.                      *)
LEMMA OneNumber ==
  ASSUME IInv, Sited, Rooted, Single, NEW i \in Ids, Parent[site[i]] = File,
         NEW n \in DOMAIN stack, stack[n].site = site[i]
  PROVE  stack[n].id = i
<1>1. site[i] # File
  BY DEF Rooted, Collected
<1>2. stack[n].id \in Ids /\ site[stack[n].id] = site[i]
  BY <1>1 DEF IInv, Walks, Sited
<1>. QED BY <1>2 DEF Single

(* The innermost walk goes on with its next statement, which declares      *)
(* nothing and enters nothing.                                             *)
LEMMA AdvanceDiagnosed ==
  ASSUME IInv, Diagnosed, stack # << >>, Top.pc <= Len(body[Top.site]),
         Statement.op # "declare", stack' = Advanced,
         UNCHANGED <<body, site, resolved, bound, stale, next>>,
         errors' = [errors EXCEPT ![Top.site] = IF Statement.op = "error" THEN @ + 1 ELSE @]
  PROVE  Diagnosed'
<1>1. /\ Going /\ DOMAIN stack' = DOMAIN stack /\ Running' = Running
      /\ Len(stack) \in DOMAIN stack /\ Top = stack[Len(stack)] /\ Top \in Frames
  BY AdvanceGoes, AdvanceRuns, AtStatement DEF IInv
<1>2. Ids' = Ids /\ Waiting' = Waiting /\ Collected' = Collected
  BY <1>1 DEF Ids, Waiting, Collected
<1>3. /\ errors' \in [Sites -> Nat]
      /\ \A s \in Sites : errors'[s] =
           IF s = Top.site /\ Statement.op = "error" THEN errors[s] + 1 ELSE errors[s]
  BY <1>1 DEF Diagnosed, Frames
<1>4. Sited'
  BY <1>1 DEF Diagnosed, Sited, Going, GoesOn
<1>5. Rooted' /\ Single'
  BY <1>2 DEF Diagnosed, Rooted, Single, Declares
<1>6. Kept'
  <2> SUFFICES ASSUME NEW s \in Collected
               PROVE  Due(s)' \/ (Fresh(s)' /\ bound'[s] \notin stale')
    BY <1>2 DEF Kept
  <2>1. s \in Sites
    BY DEF IInv, TypeOK, Collected, Ids
  <2>2. Due(s) => Due(s)'
    BY <1>1, <1>2, DueStays DEF IInv
  <2>3. errors'[s] \in Nat /\ errors'[s] >= errors[s]
        /\ (Statement.op = "error" /\ Top.site = s => errors'[s] >= errors[s] + 1)
    BY <1>3, <2>1 DEF Diagnosed
  <2>4. Fresh(s) => Fresh(s)'
    BY <1>1, <1>2, <2>1, <2>3, FreshStays DEF IInv, Diagnosed
  <2>. QED BY <2>2, <2>4 DEF Diagnosed, Kept
<1>7. Ahead'
  <2> SUFFICES ASSUME next = 0, NEW s \in Collected, Parent[s] = File
               PROVE  \E m \in Nat : m < stack'[1].pc /\ Declares(File, m, s)'
    BY <1>2 DEF Ahead
  <2>1. PICK m \in Nat : m < stack[1].pc /\ Declares(File, m, s)
    BY DEF Diagnosed, Ahead
  <2>2. 1 \in DOMAIN stack /\ stack[1].pc \in Nat
    <3>1. 1 \in DOMAIN stack
      BY <1>1 DEF IInv, TypeOK
    <3>. QED BY <3>1, FrameType DEF IInv
  <2>3. stack'[1].pc = IF 1 = Len(stack) THEN stack[1].pc + 1 ELSE stack[1].pc
    BY <1>1, <2>2 DEF Going, GoesOn
  <2>. QED BY <2>1, <2>2, <2>3 DEF Declares
<1>8. Exact'
  <2>1. ASSUME NEW s \in Sites \ {File} PROVE s \in Collected' \/ errors'[s] = 0
    <3>1. Top.site = s => s \in Collected
      BY <1>1 DEF IInv, Walks, Diagnosed, Sited, Collected
    <3>. QED BY <1>2, <1>3, <3>1 DEF Diagnosed, Exact
  <2>2. ASSUME NEW i \in Ids, Parent[site[i]] = File
        PROVE  /\ i \in Waiting => errors'[site[i]] = 0
               /\ i \in resolved \ Running => errors'[site[i]] = OwnErrors(site[i])'
               /\ \A n \in DOMAIN stack' :
                    stack'[n].id = i => errors'[site[i]] = Before(site[i], stack'[n].pc)
    <3> DEFINE s == site[i]
    <3>1. s \in Sites /\ s # File
      BY IdType DEF IInv, Diagnosed
    <3>2. i \notin Running => errors'[s] = errors[s]
      <4>1. ASSUME Top.site = s PROVE i \in Running
        BY <1>1, <2>2, <4>1, OneNumber DEF Diagnosed, Running
      <4>. QED BY <1>3, <3>1, <4>1
    <3>3. OwnErrors(s)' = OwnErrors(s)
      BY DEF OwnErrors
    <3>4. ASSUME NEW n \in DOMAIN stack, stack[n].id = i
          PROVE  errors'[s] = Before(s, stack'[n].pc)
      <4>1. stack[n].site = s /\ stack[n].pc \in Nat \ {0}
        <5>1. i # 0
          BY DEF IInv, TypeOK, Ids
        <5>. QED BY <3>4, <5>1, FrameType DEF IInv, Diagnosed, Sited
      <4>2. errors[s] = Before(s, stack[n].pc)
        BY <2>2, <3>4 DEF Diagnosed, Exact
      <4>3. stack'[n].pc = IF n = Len(stack) THEN stack[n].pc + 1 ELSE stack[n].pc
        BY <1>1 DEF Going, GoesOn
      <4>4. CASE n # Len(stack)
        <5>1. Top.site # s
          <6>1. Top.site = s => Top.id = i
            BY <1>1, <2>2, OneNumber DEF Diagnosed
          <6>. QED BY <1>1, <3>4, <4>4, <6>1 DEF IInv, TracesAccounted
        <5>. QED BY <1>3, <3>1, <4>2, <4>3, <4>4, <5>1
      <4>5. CASE n = Len(stack)
        <5>1. Top.site = s /\ Statement = body[s][stack[n].pc] /\ stack[n].pc <= Len(body[s])
          BY <1>1, <4>1, <4>5 DEF Statement
        <5>2. Before(s, stack'[n].pc) =
                IF Statement.op = "error" THEN Before(s, stack[n].pc) + 1 ELSE Before(s, stack[n].pc)
          BY <3>1, <4>1, <4>3, <4>5, <5>1, Marking DEF IInv
        <5>. QED BY <1>3, <3>1, <4>2, <5>1, <5>2
      <4>. QED BY <4>4, <4>5
    <3>5. i \in Waiting => i \notin Running
      BY DEF Waiting
    <3>. QED BY <1>1, <2>2, <3>2, <3>3, <3>4, <3>5 DEF Diagnosed, Exact, Going, GoesOn
  <2>3. \A t, q : Before(t, q)' = Before(t, q)
    BY DEF Before, Marked
  <2>. QED BY <1>1, <1>2, <2>1, <2>2, <2>3 DEF Exact
<1>. QED BY <1>2, <1>3, <1>4, <1>5, <1>6, <1>7, <1>8 DEF Diagnosed

(* No diagnostic is marked by a statement that is worth none.              *)
LEMMA CountStays ==
  ASSUME TypeOK, Going, body' = body, NEW n \in DOMAIN stack,
         Top.pc <= Len(body[Top.site]), Statement.op # "error"
  PROVE  Before(stack[n].site, stack'[n].pc) = Before(stack[n].site, stack[n].pc)
<1>1. stack'[n].pc = IF n = Len(stack) THEN stack[n].pc + 1 ELSE stack[n].pc
  BY DEF Going, GoesOn
<1>2. stack[n].site \in Sites /\ stack[n].pc \in Nat \ {0}
  BY FrameType
<1>3. CASE n = Len(stack)
  <2>1. Top = stack[n]
    BY <1>3 DEF Top
  <2>. QED BY <1>1, <1>2, <1>3, <2>1, Marking DEF Statement
<1>. QED BY <1>1, <1>3

(* The walk of a function begins: before its first walk there are no       *)
(* diagnostics of it, and before another one they are purged, and those of *)
(* what the walk will pass.                                                *)
LEMMA EnterDiagnosed ==
  ASSUME IInv, Diagnosed, NEW i \in traces,
         Enter(i, IF stack = << >> THEN << >> ELSE Advanced),
         stack # << >> => Top.pc <= Len(body[Top.site]) /\ Statement.op = "call",
         UNCHANGED <<body, site, resolved, bound>>, next' = 0 <=> next = 0
  PROVE  Diagnosed'
<1> DEFINE p == site[i]
<1> PICK N : N = Len(stack) + 1
  OBVIOUS
<1>1. /\ i \in Ids /\ i # 0 /\ i \notin Running /\ Ids' = Ids
      /\ p \in Sites /\ p # File /\ p \in Collected
  <2>1. i \in Ids /\ i # 0 /\ i \notin Running /\ Ids' = Ids
    BY DEF IInv, TypeOK, TracesAccounted, Ids
  <2>. QED BY <2>1, IdType DEF IInv, Diagnosed
<1>2. /\ Going /\ DOMAIN stack' = DOMAIN stack \cup {N}
      /\ stack'[N] = Frame(i, p, 1)
      /\ Running' = Running \cup {i}
  BY <1>1, EnterGoes, EnterRuns DEF IInv
<1>3. stack'[N].id = i /\ stack'[N].site = p /\ stack'[N].pc = 1
  BY <1>2 DEF Frame
<1>4. Waiting' = Waiting \ {i} /\ Collected' = Collected
  BY <1>1, <1>2 DEF Waiting, Collected
<1>5. /\ errors' \in [Sites -> Nat]
      /\ \A s \in Sites : errors'[s] = errors[s] \/ errors'[s] = 0
      /\ \A s \in Sites : s # p /\ s \notin Inside(p) => errors'[s] = errors[s]
      /\ i \in resolved => errors'[p] = 0
  BY <1>1 DEF Enter, Purged, Diagnosed
<1>6. stale' \subseteq Ids /\ \A j \in stale' : j \in stale \/ site[j] \in Inside(p)
  BY <1>1 DEF Enter, Diagnosed
<1>7. p \notin Inside(p) /\ File \notin Inside(p)
  BY <1>1, Nesting
<1>8. \A t, q : Before(t, q)' = Before(t, q)
  BY DEF Before, Marked
<1>9. Sited'
  <2>1. ASSUME NEW n \in DOMAIN stack
        PROVE  stack'[n].site = IF stack'[n].id = 0 THEN File ELSE site[stack'[n].id]
    BY <1>2 DEF Diagnosed, Sited, Going, GoesOn
  <2>. QED BY <1>1, <1>2, <1>3, <2>1 DEF Sited
<1>10. Rooted' /\ Single'
  BY <1>1, <1>4 DEF Diagnosed, Rooted, Single, Declares
<1>11. Kept'
  <2> SUFFICES ASSUME NEW s \in Collected
               PROVE  Due(s)' \/ (Fresh(s)' /\ bound'[s] \notin stale')
    BY <1>4 DEF Kept
  <2>1. s \in Sites
    BY DEF IInv, TypeOK, Collected, Ids
  <2>2. CASE s \in Inside(p)
    <3>1. PICK m \in Nat, c \in Sites : m >= 1 /\ Declares(p, m, c) /\ Within(s, c)
      <4>1. Passes(Frame(0, p, 1), s)
        BY <1>1, <2>2, Passing DEF IInv, Diagnosed
      <4>. QED BY <4>1 DEF Passes, Frame
    <3>2. Passes(stack[N], s)'
      BY <1>3, <3>1 DEF Passes, Declares
    <3>. QED BY <1>2, <3>2 DEF Due
  <2>3. CASE s \notin Inside(p)
    <3>1. Due(s) => Due(s)'
      BY <1>2, <1>4, <2>3, DueStays DEF IInv
    <3>2. Fresh(s) => Fresh(s)'
      <4>1. CASE s = p
        <5>1. errors'[p] >= Before(p, 1)
          BY <1>1, <1>5, Marking DEF IInv
        <5>2. Marks(stack[N], s)'
          BY <1>3, <1>8, <4>1, <5>1 DEF Marks
        <5>. QED BY <1>2, <5>2 DEF Fresh
      <4>2. CASE s # p
        <5>1. errors'[s] = errors[s] /\ errors[s] \in Nat
          BY <1>5, <2>1, <2>3, <4>2 DEF Diagnosed
        <5>. QED BY <1>2, <1>4, <2>1, <4>2, <5>1, FreshStays DEF IInv, Diagnosed
      <4>. QED BY <4>1, <4>2
    <3>3. bound[s] \notin stale => bound'[s] \notin stale'
      <4>1. bound[s] # 0 => site[bound[s]] = s
        BY <2>1 DEF IInv, Named
      <4>2. 0 \notin Ids
        BY RunningIds
      <4>. QED BY <1>6, <2>3, <4>1, <4>2
    <3>. QED BY <3>1, <3>2, <3>3 DEF Diagnosed, Kept
  <2>. QED BY <2>2, <2>3
<1>12. Ahead'
  <2> SUFFICES ASSUME next = 0, NEW s \in Collected, Parent[s] = File
               PROVE  \E m \in Nat : m < stack'[1].pc /\ Declares(File, m, s)'
    BY <1>4 DEF Ahead
  <2>1. PICK m \in Nat : m < stack[1].pc /\ Declares(File, m, s)
    BY DEF Diagnosed, Ahead
  <2>2. 1 \in DOMAIN stack
    BY DEF IInv, Walks, TypeOK
  <2>3. stack[1].pc \in Nat
    BY <2>2, FrameType DEF IInv
  <2>4. stack'[1].pc = IF 1 = Len(stack) THEN stack[1].pc + 1 ELSE stack[1].pc
    BY <1>2, <2>2 DEF Going, GoesOn
  <2>. QED BY <2>1, <2>3, <2>4 DEF Declares
<1>13. Exact'
  <2>1. \A s \in Sites \ {File} : s \in Collected' \/ errors'[s] = 0
    BY <1>4, <1>5 DEF Diagnosed, Exact
  <2>2. ASSUME NEW j \in Ids, Parent[site[j]] = File
        PROVE  /\ j \in Waiting' => errors'[site[j]] = 0
               /\ j \in resolved \ Running' => errors'[site[j]] = OwnErrors(site[j])
               /\ \A n \in DOMAIN stack' :
                    stack'[n].id = j => errors'[site[j]] = Before(site[j], stack'[n].pc)
    <3>1. site[j] \in Sites /\ site[j] # File
      BY IdType DEF IInv, Diagnosed
    <3>2. CASE site[j] = p
      <4>1. j = i
        BY <1>1, <2>2, <3>2 DEF Diagnosed, Single
      <4>2. errors'[p] = 0
        <5>1. i \notin resolved => errors[p] = 0
          BY <1>1, <2>2, <4>1 DEF Waiting, Diagnosed, Exact
        <5>. QED BY <1>1, <1>5, <5>1
      <4>3. \A n \in DOMAIN stack : stack'[n].id # i
        BY <1>1, <1>2 DEF Going, GoesOn, Running
      <4>4. Before(p, 1) = 0
        BY <1>1, Marking DEF IInv
      <4>. QED BY <1>2, <1>3, <1>4, <3>2, <4>1, <4>2, <4>3, <4>4
    <3>3. CASE site[j] # p
      <4>1. j # i
        BY <3>3
      <4>2. site[j] \notin Inside(p)
        BY <1>1, <1>7, <2>2, Nesting DEF Within
      <4>3. errors'[site[j]] = errors[site[j]]
        BY <1>5, <3>1, <3>3, <4>2
      <4>4. ASSUME NEW n \in DOMAIN stack, stack'[n].id = j
            PROVE  errors'[site[j]] = Before(site[j], stack'[n].pc)
        <5>1. stack[n].id = j /\ j # 0 /\ stack # << >>
          BY <1>2, <4>4 DEF Going, GoesOn, IInv, TypeOK, Ids
        <5>2. stack[n].site = site[j]
          BY <5>1 DEF Diagnosed, Sited
        <5>3. Before(site[j], stack'[n].pc) = Before(site[j], stack[n].pc)
          BY <1>2, <5>1, <5>2, CountStays DEF IInv
        <5>. QED BY <2>2, <4>3, <5>1, <5>3 DEF Diagnosed, Exact
      <4>. QED BY <1>2, <1>3, <1>4, <2>2, <4>1, <4>3, <4>4 DEF Diagnosed, Exact
    <3>. QED BY <3>2, <3>3
  <2>3. \A t : OwnErrors(t)' = OwnErrors(t)
    BY DEF OwnErrors
  <2>. QED BY <1>1, <1>8, <2>1, <2>2, <2>3 DEF Exact
<1>. QED BY <1>1, <1>5, <1>6, <1>9, <1>10, <1>11, <1>12, <1>13 DEF Diagnosed

(* A function that is collected is to be walked, and what lies in it will  *)
(* be passed then.  Those of the file are met once.                        *)
LEMMA DeclareDiagnosed == ASSUME IInv, Diagnosed, Declare PROVE Diagnosed'
<1> PICK c : c = Statement.site
  OBVIOUS
<1> PICK i : i = Len(site) + 1
  OBVIOUS
<1>1. /\ stack # << >> /\ stack' = Advanced
      /\ Top.pc <= Len(body[Top.site]) /\ Statement.op = "declare"
      /\ site' = Append(site, c)
      /\ bound' = [bound EXCEPT ![c] = i]
      /\ UNCHANGED <<body, resolved, stale, errors, next>>
  BY DEF Declare, At
<1>2. /\ Len(stack) \in DOMAIN stack /\ Top = stack[Len(stack)] /\ Top \in Frames
      /\ Top.pc \in DOMAIN body[Top.site] /\ Statement \in Statements
  BY <1>1, AtStatement DEF IInv
<1>3. c \in Sites \ {File} /\ Statement = [op |-> "declare", site |-> c, arg |-> None]
  BY <1>1, <1>2 DEF Statements
<1>4. /\ Parent[c] = Top.site /\ Declares(Top.site, Top.pc, c)
      /\ \A m \in Nat : Declares(Top.site, m, c) => m = Top.pc
  <2>1. body \in [Sites -> Seq(Statements)] /\ Top.site \in Sites
    BY <1>2 DEF IInv, TypeOK, Frames
  <2>2. Statement = body[Top.site][Top.pc]
    BY DEF Statement
  <2>3. Parent[c] = Top.site
    BY <1>1, <1>2, <2>1, <2>2, DeferredAssumption DEF Diagnosed
  <2>4. ASSUME NEW m \in Nat, Declares(Top.site, m, c) PROVE m = Top.pc
    <3>1. m \in DOMAIN body[Top.site] /\ body[Top.site][m] \in Statements
      BY <2>1, <2>4 DEF Declares
    <3>2. body[Top.site][m] = [op |-> "declare", site |-> c, arg |-> None]
      BY <2>4, <3>1 DEF Statements, Declares
    <3>3. body[Top.site][m] = body[Top.site][Top.pc] /\ body[Top.site][Top.pc].op = "declare"
      BY <1>1, <1>3, <2>2, <3>2
    <3>4. body \in Programs
      BY DEF Diagnosed
    <3>. QED BY <1>2, <2>1, <3>1, <3>3, <3>4, DeferredAssumption
  <2>. QED BY <1>1, <1>2, <2>2, <2>3, <2>4 DEF Declares
<1>5. /\ Ids' = Ids \cup {i} /\ i \notin Ids /\ i # 0
      /\ site'[i] = c /\ \A j \in Ids : site'[j] = site[j]
  <2>1. site \in Seq(Sites) /\ Len(site) \in Nat /\ Ids = 1..Len(site)
    BY DEF IInv, TypeOK, Ids
  <2>2. /\ site' \in Seq(Sites) /\ Len(site') = i /\ site'[i] = c
        /\ \A j \in Ids : site'[j] = site[j]
    BY <1>1, <1>3, <2>1, AppendProperties
  <2>. QED BY <2>1, <2>2 DEF Ids
<1>6. /\ Going /\ DOMAIN stack' = DOMAIN stack /\ Running' = Running /\ i \notin Running
      /\ i \notin resolved
  BY <1>1, <1>5, AdvanceGoes, AdvanceRuns, RunningIds DEF IInv, TypeOK
<1>7. Waiting' = Waiting \cup {i} /\ Collected' = Collected \cup {c}
  BY ZenonT(60), <1>1, <1>5, <1>6 DEF Waiting, Collected
<1>8. \A s \in Sites : bound'[s] = IF s = c THEN i ELSE bound[s]
  BY <1>1, <1>3 DEF IInv, TypeOK
<1>9. ASSUME Parent[c] = File
      PROVE  c \notin Collected /\ Top.id = 0 /\ Len(stack) = 1 /\ Top.site = File /\ next = 0
  <2>1. Top.site = File
    BY <1>4, <1>9
  <2>2. Top.id = 0
    BY <1>2, <2>1 DEF IInv, Walks, Diagnosed, Sited, Rooted, Collected
  <2>3. Len(stack) = 1 /\ next = 0
    BY <1>2, <2>2 DEF IInv, Walks
  <2>4. ASSUME c \in Collected PROVE FALSE
    <3>1. PICK m \in Nat : m < Top.pc /\ Declares(File, m, c)
      BY <1>2, <1>9, <2>3, <2>4 DEF Diagnosed, Ahead
    <3>2. m = Top.pc
      BY <1>4, <2>1, <3>1
    <3>. QED BY <1>2, <3>1, <3>2 DEF Frames
  <2>. QED BY <2>1, <2>2, <2>3, <2>4
<1>10. Sited'
  <2>1. ASSUME NEW n \in DOMAIN stack
        PROVE  stack'[n].site = IF stack'[n].id = 0 THEN File ELSE site'[stack'[n].id]
    <3>1. stack[n].id = 0 \/ stack[n].id \in Ids
      BY DEF IInv, Walks
    <3>. QED BY <1>5, <1>6, <3>1 DEF Diagnosed, Sited, Going, GoesOn
  <2>. QED BY <1>6, <2>1 DEF Sited
<1>11. Rooted'
  <2>1. \A t, m, u : Declares(t, m, u)' <=> Declares(t, m, u)
    BY <1>1 DEF Declares
  <2>2. Top.pc \in Nat /\ (Top.site = File \/ Top.site \in Collected)
    BY <1>2 DEF IInv, Walks, Diagnosed, Sited, Collected, Frames
  <2>. QED BY <1>3, <1>4, <1>7, <2>1, <2>2 DEF Diagnosed, Rooted
<1>12. Kept'
  <2> SUFFICES ASSUME NEW s \in Collected'
               PROVE  Due(s)' \/ (Fresh(s)' /\ bound'[s] \notin stale')
    BY DEF Kept
  <2>1. CASE s = c
    <3>1. Fresh(s)'
      BY <1>5, <1>7, <2>1 DEF Fresh
    <3>. QED BY <1>1, <1>3, <1>5, <1>8, <2>1, <3>1 DEF Diagnosed
  <2>2. CASE s \in Inside(c)
    BY <1>5, <1>7, <2>2 DEF Due
  <2>3. CASE s # c /\ s \notin Inside(c)
    <3>1. s \in Collected /\ s \in Sites
      <4>1. s \in Collected
        BY <1>7, <2>3
      <4>. QED BY <4>1 DEF IInv, TypeOK, Collected, Ids
    <3>2. \A j \in Waiting : j \in Waiting' /\ site'[j] = site[j]
      BY <1>5, <1>7 DEF Waiting
    <3>3. Due(s) => Due(s)'
      BY <1>1, <1>6, <2>3, <3>2, DueStays DEF IInv, Within
    <3>4. Fresh(s) => Fresh(s)'
      <4>1. errors'[s] = errors[s] /\ errors'[s] \in Nat /\ errors'[s] >= errors[s]
            /\ Statement.op # "error"
        BY <1>1, <3>1 DEF Diagnosed
      <4>. QED BY <1>1, <1>6, <3>1, <3>2, <4>1, FreshStays DEF IInv, Diagnosed
    <3>. QED BY <1>1, <1>8, <2>3, <3>1, <3>3, <3>4 DEF Diagnosed, Kept
  <2>. QED BY <2>1, <2>2, <2>3
<1>13. Single'
  <2> SUFFICES ASSUME NEW j \in Ids', NEW k \in Ids', site'[j] = site'[k], Parent[site'[j]] = File
               PROVE  j = k
    BY DEF Single
  <2>1. CASE site'[j] = c
    <3>1. \A l \in Ids : site[l] # c
      BY <1>9, <2>1 DEF Collected
    <3>. QED BY <1>5, <2>1, <3>1
  <2>2. CASE site'[j] # c
    BY <1>5, <2>2 DEF Diagnosed, Single
  <2>. QED BY <2>1, <2>2
<1>14. Ahead'
  <2> SUFFICES ASSUME next = 0, NEW s \in Collected', Parent[s] = File
               PROVE  \E m \in Nat : m < stack'[1].pc /\ Declares(File, m, s)
    BY <1>1 DEF Ahead, Declares
  <2>1. 1 \in DOMAIN stack
    BY <1>2 DEF IInv, TypeOK
  <2>2. stack[1].pc \in Nat
    BY <2>1, FrameType DEF IInv
  <2>3. stack'[1].pc = IF 1 = Len(stack) THEN stack[1].pc + 1 ELSE stack[1].pc
    BY <1>6, <2>1 DEF Going, GoesOn
  <2>4. CASE s = c
    <3>1. Len(stack) = 1 /\ Top.site = File /\ Top = stack[1]
      BY <1>2, <1>9, <2>4
    <3>2. Top.pc < stack'[1].pc
      BY <2>2, <2>3, <3>1
    <3>. QED BY <1>4, <2>2, <2>4, <3>1, <3>2
  <2>5. CASE s # c
    <3>1. PICK m \in Nat : m < stack[1].pc /\ Declares(File, m, s)
      BY <1>7, <2>5 DEF Diagnosed, Ahead
    <3>. QED BY <2>2, <2>3, <3>1
  <2>. QED BY <2>4, <2>5
<1>15. Exact'
  <2>1. \A s \in Sites \ {File} : s \in Collected' \/ errors'[s] = 0
    BY <1>1, <1>7 DEF Diagnosed, Exact
  <2>2. ASSUME NEW j \in Ids', Parent[site'[j]] = File
        PROVE  /\ j \in Waiting' => errors'[site'[j]] = 0
               /\ j \in resolved \ Running' => errors'[site'[j]] = OwnErrors(site'[j])
               /\ \A n \in DOMAIN stack' :
                    stack'[n].id = j => errors'[site'[j]] = Before(site'[j], stack'[n].pc)
    <3>1. CASE j = i
      <4>1. errors[c] = 0
        BY <1>3, <1>5, <1>9, <2>2, <3>1 DEF Diagnosed, Exact
      <4>2. \A n \in DOMAIN stack' : stack'[n].id # i
        BY <1>6 DEF Going, GoesOn, Running
      <4>. QED BY <1>1, <1>5, <1>6, <3>1, <4>1, <4>2
    <3>2. CASE j # i
      <4>1. j \in Ids /\ site'[j] = site[j] /\ j # 0
        BY <1>5, <3>2 DEF IInv, TypeOK, Ids
      <4>2. ASSUME NEW n \in DOMAIN stack, stack'[n].id = j
            PROVE  errors[site[j]] = Before(site[j], stack'[n].pc)
        <5>1. stack[n].id = j
          BY <1>6, <4>2 DEF Going, GoesOn
        <5>2. stack[n].site = site[j]
          BY <4>1, <5>1 DEF Diagnosed, Sited
        <5>3. Before(site[j], stack'[n].pc) = Before(site[j], stack[n].pc)
          BY <1>1, <1>6, <5>2, CountStays DEF IInv
        <5>. QED BY <2>2, <4>1, <5>1, <5>3 DEF Diagnosed, Exact
      <4>. QED BY <1>1, <1>6, <1>7, <2>2, <3>2, <4>1, <4>2 DEF Diagnosed, Exact
    <3>. QED BY <3>1, <3>2
  <2>3. (\A t : OwnErrors(t)' = OwnErrors(t)) /\ \A t, q : Before(t, q)' = Before(t, q)
    BY <1>1 DEF OwnErrors, Before, Marked
  <2>. QED BY <2>1, <2>2, <2>3, <1>1 DEF Exact
<1>16. body' \in Programs /\ errors' \in [Sites -> Nat] /\ stale' \subseteq Ids'
  BY <1>1, <1>5 DEF Diagnosed
<1>. QED BY <1>10, <1>11, <1>12, <1>13, <1>14, <1>15, <1>16 DEF Diagnosed

(* The innermost walk ends: it has marked all diagnostics of its body and  *)
(* has nothing left to pass.                                               *)
LEMMA EndDiagnosed ==
  ASSUME IInv, Diagnosed, stack # << >>, Top.pc > Len(body[Top.site]),
         DOMAIN stack' = DOMAIN stack \ {Len(stack)},
         \A n \in DOMAIN stack' : stack'[n] = stack[n],
         resolved' = resolved \cup ({Top.id} \ {0}),
         next' = 0 => next = 0 /\ 1 \in DOMAIN stack',
         UNCHANGED <<body, site, bound, stale, errors>>
  PROVE  Diagnosed'
<1> PICK L : L = Len(stack)
  OBVIOUS
<1>1. L \in DOMAIN stack /\ Top = stack[L] /\ Ids' = Ids /\ Collected' = Collected
  BY DEF IInv, TypeOK, Top, Ids, Collected
<1>2. Running' = Running \ {Top.id}
  <2>1. \A n \in DOMAIN stack' : stack'[n].id # Top.id
    BY <1>1 DEF IInv, TracesAccounted
  <2>. QED BY <1>1, <2>1 DEF Running
<1>3. Top.id \in Running /\ 0 \notin Ids
  BY <1>1, RunningIds DEF Running
<1>4. Waiting' = Waiting
  BY <1>1, <1>2, <1>3 DEF Waiting
<1>5. /\ \A t, m, u : Declares(t, m, u)' <=> Declares(t, m, u)
      /\ \A t : OwnErrors(t)' = OwnErrors(t)
      /\ \A t, q : Before(t, q)' = Before(t, q)
  BY DEF Declares, OwnErrors, Before, Marked
<1>6. Sited' /\ Rooted' /\ Single'
  BY <1>1, <1>5 DEF Diagnosed, Sited, Rooted, Single
<1>7. Top.site \in Sites /\ Top.pc \in Nat \ {0}
  BY <1>1, FrameType DEF IInv
<1>8. Before(Top.site, Top.pc) = OwnErrors(Top.site)
  BY <1>7, Marking DEF IInv
<1>9. Kept'
  <2> SUFFICES ASSUME NEW s \in Collected
               PROVE  Due(s)' \/ (Fresh(s)' /\ bound'[s] \notin stale')
    BY <1>1 DEF Kept
  <2>1. ~ Passes(Top, s)
    <3>1. \A m, u : Declares(Top.site, m, u) => m <= Len(body[Top.site])
      BY <1>7 DEF IInv, TypeOK, Declares
    <3>2. Len(body[Top.site]) \in Nat
      BY <1>7 DEF IInv, TypeOK
    <3>. QED BY <1>7, <3>1, <3>2 DEF Passes
  <2>2. ASSUME Due(s) PROVE Due(s)'
    <3>1. CASE \E j \in Waiting : s \in Inside(site[j])
      BY <1>4, <3>1 DEF Due
    <3>2. CASE \E n \in DOMAIN stack : Passes(stack[n], s)
      <4>1. PICK n \in DOMAIN stack : Passes(stack[n], s)
        BY <3>2
      <4>2. n \in DOMAIN stack' /\ stack'[n] = stack[n]
        BY <1>1, <2>1, <4>1
      <4>3. Passes(stack[n], s)'
        BY <1>5, <4>1, <4>2 DEF Passes
      <4>. QED BY <4>2, <4>3 DEF Due
    <3>. QED BY <2>2, <3>1, <3>2 DEF Due
  <2>3. ASSUME Fresh(s) PROVE Fresh(s)'
    <3>1. CASE \E j \in Waiting : site[j] = s
      BY <1>4, <3>1 DEF Fresh
    <3>2. CASE \E n \in DOMAIN stack : Marks(stack[n], s)
      <4>1. PICK n \in DOMAIN stack : Marks(stack[n], s)
        BY <3>2
      <4>2. CASE n = L
        BY <1>1, <1>5, <1>8, <4>1, <4>2 DEF Marks, Fresh
      <4>3. CASE n # L
        <5>1. n \in DOMAIN stack' /\ stack'[n] = stack[n]
          BY <4>3
        <5>2. Marks(stack[n], s)'
          BY <1>5, <4>1, <5>1 DEF Marks
        <5>. QED BY <5>1, <5>2 DEF Fresh
      <4>. QED BY <4>2, <4>3
    <3>3. CASE errors[s] >= OwnErrors(s)
      BY <1>5, <3>3 DEF Fresh
    <3>. QED BY <2>3, <3>1, <3>2, <3>3 DEF Fresh
  <2>. QED BY <2>2, <2>3 DEF Diagnosed, Kept
<1>10. Ahead'
  BY <1>1, <1>5 DEF Diagnosed, Ahead
<1>11. Exact'
  <2>1. ASSUME NEW j \in Ids, Parent[site[j]] = File
        PROVE  /\ j \in Waiting => errors[site[j]] = 0
               /\ j \in resolved' \ Running' => errors[site[j]] = OwnErrors(site[j])
               /\ \A n \in DOMAIN stack' :
                    stack'[n].id = j => errors[site[j]] = Before(site[j], stack'[n].pc)
    <3>1. ASSUME j = Top.id PROVE errors[site[j]] = OwnErrors(site[j])
      <4>1. errors[site[j]] = Before(site[j], Top.pc)
        BY <1>1, <2>1, <3>1 DEF Diagnosed, Exact
      <4>2. Top.site = site[j]
        BY <1>1, <1>3, <3>1 DEF Diagnosed, Sited
      <4>. QED BY <1>8, <4>1, <4>2
    <3>. QED BY <1>2, <2>1, <3>1 DEF Diagnosed, Exact
  <2>. QED BY <1>1, <1>4, <1>5, <2>1 DEF Diagnosed, Exact
<1>. QED BY <1>1, <1>6, <1>9, <1>10, <1>11 DEF Diagnosed

(* Nothing was collected yet.                                              *)
LEMMA InitDiagnosed == Init => Diagnosed
<1> SUFFICES ASSUME Init PROVE Diagnosed
  OBVIOUS
<1>1. Ids = {} /\ Collected = {}
  BY DEF Init, Ids, Collected
<1>2. stack = <<Frame(0, File, 1)>>
  BY DEF Init
<1>3. \A n \in DOMAIN stack : stack[n].id = 0 /\ stack[n].site = File
  BY <1>2 DEF Frame
<1>. QED BY <1>1, <1>3 DEF Init, Diagnosed, Sited, Rooted, Kept, Single, Ahead, Exact

(* A call enters the function or goes on.                                  *)
LEMMA CallDiagnosed == ASSUME IInv, Diagnosed, Call PROVE Diagnosed'
<1> DEFINE i == bound[Statement.site]
           t == Statement.arg
<1>1. /\ stack # << >> /\ Top.pc <= Len(body[Top.site]) /\ Statement.op = "call"
      /\ UNCHANGED <<body, site, resolved, bound, next>>
  BY DEF Call, At
<1>2. CASE i # 0 /\ (First(i) \/ Again(i, t))
  <2>1. Enter(i, Advanced) /\ i \in traces
    BY <1>2 DEF Call, First, Again
  <2>. QED BY <1>1, <2>1, EnterDiagnosed
<1>3. CASE ~ (i # 0 /\ (First(i) \/ Again(i, t)))
  <2>1. stack' = Advanced /\ UNCHANGED <<stale, errors>>
    BY <1>3 DEF Call
  <2>2. errors' = [errors EXCEPT ![Top.site] = IF Statement.op = "error" THEN @ + 1 ELSE @]
    BY <1>1, <2>1 DEF Diagnosed
  <2>. QED BY <1>1, <2>1, <2>2, AdvanceDiagnosed
<1>. QED BY <1>2, <1>3

(* One diagnostic more, of the innermost walk.                             *)
LEMMA ErrorDiagnosed == ASSUME IInv, Diagnosed, Error PROVE Diagnosed'
<1>1. /\ stack # << >> /\ Top.pc <= Len(body[Top.site]) /\ Statement.op = "error"
      /\ UNCHANGED <<body, site, resolved, bound, stale, next>>
      /\ stack' = Advanced
      /\ errors' = [errors EXCEPT ![Top.site] = @ + 1]
  BY DEF Error, At, bookkeeping
<1>. QED BY <1>1, AdvanceDiagnosed

(* The walk of a function ends.                                            *)
LEMMA ReturnDiagnosed == ASSUME IInv, Diagnosed, Return PROVE Diagnosed'
<1> DEFINE L == Len(stack)
<1>1. /\ L > 0 /\ Top.pc > Len(body[Top.site]) /\ Top.id # 0
      /\ resolved' = resolved \cup {Top.id}
      /\ stack' = SubSeq(stack, 1, L - 1)
      /\ UNCHANGED <<body, site, stale, bound, errors, next>>
  BY DEF Return
<1>2. stack \in Seq(Frames) /\ L \in Nat /\ L # 0 /\ DOMAIN stack = 1..L /\ stack # << >>
  BY <1>1 DEF IInv, TypeOK
<1>3. /\ DOMAIN stack' = DOMAIN stack \ {L}
      /\ \A n \in DOMAIN stack' : stack'[n] = stack[n]
  <2>1. \A n \in 1..L - 1 : stack[n] \in Frames
    BY <1>2
  <2>2. /\ DOMAIN SubSeq(stack, 1, L - 1) = 1..L - 1
        /\ \A n \in 1..L - 1 : SubSeq(stack, 1, L - 1)[n] = stack[n]
    BY <1>2, <2>1
  <2>3. 1..L - 1 = (1..L) \ {L}
    BY <1>2
  <2>. QED BY <1>1, <1>2, <2>2, <2>3
<1>4. next' = 0 => next = 0 /\ 1 \in DOMAIN stack'
  <2>1. next = 0 => stack[1].id = 0
    BY <1>2 DEF IInv, Walks
  <2>2. Top = stack[L]
    BY DEF Top
  <2>. QED BY <1>1, <1>2, <1>3, <2>1, <2>2
<1>. QED BY <1>1, <1>2, <1>3, <1>4, EndDiagnosed

(* The walk of the file ends, the only one left.                           *)
LEMMA EndFileDiagnosed == ASSUME IInv, Diagnosed, EndFile PROVE Diagnosed'
<1>1. /\ Len(stack) > 0 /\ Top.id = 0 /\ Top.pc > Len(body[File])
      /\ next' = 1 /\ stack' = << >>
      /\ UNCHANGED <<body, site, resolved, bound, stale, errors>>
  BY DEF EndFile, bookkeeping
<1>2. /\ stack # << >> /\ Len(stack) \in DOMAIN stack /\ Top = stack[Len(stack)]
      /\ DOMAIN stack = 1..Len(stack)
  BY <1>1 DEF IInv, TypeOK, Top
<1>3. Len(stack) = 1 /\ Top.site = File
  BY <1>1, <1>2 DEF IInv, Walks, Diagnosed, Sited
<1>4. DOMAIN stack' = {} /\ DOMAIN stack = {1}
  BY <1>1, <1>2, <1>3
<1>. QED BY <1>1, <1>2, <1>3, <1>4, EndDiagnosed

(* Diagnosed says nothing of the other variables.                          *)
LEMMA Untouched ==
  ASSUME Diagnosed, UNCHANGED <<body, stack, site, resolved, bound, stale, errors>>,
         next' = 0 => next = 0
  PROVE  Diagnosed'
<1>1. Ids' = Ids /\ Running' = Running /\ Collected' = Collected
  BY DEF Ids, Running, Collected
<1>2. Waiting' = Waiting
  BY <1>1 DEF Waiting
<1>3. /\ \A t, m, u : Declares(t, m, u)' <=> Declares(t, m, u)
      /\ \A t : OwnErrors(t)' = OwnErrors(t)
      /\ \A t, q : Before(t, q)' = Before(t, q)
  BY DEF Declares, OwnErrors, Before, Marked
<1>4. \A f, s : (Passes(f, s)' <=> Passes(f, s)) /\ (Marks(f, s)' <=> Marks(f, s))
  BY <1>3 DEF Passes, Marks
<1>5. \A s : (Due(s)' <=> Due(s)) /\ (Fresh(s)' <=> Fresh(s))
  BY <1>2, <1>3, <1>4 DEF Due, Fresh
<1>6. Sited' /\ Rooted' /\ Single' /\ Ahead'
  BY <1>1, <1>3 DEF Diagnosed, Sited, Rooted, Single, Ahead
<1>7. Kept'
  BY <1>1, <1>5 DEF Diagnosed, Kept
<1>8. Exact'
  BY <1>1, <1>2, <1>3 DEF Diagnosed, Exact
<1>. QED BY <1>1, <1>6, <1>7, <1>8 DEF Diagnosed

(* The pass at the end of the file.                                        *)
LEMMA BackstopDiagnosed == ASSUME IInv, Diagnosed, Skip \/ WalkUncalled PROVE Diagnosed'
<1>1. stack = << >> /\ next \in Ids /\ next' = next + 1 /\ next # 0 /\ next \in Nat
  BY DEF Skip, WalkUncalled, AtBackstop, IInv, TypeOK, Ids
<1>2. CASE Skip
  BY <1>1, <1>2, Untouched DEF Skip, bookkeeping
<1>3. CASE WalkUncalled
  <2>1. next \in traces
    <3>1. DOMAIN stack = {}
      BY <1>1
    <3>. QED BY <1>1, <3>1 DEF IInv, TracesAccounted, Running
  <2>2. Enter(next, << >>) /\ UNCHANGED <<body, site, resolved, bound>>
    BY <1>3, <2>1 DEF WalkUncalled
  <2>. QED BY <1>1, <2>1, <2>2, EnterDiagnosed
<1>. QED BY <1>2, <1>3

(* Every step keeps it.                                                    *)
LEMMA NextDiagnosed == IInv /\ Diagnosed /\ [Next]_vars => Diagnosed'
<1> SUFFICES ASSUME IInv, Diagnosed, [Next]_vars PROVE Diagnosed'
  OBVIOUS
<1>1. CASE UNCHANGED vars
  BY <1>1, Untouched DEF vars, bookkeeping
<1>2. CASE Next
  BY <1>2, DeclareDiagnosed, ErrorDiagnosed, CallDiagnosed, ReturnDiagnosed, EndFileDiagnosed,
     BackstopDiagnosed
     DEF Next
<1>. QED BY <1>1, <1>2

(* The diagnostics of every function are there in the end, and once if it  *)
(* is not nested, however often its body was walked and purged; a name     *)
(* stands for no function that was purged.                                 *)
THEOREM ErrorsKeptHolds == Spec => []ErrorsKept
<1>1. Spec => []Diagnosed
  BY InitDiagnosed, NextDiagnosed, Invariance, PTL DEF Spec
<1>2. IInv /\ Diagnosed => ErrorsKept
  <2> SUFFICES ASSUME IInv, Diagnosed, stack = << >>, next = Len(site) + 1
               PROVE  /\ \A s \in {site[i] : i \in Ids} :
                           /\ errors[s] >= OwnErrors(s)
                           /\ Parent[s] = File => errors[s] = OwnErrors(s)
                      /\ \A s \in Sites : bound[s] \notin stale
    BY DEF ErrorsKept, Done
  <2>1. DOMAIN stack = {} /\ Running = {}
    BY DEF Running
  <2>2. Waiting = {} /\ Ids \subseteq resolved
    <3>1. \A i \in Ids : i < next
      BY DEF IInv, TypeOK, Ids
    <3>. QED BY <2>1, <3>1 DEF IInv, Passed, Waiting
  <2>3. \A s \in Collected : ~ Due(s)
    BY <2>1, <2>2 DEF Due
  <2>4. \A s \in Collected : Fresh(s) /\ bound[s] \notin stale
    BY <2>3 DEF Diagnosed, Kept
  <2>5. \A s \in Collected : errors[s] >= OwnErrors(s)
    BY <2>1, <2>2, <2>4 DEF Fresh
  <2>6. \A s \in Collected : Parent[s] = File => errors[s] = OwnErrors(s)
    BY <2>1, <2>2 DEF Diagnosed, Exact, Collected
  <2>7. ASSUME NEW s \in Sites PROVE bound[s] \notin stale
    <3>1. CASE bound[s] = 0
      BY <3>1, RunningIds DEF Diagnosed
    <3>2. CASE bound[s] # 0
      <4>1. s \in Collected
        BY <3>2 DEF IInv, TypeOK, Named, Collected
      <4>. QED BY <2>4, <4>1
    <3>. QED BY <3>1, <3>2
  <2>. QED BY <2>5, <2>6, <2>7 DEF Collected
<1>. QED BY <1>1, <1>2, Invariance, PTL
=============================================================================
