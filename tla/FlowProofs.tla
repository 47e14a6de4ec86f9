----------------------------- MODULE FlowProofs -----------------------------
(***************************************************************************)
(* Proofs about Flow, for any types, conditions and bodies of any length   *)
(* and depth: unreachable code and jumps are reported rightly, and the     *)
(* types that are merged, checked and narrowed keep their form.            *)
(***************************************************************************)
EXTENDS Flow, SequenceTheorems, FiniteSetTheorems, WellFoundedInduction, TLAPS

(* A set of naturals that is not empty has a least element.                *)
LEMMA Least ==
  ASSUME NEW T, T \subseteq Nat, T # {}
  PROVE  \E n \in T : \A m \in T : n <= m
<1>1. IsWellFoundedOn(OpToRel(<, Nat), Nat)
  BY NatLessThanWellFounded
<1> DEFINE R == {ss \in Nat \X Nat : ss[1] < ss[2]}
<1>2. IsWellFoundedOn(R, Nat)
  BY <1>1 DEF OpToRel
<1> HIDE DEF R
<1>3. PICK n \in T : \A m \in T : <<m, n>> \notin R
  BY <1>2, WFMin, Zenon
<1>4. ASSUME NEW m \in T, m < n
      PROVE  FALSE
  <2>1. <<m, n>> \in Nat \X Nat
    OBVIOUS
  <2>2. <<m, n>>[1] = m /\ <<m, n>>[2] = n
    OBVIOUS
  <2>3. <<m, n>>[1] < <<m, n>>[2]
    BY <1>4, <2>2, Zenon
  <2>4. <<m, n>> \in R
    BY <2>1, <2>3, Zenon DEF R
  <2> QED
    BY <1>3, <2>4, Zenon
<1> QED
  BY <1>4

(* A set that holds 0, and with a number the next one, holds all of them.  *)
LEMMA SetInduction ==
  ASSUME NEW T, 0 \in T, \A n \in Nat : n \in T => n + 1 \in T
  PROVE  Nat \subseteq T
<1> SUFFICES ASSUME Nat \ T # {} PROVE FALSE
  OBVIOUS
<1>1. PICK n \in Nat \ T : \A m \in Nat \ T : n <= m
  BY Least
<1>2. n - 1 \in Nat \ T /\ n - 1 < n
  BY <1>1
<1> QED
  BY <1>1, <1>2

(* s is a sequence of records that have what the jumps look at.            *)
Scoped(s) == \E S : s \in Seq(S) /\ \A f \in S : {"kind", "saved"} \subseteq DOMAIN f

Walked(w) == "scopes" \in DOMAIN w /\ Scoped(w.scopes) /\ Len(w.scopes) > 0

(* The first n frames of s and t differ in nothing that jumps look at.     *)
SameUpTo(s, t, n) ==
  \A i \in 1..n : t[i].kind = s[i].kind /\ t[i].saved = s[i].saved
SameFrames(s, t) == Len(t) = Len(s) /\ SameUpTo(s, t, Len(s))

(* t is s with the frame e on top of it.                                   *)
Grown(s, e, t) ==
  Scoped(t) /\ Len(t) = Len(s) + 1 /\ t[Len(s) + 1] = e /\ SameUpTo(s, t, Len(s))

Takers == Loops \cup {"case"}
(* One of the first n frames takes a break, or a continue.                 *)
Breaks(s, n) == \E i \in 1..n : s[i].kind \in Takers
Continues(s, n) == \E i \in 1..n : s[i].kind \in Loops

IsCan(c) == DOMAIN c = {"break", "continue"}
(* c says which jumps are taken by the first n frames.                     *)
Right(c, s, n) == IsCan(c) /\ c.break = Breaks(s, n) /\ c.continue = Continues(s, n)

(* The frame keeps what can_break and can_continue were before it.         *)
Restores(s, i) ==
  /\ IsCan(s[i].saved)
  /\ s[i].kind \in Takers => s[i].saved.break = Breaks(s, i - 1)
  /\ s[i].kind \in Loops => s[i].saved.continue = Continues(s, i - 1)

(* s are the scopes around a place where c is can_break and can_continue.  *)
Jumps(s, c) ==
  /\ Scoped(s) /\ Len(s) > 0
  /\ s[1].kind = "body"
  /\ \A i \in 1..Len(s) : Restores(s, i)
  /\ Right(c, s, Len(s))

IInv == (dead => ~live) /\ Jumps(scopes, can)

-----------------------------------------------------------------------------
(* Sequences of frames *)

(* A scoped sequence has a length, and its frames have what jumps look at. *)
LEMMA ScopedLen ==
  ASSUME NEW s, Scoped(s)
  PROVE  /\ Len(s) \in Nat /\ DOMAIN s = 1..Len(s)
         /\ \A i \in 1..Len(s) : {"kind", "saved"} \subseteq DOMAIN s[i]
<1>1. PICK S : s \in Seq(S) /\ \A f \in S : {"kind", "saved"} \subseteq DOMAIN f
  BY DEF Scoped
<1> QED
  BY <1>1, ElementOfSeq

(* A frame in place of the last one that agrees with it.                   *)
LEMMA ReplaceLast ==
  ASSUME NEW s, Scoped(s), Len(s) > 0, NEW e, {"kind", "saved"} \subseteq DOMAIN e,
         e.kind = s[Len(s)].kind, e.saved = s[Len(s)].saved,
         NEW x, x = [s EXCEPT ![Len(s)] = e]
  PROVE  Scoped(x) /\ SameFrames(s, x)
<1>1. PICK S : s \in Seq(S) /\ \A f \in S : {"kind", "saved"} \subseteq DOMAIN f
  BY DEF Scoped
<1> DEFINE SS == S \cup {e}
<1>2. s \in Seq(SS) /\ e \in SS
  BY <1>1, SeqMonotonic
<1>3. Len(s) \in 1..Len(s) /\ DOMAIN s = 1..Len(s) /\ Len(s) \in Nat
  BY <1>1
<1>4. \A f \in SS : {"kind", "saved"} \subseteq DOMAIN f
  BY <1>1
<1> HIDE DEF SS
<1>5. x \in Seq(SS) /\ Len(x) = Len(s)
  BY <1>2, <1>3, ExceptSeq
<1>6. \A i \in 1..Len(s) : x[i] = IF i = Len(s) THEN e ELSE s[i]
  BY <1>3
<1> QED
  BY <1>3, <1>4, <1>5, <1>6 DEF Scoped, SameFrames, SameUpTo

(* A frame is put on top.                                                  *)
LEMMA Pushed ==
  ASSUME NEW s, Scoped(s), NEW e, {"kind", "saved"} \subseteq DOMAIN e,
         NEW x, x = Append(s, e)
  PROVE  Grown(s, e, x)
<1>1. PICK S : s \in Seq(S) /\ \A f \in S : {"kind", "saved"} \subseteq DOMAIN f
  BY DEF Scoped
<1> DEFINE SS == S \cup {e}
<1>2. s \in Seq(SS) /\ e \in SS
  BY <1>1, SeqMonotonic
<1>3. \A f \in SS : {"kind", "saved"} \subseteq DOMAIN f
  BY <1>1
<1> HIDE DEF SS
<1>4. /\ x \in Seq(SS) /\ Len(x) = Len(s) + 1 /\ x[Len(s) + 1] = e
      /\ \A i \in 1..Len(s) : x[i] = s[i]
  BY <1>2, AppendProperties
<1> QED
  BY <1>3, <1>4 DEF Grown, Scoped, SameUpTo

(* The frame on top is taken away.                                         *)
LEMMA Popped ==
  ASSUME NEW s, Scoped(s), Len(s) > 0, NEW x, x = Front(s)
  PROVE  /\ Scoped(x) /\ Len(x) = Len(s) - 1
         /\ \A i \in 1..Len(s) - 1 : x[i] = s[i]
<1>1. PICK S : s \in Seq(S) /\ \A f \in S : {"kind", "saved"} \subseteq DOMAIN f
  BY DEF Scoped
<1>2. x = SubSeq(s, 1, Len(s) - 1)
  BY DEF Front
<1> DEFINE n == Len(s) - 1
<1>b. Len(s) \in Nat /\ \A i \in 1..Len(s) : s[i] \in S
  BY <1>1
<1>3. /\ 1 \in Int /\ n \in Int /\ n - 1 + 1 = n /\ (IF 1 <= n THEN n - 1 + 1 ELSE 0) = n
      /\ \A i \in 1..n : s[i] \in S /\ 1 + i - 1 = i
  BY <1>b
<1> HIDE DEF n
<1>a. /\ SubSeq(s, 1, n) \in Seq(S)
      /\ Len(SubSeq(s, 1, n)) = IF 1 <= n THEN n - 1 + 1 ELSE 0
      /\ \A i \in 1..n - 1 + 1 : SubSeq(s, 1, n)[i] = s[1 + i - 1]
  BY <1>3, SubSeqProperties
<1>4. /\ x \in Seq(S)
      /\ Len(x) = Len(s) - 1
      /\ \A i \in 1..Len(s) - 1 : x[i] = s[i]
  BY <1>2, <1>3, <1>a DEF n
<1> QED
  BY <1>1, <1>4 DEF Scoped

(* exit_scope changes nothing that jumps look at.                          *)
LEMMA Exited ==
  ASSUME NEW s, Scoped(s), NEW wrote, NEW x, x = ExitScope(s, wrote)
  PROVE  Scoped(x) /\ SameFrames(s, x)
<1>1. /\ Len(s) \in Nat /\ DOMAIN s = 1..Len(s)
      /\ \A i \in 1..Len(s) : {"kind", "saved"} \subseteq DOMAIN s[i]
  BY ScopedLen
<1> DEFINE g(i) == IF wrote THEN [s[i] EXCEPT !.wrote = TRUE,
                                    !.why = IF s[i].flow = None THEN @ ELSE @ \cup {"left"}]
                   ELSE s[i]
           S == {g(i) : i \in 1..Len(s)}
<1>2. x = [i \in 1..Len(s) |-> g(i)]
  BY <1>1 DEF ExitScope
<1>3. \A i \in 1..Len(s) : /\ {"kind", "saved"} \subseteq DOMAIN g(i)
                           /\ g(i).kind = s[i].kind /\ g(i).saved = s[i].saved
  BY <1>1
<1> HIDE DEF g
<1>4. x \in Seq(S) /\ Len(x) = Len(s)
  BY <1>1, <1>2, IsASeq
<1>5. \A f \in S : {"kind", "saved"} \subseteq DOMAIN f
  BY <1>3
<1>6. \A i \in 1..Len(s) : x[i] = g(i)
  BY <1>2
<1> HIDE DEF S
<1> QED
  BY <1>3, <1>4, <1>5, <1>6 DEF Scoped, SameFrames, SameUpTo

-----------------------------------------------------------------------------
(* What the resolver computes leaves the frames as they are *)

(* Nor does an assignment.                                                 *)
LEMMA AssignSame ==
  ASSUME NEW w, Walked(w), NEW t, NEW v, NEW x, x = AssignOperator(w, t, v)
  PROVE  Walked(x) /\ SameFrames(w.scopes, x.scopes)
<1> DEFINE s == w.scopes
           new == UpdateType(w.typ, explicit, t)
           e == [s[Len(s)] EXCEPT !.flow = new, !.wrote = TRUE, !.why = Refining(w, t, v)]
<1>1. "scopes" \in DOMAIN x /\ x.scopes = [s EXCEPT ![Len(s)] = e]
  BY DEF AssignOperator
<1>2. Scoped(s) /\ Len(s) > 0
  BY DEF Walked
<1>3. {"kind", "saved"} \subseteq DOMAIN s[Len(s)]
  BY <1>2, ScopedLen
<1>4. {"kind", "saved"} \subseteq DOMAIN e /\ e.kind = s[Len(s)].kind /\ e.saved = s[Len(s)].saved
  BY <1>3
<1> HIDE DEF e, s
<1>5. Scoped(x.scopes) /\ SameFrames(s, x.scopes)
  BY <1>1, <1>2, <1>4, ReplaceLast
<1> QED
  BY <1>1, <1>2, <1>5 DEF Walked, SameFrames, SameUpTo, s

(* Agreement is transitive.                                                *)
LEMMA SameIsTransitive ==
  ASSUME NEW r, NEW s, NEW t, SameFrames(r, s), SameFrames(s, t)
  PROVE  SameFrames(r, t)
BY DEF SameFrames, SameUpTo

(* Nor does a condition that is collected.                                 *)
LEMMA CollectedSame ==
  ASSUME NEW w, Walked(w), NEW c, NEW v, NEW x, x = Collected(w, c, v)
  PROVE  Walked(x) /\ SameFrames(w.scopes, x.scopes)
<1>1. CASE c.sets = None
  BY <1>1 DEF Collected, SameFrames, SameUpTo
<1>2. CASE c.sets # None
  BY <1>2, AssignSame DEF Collected
<1> QED
  BY <1>1, <1>2

(* Nor does a frame with other contents in the innermost scope.            *)
LEMMA TopReplaced ==
  ASSUME NEW w, Walked(w), NEW e, {"kind", "saved"} \subseteq DOMAIN e,
         e.kind = w.scopes[Len(w.scopes)].kind, e.saved = w.scopes[Len(w.scopes)].saved,
         NEW x, "scopes" \in DOMAIN x,
         x.scopes = [w.scopes EXCEPT ![Len(w.scopes)] = e]
  PROVE  Walked(x) /\ SameFrames(w.scopes, x.scopes)
<1>1. Scoped(x.scopes) /\ SameFrames(w.scopes, x.scopes)
  BY ReplaceLast DEF Walked
<1> QED
  BY <1>1 DEF Walked, SameFrames, SameUpTo

(* Nor does a condition that is skipped.                                   *)
LEMMA SkippedSame ==
  ASSUME NEW w, Walked(w), NEW c, NEW x, x = Skipped(w, c)
  PROVE  Walked(x) /\ SameFrames(w.scopes, x.scopes)
<1>1. PICK top : top = w.scopes[Len(w.scopes)]
  OBVIOUS
<1>2. PICK e : e = [top EXCEPT !.why = IF Rounds \/ c.sets = None THEN @ ELSE @ \cup {"skipped"}]
  OBVIOUS
<1>3. Scoped(w.scopes) /\ Len(w.scopes) > 0 /\ "scopes" \in DOMAIN w
  BY DEF Walked
<1>4. {"kind", "saved"} \subseteq DOMAIN top
  BY <1>1, <1>3, ScopedLen
<1>5. {"kind", "saved"} \subseteq DOMAIN e /\ e.kind = top.kind /\ e.saved = top.saved
  BY <1>2, <1>4
<1>6. "scopes" \in DOMAIN x /\ x.scopes = [w.scopes EXCEPT ![Len(w.scopes)] = e]
  BY <1>1, <1>2, <1>3 DEF Skipped
<1> QED
  BY <1>1, <1>5, <1>6, TopReplaced

(* Nor does narrowing.                                                     *)
LEMMA NarrowSame ==
  ASSUME NEW w, Walked(w), NEW c, NEW x, x = NarrowTop(w, c)
  PROVE  Walked(x) /\ SameFrames(w.scopes, x.scopes)
<1> DEFINE top == w.scopes[Len(w.scopes)]
           f == Guarded(c, TRUE, TypeIn(w), Known(top.flow, top.why))
           e == [top EXCEPT !.flow = f.flow, !.why = f.why]
<1>1. {"kind", "saved"} \subseteq DOMAIN top
  BY ScopedLen DEF Walked
<1>2. {"kind", "saved"} \subseteq DOMAIN e /\ e.kind = top.kind /\ e.saved = top.saved
  BY <1>1
<1>3. "scopes" \in DOMAIN x /\ x.scopes = [w.scopes EXCEPT ![Len(w.scopes)] = e]
  BY DEF NarrowTop, Walked
<1> HIDE DEF e
<1> QED
  BY <1>2, <1>3, TopReplaced

(* Nor does the step of a for loop.                                        *)
LEMMA SteppedSame ==
  ASSUME NEW w, Walked(w), NEW t, NEW v, NEW x, x = Stepped(w, t, v)
  PROVE  Walked(x) /\ SameFrames(w.scopes, x.scopes)
<1>1. CASE t = None
  BY <1>1 DEF Stepped, SameFrames, SameUpTo
<1>2. CASE t # None
  <2>1. PICK a : a = AssignOperator(w, t, v)
    OBVIOUS
  <2>2. Walked(a) /\ SameFrames(w.scopes, a.scopes)
    BY <2>1, AssignSame
  <2> DEFINE n == Len(a.scopes)
             top == a.scopes[n]
             e == [top EXCEPT !.why = @ \cup {"round"}]
  <2>3. x = [a EXCEPT !.scopes[n].why = @ \cup {"round"}]
    BY <1>2, <2>1 DEF Stepped
  <2>4. {"kind", "saved"} \subseteq DOMAIN top
    BY <2>2, ScopedLen DEF Walked
  <2>5. {"kind", "saved"} \subseteq DOMAIN e /\ e.kind = top.kind /\ e.saved = top.saved
    BY <2>4
  <2>6. "scopes" \in DOMAIN x /\ x.scopes = [a.scopes EXCEPT ![n] = e]
    BY <2>2, <2>3 DEF Walked
  <2> HIDE DEF e
  <2>7. Walked(x) /\ SameFrames(a.scopes, x.scopes)
    BY <2>2, <2>5, <2>6, TopReplaced
  <2> QED
    BY <2>2, <2>7, SameIsTransitive
<1> QED
  BY <1>1, <1>2

-----------------------------------------------------------------------------
(* Entering and leaving *)

(* Frames that agree take the same jumps.                                  *)
LEMMA SameTaken ==
  ASSUME NEW s, NEW t, NEW n \in Nat, SameUpTo(s, t, n), NEW m \in 0..n
  PROVE  Breaks(t, m) = Breaks(s, m) /\ Continues(t, m) = Continues(s, m)
<1>1. \A i \in 1..m : t[i].kind = s[i].kind
  BY DEF SameUpTo
<1> QED
  BY <1>1 DEF Breaks, Continues

(* Frames that agree restore the same.                                     *)
LEMMA SameRestores ==
  ASSUME NEW s, NEW t, NEW n \in Nat, SameUpTo(s, t, n),
         \A i \in 1..n : Restores(s, i)
  PROVE  \A i \in 1..n : Restores(t, i)
<1> SUFFICES ASSUME NEW i \in 1..n PROVE Restores(t, i)
  OBVIOUS
<1>1. t[i].kind = s[i].kind /\ t[i].saved = s[i].saved
  BY DEF SameUpTo
<1>2. i - 1 \in 0..n
  OBVIOUS
<1>3. Breaks(t, i - 1) = Breaks(s, i - 1) /\ Continues(t, i - 1) = Continues(s, i - 1)
  BY <1>2, SameTaken
<1> QED
  BY <1>1, <1>3 DEF Restores

(* Scopes that agree are in the same places.                               *)
LEMMA SameJumps ==
  ASSUME NEW s, NEW c, Jumps(s, c), NEW t, Scoped(t), SameFrames(s, t)
  PROVE  Jumps(t, c)
<1>1. Len(s) \in Nat /\ Len(s) > 0 /\ Len(t) = Len(s) /\ SameUpTo(s, t, Len(s))
  BY ScopedLen DEF Jumps, SameFrames
<1>2. t[1].kind = s[1].kind
  BY <1>1 DEF SameUpTo
<1>3. \A i \in 1..Len(t) : Restores(t, i)
  BY <1>1, SameRestores DEF Jumps
<1>4. Breaks(t, Len(t)) = Breaks(s, Len(s)) /\ Continues(t, Len(t)) = Continues(s, Len(s))
  BY <1>1, SameTaken
<1> QED
  BY <1>1, <1>2, <1>3, <1>4 DEF Jumps, Right

(* A scope is entered that saves what jumps were taken before it.          *)
LEMMA Entering ==
  ASSUME NEW s, NEW c, Jumps(s, c),
         NEW x, Scoped(x), Len(x) = Len(s) + 1, SameUpTo(s, x, Len(s)),
         x[Len(s) + 1].saved = c,
         NEW d, IsCan(d),
         d.break = (c.break \/ x[Len(s) + 1].kind \in Takers),
         d.continue = (c.continue \/ x[Len(s) + 1].kind \in Loops)
  PROVE  Jumps(x, d)
<1> DEFINE n == Len(s)
<1>1. n \in Nat /\ n > 0
  BY ScopedLen DEF Jumps
<1>2. x[1].kind = "body"
  BY <1>1 DEF SameUpTo, Jumps
<1>3. \A i \in 1..n : Restores(x, i)
  BY <1>1, SameRestores DEF Jumps
<1>4. Breaks(x, n) = Breaks(s, n) /\ Continues(x, n) = Continues(s, n)
  BY <1>1, SameTaken
<1>5. IsCan(c) /\ c.break = Breaks(s, n) /\ c.continue = Continues(s, n)
  BY DEF Jumps, Right
<1>6. Restores(x, n + 1)
  <2>1. (n + 1) - 1 = n
    BY <1>1
  <2> QED
    BY <1>4, <1>5, <2>1 DEF Restores
<1>7. \A i \in 1..n + 1 : Restores(x, i)
  <2> SUFFICES ASSUME NEW i \in 1..n + 1 PROVE Restores(x, i)
    OBVIOUS
  <2>1. i \in 1..n \/ i = n + 1
    BY <1>1
  <2> QED
    BY <1>3, <1>6, <2>1
<1>8. /\ Breaks(x, n + 1) = (Breaks(x, n) \/ x[n + 1].kind \in Takers)
      /\ Continues(x, n + 1) = (Continues(x, n) \/ x[n + 1].kind \in Loops)
  <2>1. \A i : i \in 1..n + 1 <=> i \in 1..n \/ i = n + 1
    BY <1>1
  <2> HIDE DEF n
  <2> QED
    BY <2>1 DEF Breaks, Continues
<1>9. d.break = Breaks(x, n + 1) /\ d.continue = Continues(x, n + 1)
  BY <1>4, <1>5, <1>8
<1> QED
  BY <1>1, <1>2, <1>7, <1>9 DEF Jumps, Right

(* The scope on top is exchanged for the next part of the same statement.  *)
LEMMA Exchanged ==
  ASSUME NEW s, NEW c, Jumps(s, c), Len(s) > 1,
         NEW x, Scoped(x), Len(x) = Len(s), SameUpTo(s, x, Len(s) - 1),
         x[Len(s)].saved = s[Len(s)].saved,
         x[Len(s)].kind \in Takers <=> s[Len(s)].kind \in Takers,
         x[Len(s)].kind \in Loops <=> s[Len(s)].kind \in Loops
  PROVE  Jumps(x, c)
<1> DEFINE n == Len(s) - 1
<1>1. n \in Nat /\ n > 0 /\ n + 1 = Len(s)
  BY ScopedLen DEF Jumps
<1>2. x[1].kind = "body"
  BY <1>1 DEF SameUpTo, Jumps
<1>3. \A i \in 1..n : Restores(s, i)
  BY <1>1 DEF Jumps
<1>4. \A i \in 1..n : Restores(x, i)
  BY <1>1, <1>3, SameRestores
<1>5. Breaks(x, n) = Breaks(s, n) /\ Continues(x, n) = Continues(s, n)
  BY <1>1, SameTaken
<1>6. Restores(x, n + 1)
  <2>1. (n + 1) - 1 = n /\ Restores(s, n + 1)
    BY <1>1 DEF Jumps
  <2>2. /\ x[n + 1].saved = s[n + 1].saved
        /\ x[n + 1].kind \in Takers <=> s[n + 1].kind \in Takers
        /\ x[n + 1].kind \in Loops <=> s[n + 1].kind \in Loops
    BY <1>1
  <2> HIDE DEF n
  <2> QED
    BY <1>5, <2>1, <2>2 DEF Restores
<1>7. \A i \in 1..n + 1 : Restores(x, i)
  <2> SUFFICES ASSUME NEW i \in 1..n + 1 PROVE Restores(x, i)
    OBVIOUS
  <2>1. i \in 1..n \/ i = n + 1
    BY <1>1
  <2> QED
    BY <1>4, <1>6, <2>1
<1>8. Breaks(x, n + 1) = Breaks(s, n + 1) /\ Continues(x, n + 1) = Continues(s, n + 1)
  <2>1. \A i : i \in 1..n + 1 <=> i \in 1..n \/ i = n + 1
    BY <1>1
  <2>2. /\ x[n + 1].kind \in Takers <=> s[n + 1].kind \in Takers
        /\ x[n + 1].kind \in Loops <=> s[n + 1].kind \in Loops
    BY <1>1
  <2> HIDE DEF n
  <2> QED
    BY <1>5, <2>1, <2>2 DEF Breaks, Continues
<1> QED
  BY <1>1, <1>2, <1>7, <1>8 DEF Jumps, Right

(* A scope is left and what it saved is restored.                          *)
LEMMA Leaving ==
  ASSUME NEW s, NEW c, Jumps(s, c), Len(s) > 1,
         NEW x, Scoped(x), Len(x) = Len(s) - 1, SameUpTo(s, x, Len(s) - 1),
         NEW d, IsCan(d),
         d.break = IF s[Len(s)].kind \in Takers THEN s[Len(s)].saved.break ELSE c.break,
         d.continue = IF s[Len(s)].kind \in Loops THEN s[Len(s)].saved.continue ELSE c.continue
  PROVE  Jumps(x, d)
<1> DEFINE n == Len(s) - 1
<1>1. n \in Nat /\ n > 0 /\ n + 1 = Len(s)
  BY ScopedLen DEF Jumps
<1>2. x[1].kind = "body"
  BY <1>1 DEF SameUpTo, Jumps
<1>3. \A i \in 1..n : Restores(s, i)
  BY <1>1 DEF Jumps
<1>4. \A i \in 1..n : Restores(x, i)
  BY <1>1, <1>3, SameRestores
<1>5. Breaks(x, n) = Breaks(s, n) /\ Continues(x, n) = Continues(s, n)
  BY <1>1, SameTaken
<1>6. Restores(s, n + 1) /\ (n + 1) - 1 = n
  BY <1>1 DEF Jumps
<1>7. c.break = Breaks(s, n + 1) /\ c.continue = Continues(s, n + 1)
  BY <1>1 DEF Jumps, Right
<1>8. /\ s[n + 1].kind \notin Takers => Breaks(s, n + 1) = Breaks(s, n)
      /\ s[n + 1].kind \notin Loops => Continues(s, n + 1) = Continues(s, n)
  <2>1. \A i : i \in 1..n + 1 <=> i \in 1..n \/ i = n + 1
    BY <1>1
  <2> HIDE DEF n
  <2> QED
    BY <2>1 DEF Breaks, Continues
<1>9. /\ d.break = IF s[n + 1].kind \in Takers THEN s[n + 1].saved.break ELSE c.break
      /\ d.continue = IF s[n + 1].kind \in Loops THEN s[n + 1].saved.continue ELSE c.continue
  BY <1>1
<1>10. d.break = Breaks(x, n) /\ d.continue = Continues(x, n)
  <2> HIDE DEF n
  <2> QED
    BY <1>5, <1>6, <1>7, <1>8, <1>9 DEF Restores
<1> QED
  BY <1>1, <1>2, <1>4, <1>10 DEF Jumps, Right

-----------------------------------------------------------------------------
(* The actions *)

(* A body starts with no statement around it.                              *)
LEMMA InitIInv == Init => IInv
<1> SUFFICES ASSUME Init PROVE IInv
  OBVIOUS
<1> DEFINE f == Frame("body", None, Unknown, TRUE, TRUE)
<1>1. /\ scopes = <<f>> /\ dead = FALSE /\ run = "here"
      /\ can = [break |-> FALSE, continue |-> FALSE]
  BY DEF Init
<1>2. {"kind", "saved"} \subseteq DOMAIN f /\ f.kind = "body" /\ f.saved = can
  BY DEF Frame
<1> HIDE DEF f
<1>3. Len(scopes) = 1 /\ scopes[1] = f /\ scopes \in Seq({f})
  BY <1>1
<1>4. Scoped(scopes)
  BY <1>2, <1>3 DEF Scoped
<1>5. ~Breaks(scopes, 0) /\ ~Continues(scopes, 0)
  BY DEF Breaks, Continues
<1>6. "body" \notin Takers /\ "body" \notin Loops
  BY DEF Takers, Loops
<1>7. Breaks(scopes, 1) = FALSE /\ Continues(scopes, 1) = FALSE
  BY <1>2, <1>3, <1>6 DEF Breaks, Continues
<1>8. IsCan(can) /\ can.break = FALSE /\ can.continue = FALSE
  BY <1>1 DEF IsCan
<1>9. \A i \in 1..1 : Restores(scopes, i)
  BY <1>2, <1>3, <1>6, <1>8 DEF Restores
<1>10. Right(can, scopes, Len(scopes))
  BY <1>3, <1>7, <1>8 DEF Right
<1>11. Jumps(scopes, can)
  BY <1>2, <1>3, <1>4, <1>9, <1>10 DEF Jumps
<1> QED
  BY <1>1, <1>11 DEF IInv

(* The walk has the scopes of the state.                                   *)
LEMMA WalkWalked ==
  ASSUME IInv
  PROVE  Walked(Walk) /\ SameFrames(scopes, Walk.scopes) /\ Walk.scopes = scopes
BY DEF IInv, Jumps, Walked, Walk, SameFrames, SameUpTo

(* A new frame saves can_break and can_continue.                           *)
LEMMA FrameFields ==
  ASSUME NEW kind, NEW cond, NEW f, NEW entered, NEW held
  PROVE  /\ {"kind", "saved"} \subseteq DOMAIN Frame(kind, cond, f, entered, held)
         /\ Frame(kind, cond, f, entered, held).kind = kind
         /\ Frame(kind, cond, f, entered, held).saved = can
BY DEF Frame

(* A statement with a scope is entered.                                    *)
LEMMA EnterKeeps ==
  ASSUME IInv, NEW w, Walked(w), SameFrames(scopes, w.scopes),
         NEW frame, {"kind", "saved"} \subseteq DOMAIN frame, frame.saved = can,
         Enter(w, frame),
         can' = IF frame.kind \in Loops THEN [break |-> TRUE, continue |-> TRUE]
                ELSE IF frame.kind = "case" THEN [can EXCEPT !.break = TRUE] ELSE can
  PROVE  IInv'
<1>1. PICK x : x = Append(w.scopes, frame)
  OBVIOUS
<1>2. scopes' = x
  BY <1>1 DEF Enter, Keep, Walked
<1>3. Jumps(scopes, can) /\ IsCan(can) /\ can.break \in BOOLEAN /\ can.continue \in BOOLEAN
  BY DEF IInv, Jumps, Right, Breaks, Continues
<1>4. Jumps(w.scopes, can)
  BY <1>3, SameJumps DEF Walked
<1>5. /\ Scoped(x) /\ Len(x) = Len(w.scopes) + 1 /\ x[Len(w.scopes) + 1] = frame
      /\ SameUpTo(w.scopes, x, Len(w.scopes))
  <2>1. Grown(w.scopes, frame, x)
    BY <1>1, Pushed, Zenon DEF Walked
  <2> QED
    BY <2>1 DEF Grown
<1>6. PICK d : d = IF frame.kind \in Loops THEN [break |-> TRUE, continue |-> TRUE]
                   ELSE IF frame.kind = "case" THEN [can EXCEPT !.break = TRUE] ELSE can
  OBVIOUS
<1>7. "case" \notin Loops
  BY DEF Loops
<1>8. /\ IsCan(d)
      /\ d.break = (can.break \/ frame.kind \in Takers)
      /\ d.continue = (can.continue \/ frame.kind \in Loops)
  <2>1. CASE frame.kind \in Loops
    BY <1>3, <1>6, <2>1 DEF IsCan, Takers
  <2>2. CASE frame.kind = "case"
    BY <1>3, <1>6, <1>7, <2>2 DEF IsCan, Takers
  <2>3. CASE frame.kind \notin Loops /\ frame.kind # "case"
    BY <1>3, <1>6, <2>3 DEF Takers
  <2> QED
    BY <2>1, <2>2, <2>3
<1>9. Jumps(x, d)
  BY <1>4, <1>5, <1>8, Entering
<1>10. dead' => ~live'
  BY DEF Enter, IInv, live
<1> QED
  BY <1>2, <1>6, <1>9, <1>10 DEF IInv

(* assign_operator.                                                        *)
LEMMA AssignKeeps == ASSUME IInv, NEW t, Assign(t) PROVE IInv'
<1>a. PICK v : Keep(AssignOperator(Walk, t, v))
  BY DEF Assign
<1>1. PICK x : x = AssignOperator(Walk, t, v)
  OBVIOUS
<1>2. Walked(x) /\ SameFrames(scopes, x.scopes)
  BY <1>1, WalkWalked, AssignSame
<1>3. scopes' = x.scopes /\ UNCHANGED <<dead, can, run>>
  BY <1>1, <1>a DEF Assign, Keep
<1>4. Jumps(x.scopes, can)
  BY <1>2, SameJumps DEF IInv, Walked
<1> QED
  BY <1>3, <1>4 DEF IInv, live

(* block_statement, and try_statement up to its body.                      *)
LEMMA BlockKeeps == ASSUME IInv, NEW kind \in {"block", "try"}, Block(kind) PROVE IInv'
<1> DEFINE f == Frame(kind, None, Unknown, live, live)
<1>1. Enter(Walk, f) /\ can' = can /\ f.kind \notin Loops \cup {"case"}
  BY FrameFields DEF Block, Loops
<1>2. {"kind", "saved"} \subseteq DOMAIN f /\ f.saved = can
  BY FrameFields
<1> HIDE DEF f
<1> QED
  BY <1>1, <1>2, WalkWalked, EnterKeeps

(* if_statement up to its first branch.                                    *)
LEMMA ThenKeeps == ASSUME IInv, NEW c, Then(c) PROVE IInv'
<1>a. PICK v \in Evaluated(c) :
        LET w == Collected(Walk, c, v) IN
        Enter(w, Frame("then", c, Guarded(c, TRUE, TypeIn(w), Unknown), live, live /\ Satisfied(c, v)))
  BY DEF Then
<1>1. PICK w : w = Collected(Walk, c, v)
  OBVIOUS
<1>b. PICK f : f = Frame("then", c, Guarded(c, TRUE, TypeIn(w), Unknown), live, live /\ Satisfied(c, v))
  OBVIOUS
<1>2. /\ {"kind", "saved"} \subseteq DOMAIN f /\ f.saved = can /\ f.kind = "then"
      /\ Enter(w, f)
  BY <1>1, <1>a, <1>b DEF Frame
<1>3. Walked(w) /\ SameFrames(scopes, w.scopes)
  BY <1>1, WalkWalked, CollectedSame
<1>4. can' = can /\ "then" \notin Loops \cup {"case"}
  BY DEF Then, Loops
<1> QED
  BY <1>2, <1>3, <1>4, EnterKeeps

(* while_statement up to its body.                                         *)
LEMMA WhileKeeps == ASSUME IInv, NEW c, While(c) PROVE IInv'
<1>a. PICK u \in Evaluated(c) :
        Enter(NarrowTop(Collected(Walk, c, u), c),
              Frame("while", c, Unknown, live, live /\ Satisfied(c, u)))
  BY DEF While
<1>1. PICK v : v = Collected(Walk, c, u)
  OBVIOUS
<1>2. Walked(v) /\ SameFrames(scopes, v.scopes)
  BY <1>1, WalkWalked, CollectedSame
<1>3. PICK w : w = NarrowTop(v, c)
  OBVIOUS
<1>4. Walked(w) /\ SameFrames(scopes, w.scopes)
  BY <1>2, <1>3, NarrowSame, SameIsTransitive
<1>5. PICK f : /\ {"kind", "saved"} \subseteq DOMAIN f /\ f.saved = can /\ f.kind = "while"
               /\ Enter(w, f)
  BY <1>1, <1>3, <1>a, FrameFields
<1>6. can' = [break |-> TRUE, continue |-> TRUE] /\ "while" \in Loops
  BY DEF While, Loops
<1> QED
  BY <1>4, <1>5, <1>6, EnterKeeps

(* do_while_statement up to its body.                                      *)
LEMMA DoKeeps == ASSUME IInv, NEW c, Do(c) PROVE IInv'
<1>1. PICK f : /\ {"kind", "saved"} \subseteq DOMAIN f /\ f.saved = can /\ f.kind = "do"
               /\ Enter(Walk, f)
  BY FrameFields DEF Do
<1>2. can' = [break |-> TRUE, continue |-> TRUE] /\ "do" \in Loops
  BY DEF Do, Loops
<1> QED
  BY <1>1, <1>2, WalkWalked, EnterKeeps

(* for_each_statement up to its body.                                      *)
LEMMA ForEachKeeps == ASSUME IInv, ForEach PROVE IInv'
<1>1. PICK f : /\ {"kind", "saved"} \subseteq DOMAIN f /\ f.saved = can /\ f.kind = "foreach"
               /\ Enter(Walk, f)
  BY FrameFields DEF ForEach
<1>2. can' = [break |-> TRUE, continue |-> TRUE] /\ "foreach" \in Loops
  BY DEF ForEach, Loops
<1> QED
  BY <1>1, <1>2, WalkWalked, EnterKeeps

(* switch_statement up to its first clause.                                *)
LEMMA SwitchKeeps == ASSUME IInv, Switch PROVE IInv'
<1>1. PICK f : /\ {"kind", "saved"} \subseteq DOMAIN f /\ f.saved = can /\ f.kind = "case"
               /\ Enter(Walk, f)
  BY FrameFields DEF Switch
<1>2. can' = [can EXCEPT !.break = TRUE] /\ "case" \notin Loops
  BY DEF Switch, Loops
<1> QED
  BY <1>1, <1>2, WalkWalked, EnterKeeps

(* for_statement up to its body: the frame is on the stack while the       *)
(* condition and the step are collected.                                   *)
LEMMA ForKeeps == ASSUME IInv, NEW c, NEW t, For(c, t) PROVE IInv'
<1>1. PICK v, frame, w :
        /\ {"kind", "saved"} \subseteq DOMAIN frame /\ frame.saved = can /\ frame.kind = "for"
        /\ w = Stepped(NarrowTop(Collected([Walk EXCEPT !.scopes = Append(@, frame)], c, v), c), t, v)
        /\ Enter([w EXCEPT !.scopes = Front(@)], Last(w.scopes))
  <2>1. PICK v \in Evaluated(c) :
          LET frame == [Frame("for", c, Unknown, live, live /\ Satisfied(c, v)) EXCEPT !.step = t]
              w == Stepped(NarrowTop(Collected([Walk EXCEPT !.scopes = Append(@, frame)], c, v), c), t, v) IN
          Enter([w EXCEPT !.scopes = Front(@)], Last(w.scopes))
    BY DEF For
  <2>2. PICK frame : frame = [Frame("for", c, Unknown, live, live /\ Satisfied(c, v)) EXCEPT !.step = t]
    OBVIOUS
  <2>3. {"kind", "saved"} \subseteq DOMAIN frame /\ frame.saved = can /\ frame.kind = "for"
    BY <2>2, FrameFields
  <2> QED
    BY <2>1, <2>2, <2>3
<1>2. PICK a : a = [Walk EXCEPT !.scopes = Append(@, frame)]
  OBVIOUS
<1>3. a.scopes = Append(scopes, frame) /\ "scopes" \in DOMAIN a
  BY <1>2 DEF Walk
<1>4. Scoped(scopes) /\ Len(scopes) \in Nat /\ Len(scopes) > 0
  BY ScopedLen DEF IInv, Jumps
<1>5. /\ Scoped(a.scopes) /\ Len(a.scopes) = Len(scopes) + 1
      /\ a.scopes[Len(scopes) + 1] = frame /\ SameUpTo(scopes, a.scopes, Len(scopes))
  <2>1. Grown(scopes, frame, a.scopes)
    BY <1>1, <1>3, <1>4, Pushed, Zenon
  <2> QED
    BY <2>1 DEF Grown
<1>6. Walked(a)
  BY <1>3, <1>4, <1>5 DEF Walked
<1>7. PICK b : b = Collected(a, c, v)
  OBVIOUS
<1>8. Walked(b) /\ SameFrames(a.scopes, b.scopes)
  BY <1>6, <1>7, CollectedSame
<1>9. PICK e : e = NarrowTop(b, c)
  OBVIOUS
<1>10. Walked(e) /\ SameFrames(a.scopes, e.scopes)
  BY <1>8, <1>9, NarrowSame, SameIsTransitive
<1>11. w = Stepped(e, t, v)
  BY <1>1, <1>2, <1>7, <1>9
<1>12. Walked(w) /\ SameFrames(a.scopes, w.scopes)
  BY <1>10, <1>11, SteppedSame, SameIsTransitive
<1> DEFINE n == Len(scopes) + 1
           s == w.scopes
<1>13. /\ Len(s) = n /\ s[n].kind = "for" /\ s[n].saved = can
       /\ SameUpTo(scopes, s, n - 1)
       /\ {"kind", "saved"} \subseteq DOMAIN s[n]
  <2>1. Len(s) = n /\ n \in Nat /\ n \in 1..n
    BY <1>4, <1>5, <1>12 DEF SameFrames
  <2>2. s[n].kind = "for" /\ s[n].saved = can
    BY <1>1, <1>5, <1>12, <2>1 DEF SameFrames, SameUpTo
  <2>3. SameUpTo(scopes, s, n - 1)
    BY <1>4, <1>5, <1>12 DEF SameFrames, SameUpTo
  <2>4. {"kind", "saved"} \subseteq DOMAIN s[n]
    BY <1>12, <2>1, ScopedLen DEF Walked
  <2> QED
    BY <2>1, <2>2, <2>3, <2>4
<1>14. PICK u : u = [w EXCEPT !.scopes = Front(@)]
  OBVIOUS
<1>15. u.scopes = Front(s) /\ "scopes" \in DOMAIN u
  BY <1>12, <1>14 DEF Walked
<1>16. Scoped(u.scopes) /\ Len(u.scopes) = n - 1 /\ \A i \in 1..n - 1 : u.scopes[i] = s[i]
  BY <1>12, <1>13, <1>15, Popped DEF Walked
<1>17. Walked(u) /\ SameFrames(scopes, u.scopes)
  BY <1>4, <1>13, <1>15, <1>16 DEF Walked, SameFrames, SameUpTo
<1>18. Enter(u, s[n])
  BY <1>1, <1>13, <1>14 DEF Last
<1>19. can' = [break |-> TRUE, continue |-> TRUE] /\ "for" \in Loops
  BY DEF For, Loops
<1> HIDE DEF n, s
<1> QED
  BY <1>13, <1>17, <1>18, <1>19, EnterKeeps

-----------------------------------------------------------------------------
(* A scope other than that of the body is not the first.                   *)
LEMMA TopFacts ==
  ASSUME IInv, Top.kind # "body"
  PROVE  /\ Len(scopes) \in Nat /\ Len(scopes) > 1 /\ Top = scopes[Len(scopes)]
         /\ {"kind", "saved"} \subseteq DOMAIN Top
<1>1. Scoped(scopes) /\ Len(scopes) > 0 /\ scopes[1].kind = "body"
  BY DEF IInv, Jumps
<1>2. /\ Len(scopes) \in Nat
      /\ \A i \in 1..Len(scopes) : {"kind", "saved"} \subseteq DOMAIN scopes[i]
  BY <1>1, ScopedLen
<1>3. Top = scopes[Len(scopes)]
  BY DEF Top, Last
<1> QED
  BY <1>1, <1>2, <1>3

(* What is left of the scopes when the innermost one ends.                 *)
LEMMA LeftFacts ==
  ASSUME IInv, Len(scopes) > 1
  PROVE  /\ "scopes" \in DOMAIN Left
         /\ Scoped(Left.scopes) /\ Len(Left.scopes) = Len(scopes) - 1
         /\ SameUpTo(scopes, Left.scopes, Len(scopes) - 1)
         /\ Len(Outer) = Len(scopes) - 1
<1>1. Scoped(scopes) /\ Len(scopes) \in Nat
  BY ScopedLen DEF IInv, Jumps
<1>2. PICK o : o = Front(scopes)
  OBVIOUS
<1>3. Scoped(o) /\ Len(o) = Len(scopes) - 1 /\ \A i \in 1..Len(scopes) - 1 : o[i] = scopes[i]
  BY <1>1, <1>2, Popped
<1>4. PICK x : x = ExitScope(o, Top.wrote)
  OBVIOUS
<1>5. Scoped(x) /\ SameFrames(o, x)
  BY <1>3, <1>4, Exited
<1>6. Left.scopes = x /\ "scopes" \in DOMAIN Left
  BY <1>2, <1>4 DEF Left, Walk, Outer
<1>7. SameUpTo(scopes, x, Len(scopes) - 1)
  BY <1>3, <1>5 DEF SameFrames, SameUpTo
<1> QED
  BY <1>2, <1>3, <1>5, <1>6, <1>7 DEF Outer, SameFrames

(* The next part of a statement of the same kind.                          *)
LEMMA FollowKeeps ==
  ASSUME IInv, NEW kind, NEW f, NEW held, NEW runs, Follow(kind, f, held, runs),
         Top.kind # "body", Top.kind \notin Loops, kind \notin Loops,
         kind = "case" <=> Top.kind = "case"
  PROVE  IInv'
<1>1. PICK frame : frame = [Frame(kind, Top.cond, f, Top.entered, held) EXCEPT !.saved = Top.saved]
  OBVIOUS
<1>2. {"kind", "saved"} \subseteq DOMAIN frame /\ frame.kind = kind /\ frame.saved = Top.saved
  BY <1>1 DEF Frame
<1>3. PICK x : x = Append(Left.scopes, frame)
  OBVIOUS
<1>4. scopes' = x /\ dead' = FALSE /\ can' = can
  BY <1>1, <1>3, TopFacts, LeftFacts DEF Follow, Keep, Revive
<1>5. Len(scopes) \in Nat /\ Len(scopes) > 1 /\ Top = scopes[Len(scopes)]
  BY TopFacts
<1>6. /\ Scoped(x) /\ Len(x) = Len(scopes) /\ x[Len(scopes)] = frame
      /\ SameUpTo(scopes, x, Len(scopes) - 1)
  <2>1. /\ Scoped(Left.scopes) /\ Len(Left.scopes) = Len(scopes) - 1
        /\ SameUpTo(scopes, Left.scopes, Len(scopes) - 1)
    BY <1>5, LeftFacts
  <2>2. Grown(Left.scopes, frame, x)
    BY <1>2, <1>3, <2>1, Pushed, Zenon
  <2> QED
    BY <1>5, <2>1, <2>2 DEF Grown, SameUpTo
<1>7. /\ x[Len(scopes)].saved = scopes[Len(scopes)].saved
      /\ x[Len(scopes)].kind \in Takers <=> scopes[Len(scopes)].kind \in Takers
      /\ x[Len(scopes)].kind \in Loops <=> scopes[Len(scopes)].kind \in Loops
  BY <1>2, <1>5, <1>6 DEF Takers
<1>8. Jumps(x, can)
  BY <1>5, <1>6, <1>7, Exchanged DEF IInv
<1> QED
  BY <1>4, <1>8 DEF IInv

(* The other branch of an if.                                              *)
LEMMA ElseKeeps == ASSUME IInv, Else PROVE IInv'
<1>1. PICK f, held, runs : Follow("else", f, held, runs)
  BY DEF Else
<1>2. Top.kind = "then"
  BY DEF Else
<1> QED
  BY <1>1, <1>2, FollowKeeps DEF Loops

(* The next clause of a switch.                                            *)
LEMMA CaseKeeps == ASSUME IInv, Case PROVE IInv'
<1>1. PICK f, held, runs : Follow("case", f, held, runs)
  BY DEF Case
<1>2. Top.kind = "case"
  BY DEF Case
<1> QED
  BY <1>1, <1>2, FollowKeeps DEF Loops

(* The handler of a try.                                                   *)
LEMMA CatchKeeps == ASSUME IInv, Catch PROVE IInv'
<1>1. PICK f, held, runs : Follow("catch", f, held, runs)
  BY DEF Catch
<1>2. Top.kind = "try"
  BY DEF Catch
<1> QED
  BY <1>1, <1>2, FollowKeeps DEF Loops

(* return_statement, break_statement, continue_statement and               *)
(* throw_statement: the code after it is dead and the run is elsewhere.    *)
LEMMA JumpKeeps ==
  ASSUME IInv, NEW to \in {"break", "continue", "out", "throw"}, Jump(to) PROVE IInv'
<1>1. scopes' = scopes /\ can' = can /\ run' = IF live THEN to ELSE run
  BY DEF Jump
<1>2. ~live'
  BY <1>1 DEF live
<1> QED
  BY <1>1, <1>2 DEF IInv

(* The end of a statement: what it saved is restored.                      *)
LEMMA LeaveKeeps == ASSUME IInv, Leave PROVE IInv'
<1>1. Len(scopes) > 1 /\ Len(scopes) \in Nat /\ dead' = FALSE
  BY ScopedLen DEF IInv, Jumps, Leave, Revive
<1>2. PICK l : l = Left
  OBVIOUS
<1>3. /\ "scopes" \in DOMAIN l
      /\ Scoped(l.scopes) /\ Len(l.scopes) = Len(scopes) - 1
      /\ SameUpTo(scopes, l.scopes, Len(scopes) - 1)
      /\ Len(Outer) = Len(scopes) - 1
  BY <1>1, <1>2, LeftFacts
<1>4. PICK n : n = Len(Outer)
  OBVIOUS
<1>5. PICK known, v :
        /\ known = [l EXCEPT !.scopes[n].why =
                      IF Top.kind = "while" /\ Outer[n].flow # None THEN @ \cup {"loop"} ELSE @]
        /\ scopes' = (IF Top.kind = "do" THEN Skipped(Collected(known, Top.cond, v), Top.cond) ELSE known).scopes
  BY <1>2, <1>4 DEF Leave, Keep
<1>6. Walked(l)
  BY <1>1, <1>3 DEF Walked
<1>7. Walked(known) /\ SameFrames(l.scopes, known.scopes)
  <2> DEFINE top == l.scopes[n]
             e == [top EXCEPT !.why = IF Top.kind = "while" /\ Outer[n].flow # None
                                      THEN @ \cup {"loop"} ELSE @]
  <2>1. n = Len(l.scopes) /\ n \in 1..Len(l.scopes)
    BY <1>1, <1>3, <1>4
  <2>2. {"kind", "saved"} \subseteq DOMAIN top
    BY <1>3, <2>1, ScopedLen
  <2>3. {"kind", "saved"} \subseteq DOMAIN e /\ e.kind = top.kind /\ e.saved = top.saved
    BY <2>2
  <2>4. "scopes" \in DOMAIN known /\ known.scopes = [l.scopes EXCEPT ![n] = e]
    BY <1>3, <1>5
  <2> HIDE DEF e
  <2> QED
    BY <1>6, <2>1, <2>3, <2>4, TopReplaced
<1>8. PICK x : x = (IF Top.kind = "do" THEN Skipped(Collected(known, Top.cond, v), Top.cond) ELSE known)
  OBVIOUS
<1>9. Walked(x) /\ SameFrames(l.scopes, x.scopes)
  <2>1. CASE Top.kind = "do"
    BY <1>7, <1>8, <2>1, CollectedSame, SkippedSame, SameIsTransitive
  <2>2. CASE Top.kind # "do"
    BY <1>7, <1>8, <2>2
  <2> QED
    BY <2>1, <2>2
<1>10. /\ scopes' = x.scopes /\ Scoped(x.scopes) /\ Len(x.scopes) = Len(scopes) - 1
       /\ SameUpTo(scopes, x.scopes, Len(scopes) - 1)
  BY ZenonT(60), <1>3, <1>5, <1>8, <1>9 DEF Walked, SameFrames, SameUpTo
<1>11. PICK top : top = scopes[Len(scopes)]
  OBVIOUS
<1>12. Top = top
  BY <1>11 DEF Top, Last
<1>13. Jumps(scopes, can) /\ IsCan(can) /\ Restores(scopes, Len(scopes)) /\ IsCan(top.saved)
  BY <1>1, <1>11 DEF IInv, Jumps, Right, Restores
<1>14. PICK d : d = IF top.kind \in Loops THEN top.saved
                    ELSE IF top.kind = "case" THEN [can EXCEPT !.break = top.saved.break] ELSE can
  OBVIOUS
<1>15. can' = d
  BY <1>12, <1>14 DEF Leave
<1>16. "case" \notin Loops
  BY DEF Loops
<1>17. /\ IsCan(d)
       /\ d.break = IF top.kind \in Takers THEN top.saved.break ELSE can.break
       /\ d.continue = IF top.kind \in Loops THEN top.saved.continue ELSE can.continue
  <2>1. CASE top.kind \in Loops
    BY <1>13, <1>14, <2>1 DEF Takers
  <2>2. CASE top.kind = "case"
    BY <1>13, <1>14, <1>16, <2>2 DEF Takers, IsCan
  <2>3. CASE top.kind \notin Loops /\ top.kind # "case"
    BY <1>13, <1>14, <2>3 DEF Takers
  <2> QED
    BY <2>1, <2>2, <2>3
<1>18. Jumps(x.scopes, d)
  BY <1>1, <1>10, <1>11, <1>13, <1>17, Leaving
<1> QED
  BY <1>1, <1>10, <1>15, <1>18 DEF IInv

(* Every scope can restore what was taken before it, and dead code is not  *)
(* reached.                                                                *)
THEOREM Invariance == Spec => []IInv
<1>1. ASSUME IInv, [Next]_vars PROVE IInv'
  <2>1. CASE UNCHANGED vars
    BY <1>1, <2>1 DEF IInv, live, vars
  <2>2. CASE Next
    <3>1. ASSUME NEW t \in family.assigned, Assign(t) PROVE IInv'
      BY <1>1, <3>1, AssignKeeps
    <3>2. ASSUME NEW c \in family.conditions, Then(c) \/ While(c) \/ Do(c) PROVE IInv'
      BY <1>1, <3>2, ThenKeeps, WhileKeeps, DoKeeps
    <3>3. ASSUME NEW c \in family.conditions, NEW t \in family.assigned \cup {None}, For(c, t)
          PROVE  IInv'
      BY <1>1, <3>3, ForKeeps
    <3>4. ASSUME NEW kind \in {"block", "try"}, Block(kind) PROVE IInv'
      BY <1>1, <3>4, BlockKeeps
    <3>5. ASSUME NEW to \in {"break", "continue", "out", "throw"}, Jump(to) PROVE IInv'
      BY <1>1, <3>5, JumpKeeps
    <3>6. CASE ForEach \/ Switch \/ Else \/ Case \/ Catch \/ Leave
      BY <1>1, <3>6, ForEachKeeps, SwitchKeeps, ElseKeeps, CaseKeeps, CatchKeeps, LeaveKeeps
    <3> QED
      BY <2>2, <3>1, <3>2, <3>3, <3>4, <3>5, <3>6, Zenon DEF Next
  <2> QED
    BY <1>1, <2>1, <2>2
<1> QED
  BY <1>1, InitIInv, PTL DEF Spec

(* Code reported as unreachable is not reached, and break and continue are *)
(* reported exactly where no statement around them takes them              *)
(* (JumpsReported): dead_code, can_break and can_continue of the resolver. *)
THEOREM JumpsReportedHolds == Spec => []JumpsReported
<1>1. IInv => JumpsReported
  <2> SUFFICES ASSUME IInv PROVE JumpsReported
    OBVIOUS
  <2>1. DOMAIN scopes = 1..Len(scopes)
    BY ScopedLen DEF IInv, Jumps
  <2> QED
    BY <2>1 DEF IInv, Jumps, Right, Breaks, Continues, Takers, JumpsReported
<1> QED
  BY <1>1, Invariance, PTL

-----------------------------------------------------------------------------
(* Types *)

(* Two members have the same kind only if they are instances.              *)
Apart(s) ==
  \A i, j \in DOMAIN s : s[i].kind = s[j].kind => i = j \/ s[i].kind = "instance"

(* The places I of s in their order are those that f gives.                *)
Picks(f, I, n) ==
  /\ f \in [1..n -> I]
  /\ \A i, j \in 1..n : f[i] = f[j] => i = j
  /\ \A i \in I : \E m \in 1..n : f[m] = i

-----------------------------------------------------------------------------
(* Sequences of primitives *)

(* A sequence of primitives has a length, and its members have a kind.     *)
LEMMA SeqFacts ==
  ASSUME NEW s, s \in Seq(Primitives)
  PROVE  /\ Len(s) \in Nat /\ DOMAIN s = 1..Len(s)
         /\ \A i \in DOMAIN s : s[i] \in Primitives /\ s[i].kind \in Kinds
         /\ KindsOf(s) \subseteq Kinds
<1>1. Len(s) \in Nat /\ DOMAIN s = 1..Len(s) /\ \A i \in DOMAIN s : s[i] \in Primitives
  OBVIOUS
<1>2. \A p \in Primitives : p.kind \in Kinds
  BY DEF Primitives
<1> QED
  BY <1>1, <1>2 DEF KindsOf

(* A primitive of a kind.                                                  *)
LEMMA PrimIs ==
  ASSUME NEW k \in Kinds, NEW d \in DataOf[k] \cup {None}
  PROVE  Prim(k, d) \in Primitives /\ Prim(k, d).kind = k /\ Prim(k, d).of = d
BY DEF Prim, Primitives, Data

(* Members that are apart make a union.                                    *)
LEMMA UnionIsType ==
  ASSUME NEW s, s \in Seq(Primitives), Len(s) > 1, Apart(s), NEW flags, flags = KindsOf(s)
  PROVE  IsType(Union(s, flags))
<1>1. flags \in SUBSET Kinds
  BY SeqFacts
<1>2. PICK u : u = Union(s, flags)
  OBVIOUS
<1>3. u = [tag |-> "union", members |-> s, flags |-> flags]
  BY <1>2 DEF Union
<1>4. /\ u.tag = "union" /\ u.members = s /\ u.flags = flags
      /\ u \in [tag : {"primitive", "union", "enum"}, members : Seq(Primitives), flags : SUBSET Kinds]
  BY <1>1, <1>3
<1>5. Canonical(u)
  BY <1>4 DEF Canonical, Apart
<1> QED
  BY <1>2, <1>4, <1>5 DEF IsType

(* A primitive is a type.                                                  *)
LEMMA OneIsType ==
  ASSUME NEW p \in Primitives
  PROVE  IsType(One(p))
<1>1. PICK s : s = <<p>>
  OBVIOUS
<1>2. s \in Seq(Primitives) /\ Len(s) = 1 /\ DOMAIN s = {1} /\ s[1] = p
  BY <1>1
<1>3. KindsOf(s) = {p.kind}
  BY <1>2 DEF KindsOf
<1>4. {p.kind} \in SUBSET Kinds
  BY <1>2, <1>3, SeqFacts
<1>5. PICK u : u = One(p)
  OBVIOUS
<1>6. u = [tag |-> "primitive", members |-> s, flags |-> {p.kind}]
  BY <1>1, <1>5 DEF One
<1>7. /\ u.tag = "primitive" /\ u.members = s /\ u.flags = {p.kind}
      /\ u \in [tag : {"primitive", "union", "enum"}, members : Seq(Primitives), flags : SUBSET Kinds]
  BY <1>2, <1>4, <1>6
<1>8. \A i, j \in DOMAIN s : i = j
  BY <1>2
<1>9. Canonical(u)
  BY <1>2, <1>3, <1>7, <1>8 DEF Canonical
<1> QED
  BY <1>2, <1>5, <1>7, <1>9 DEF IsType

(* What a type is made of.                                                 *)
LEMMA TypeFacts ==
  ASSUME NEW t, IsType(t)
  PROVE  /\ t.tag \in {"primitive", "union", "enum"}
         /\ t.members \in Seq(Primitives) /\ Apart(t.members)
         /\ t.flags = KindsOf(t.members)
         /\ t.tag = "union" => Len(t.members) > 1
         /\ t.tag = "primitive" => Len(t.members) = 1 /\ t.members[1] \in Primitives
         /\ t = [tag |-> t.tag, members |-> t.members, flags |-> t.flags]
<1>1. /\ t \in [tag : {"primitive", "union", "enum"}, members : Seq(Primitives), flags : SUBSET Kinds]
      /\ t.tag = "primitive" => Len(t.members) = 1
      /\ Canonical(t)
  BY DEF IsType
<1>2. t.members \in Seq(Primitives)
  BY <1>1
<1>3. Len(t.members) = 1 => t.members[1] \in Primitives
  BY <1>2
<1> QED
  BY <1>1, <1>2, <1>3 DEF Canonical, Apart

(* Members of the same kinds, one by one, are as far apart.                *)
LEMMA SameKinds ==
  ASSUME NEW s, s \in Seq(Primitives), Apart(s), NEW x, x \in Seq(Primitives),
         Len(x) = Len(s), \A i \in DOMAIN s : x[i].kind = s[i].kind
  PROVE  Apart(x) /\ KindsOf(x) = KindsOf(s)
<1>1. DOMAIN x = DOMAIN s
  BY SeqFacts
<1> QED
  BY <1>1 DEF Apart, KindsOf

(* The rank of a member of a set of numbers.                               *)
LEMMA RankFacts ==
  ASSUME NEW N \in Nat, NEW I, I \subseteq 1..N
  PROVE  /\ IsFiniteSet(I) /\ Cardinality(I) \in Nat
         /\ \A i \in I : Cardinality({j \in I : j <= i}) \in 1..Cardinality(I)
         /\ \A i, k \in I : Cardinality({j \in I : j <= i}) = Cardinality({j \in I : j <= k}) => i = k
         /\ \A n \in 1..Cardinality(I) : \E i \in I : Cardinality({j \in I : j <= i}) = n
<1> DEFINE Upto(i) == {j \in I : j <= i}
           rank == [i \in I |-> Cardinality(Upto(i))]
<1>1. IsFiniteSet(I)
  <2>1. IsFiniteSet(1..N)
    BY FS_Interval
  <2> QED
    BY <2>1, FS_Subset
<1>2. Cardinality(I) \in Nat
  BY <1>1, FS_CardinalityType
<1>3. \A i \in I : IsFiniteSet(Upto(i)) /\ Cardinality(Upto(i)) \in Nat
               /\ Cardinality(Upto(i)) <= Cardinality(I)
  <2> SUFFICES ASSUME NEW i \in I
               PROVE  /\ IsFiniteSet(Upto(i)) /\ Cardinality(Upto(i)) \in Nat
                      /\ Cardinality(Upto(i)) <= Cardinality(I)
    OBVIOUS
  <2>1. Upto(i) \in SUBSET I
    OBVIOUS
  <2> HIDE DEF Upto
  <2> QED
    BY <1>1, <2>1, FS_Subset, FS_CardinalityType
<1>4. \A i \in I : Cardinality(Upto(i)) # 0
  <2> SUFFICES ASSUME NEW i \in I PROVE Cardinality(Upto(i)) # 0
    OBVIOUS
  <2>1. i \in Upto(i)
    OBVIOUS
  <2> HIDE DEF Upto
  <2> QED
    BY <1>3, <2>1, FS_EmptySet
<1>5. \A i \in I : rank[i] \in 1..Cardinality(I)
  <2> HIDE DEF Upto
  <2> QED
    BY <1>2, <1>3, <1>4
<1>6. ASSUME NEW i \in I, NEW k \in I, i < k
      PROVE  rank[i] # rank[k]
  <2>1. I \subseteq Int /\ i \in Int /\ k \in Int
    OBVIOUS
  <2>2. \A j \in I : j <= i => j <= k
    BY <1>6, <2>1
  <2>3. k <= k /\ ~ k <= i
    BY <1>6, <2>1
  <2>4. Upto(i) \in SUBSET Upto(k) /\ k \in Upto(k) /\ k \notin Upto(i)
    BY <2>2, <2>3
  <2> HIDE DEF Upto
  <2> QED
    BY <1>3, <2>4, FS_Subset
<1>7. \A i, k \in I : rank[i] = rank[k] => i = k
  <2> SUFFICES ASSUME NEW i \in I, NEW k \in I, i # k PROVE rank[i] # rank[k]
    OBVIOUS
  <2>1. i < k \/ k < i
    OBVIOUS
  <2> HIDE DEF rank
  <2> QED
    BY <1>6, <2>1
<1>8. rank \in Injection(I, 1..Cardinality(I))
  <2>1. rank \in [I -> 1..Cardinality(I)]
    <3>1. rank = [i \in I |-> rank[i]]
      OBVIOUS
    <3> HIDE DEF rank
    <3> QED
      BY <1>5, <3>1
  <2> HIDE DEF rank
  <2> QED
    BY <1>7, <2>1 DEF Injection, IsInjective
<1>9. rank \in Surjection(I, 1..Cardinality(I))
  <2>1. IsFiniteSet(1..Cardinality(I)) /\ Cardinality(1..Cardinality(I)) = Cardinality(I)
    BY <1>2, FS_Interval
  <2> HIDE DEF rank
  <2> QED
    BY <1>8, <2>1, FS_Injection
<1>10. \A n \in 1..Cardinality(I) : \E i \in I : rank[i] = n
  <2> HIDE DEF rank
  <2> QED
    BY <1>9 DEF Surjection
<1> QED
  BY <1>1, <1>2, <1>5, <1>7, <1>10

(* What Chosen chooses: each of the places once.                           *)
LEMMA ChosenFacts ==
  ASSUME NEW s, s \in Seq(Primitives), NEW I, I \subseteq DOMAIN s,
         NEW x, x = Chosen(s, I)
  PROVE  /\ x \in Seq(Primitives)
         /\ \E f : Picks(f, I, Len(x)) /\ \A n \in DOMAIN x : x[n] = s[f[n]]
<1> DEFINE C == Cardinality(I)
           Rank(i) == Cardinality({j \in I : j <= i})
           f == [n \in 1..C |-> CHOOSE i \in I : Rank(i) = n]
<1>1. Len(s) \in Nat /\ DOMAIN s = 1..Len(s) /\ \A i \in DOMAIN s : s[i] \in Primitives
  BY SeqFacts
<1>2. /\ C \in Nat
      /\ \A i \in I : Rank(i) \in 1..C
      /\ \A i, k \in I : Rank(i) = Rank(k) => i = k
      /\ \A n \in 1..C : \E i \in I : Rank(i) = n
  BY <1>1, RankFacts
<1>3. x = [n \in 1..C |-> s[f[n]]]
  BY DEF Chosen
<1> HIDE DEF Rank, C
<1>4. \A n \in 1..C : f[n] \in I /\ Rank(f[n]) = n
  BY <1>2
<1>5. f \in [1..C -> I]
  BY <1>4
<1> HIDE DEF f
<1>6. \A i, j \in 1..C : f[i] = f[j] => i = j
  BY <1>4
<1>7. \A i \in I : \E m \in 1..C : f[m] = i
  BY <1>2, <1>4
<1>8. \A n \in 1..C : s[f[n]] \in Primitives
  BY <1>1, <1>4
<1>9. x \in Seq(Primitives) /\ Len(x) = C
  BY <1>2, <1>3, <1>8, IsASeq
<1>10. DOMAIN x = 1..C /\ \A n \in DOMAIN x : x[n] = s[f[n]]
  BY <1>3
<1>11. Picks(f, I, Len(x))
  BY <1>5, <1>6, <1>7, <1>9 DEF Picks
<1> QED
  BY <1>9, <1>10, <1>11

(* What is chosen is as far apart as where it is from.                     *)
LEMMA ChosenApart ==
  ASSUME NEW s, s \in Seq(Primitives), Apart(s), NEW I, I \subseteq DOMAIN s,
         NEW x, x = Chosen(s, I)
  PROVE  x \in Seq(Primitives) /\ Apart(x) /\ KindsOf(x) = {s[i].kind : i \in I}
<1>1. PICK f : Picks(f, I, Len(x)) /\ \A n \in DOMAIN x : x[n] = s[f[n]]
  BY ChosenFacts
<1>2. x \in Seq(Primitives)
  BY ChosenFacts, Zenon
<1>3. DOMAIN x = 1..Len(x)
  BY <1>2
<1>4. /\ \A n \in DOMAIN x : f[n] \in I
      /\ \A i, j \in DOMAIN x : f[i] = f[j] => i = j
      /\ \A i \in I : \E m \in DOMAIN x : f[m] = i
  BY <1>1, <1>3 DEF Picks
<1>5. Apart(x)
  <2> SUFFICES ASSUME NEW i \in DOMAIN x, NEW j \in DOMAIN x, x[i].kind = x[j].kind
               PROVE  i = j \/ x[i].kind = "instance"
    BY DEF Apart
  <2>1. f[i] \in DOMAIN s /\ f[j] \in DOMAIN s /\ x[i] = s[f[i]] /\ x[j] = s[f[j]]
    BY <1>1, <1>4
  <2>2. f[i] = f[j] \/ s[f[i]].kind = "instance"
    BY <2>1 DEF Apart
  <2> QED
    BY <1>4, <2>1, <2>2
<1>6. KindsOf(x) = {s[i].kind : i \in I}
  BY <1>1, <1>4 DEF KindsOf
<1> QED
  BY <1>2, <1>5, <1>6

(* The first of some places is one of them, if there is one.               *)
LEMMA FirstFacts ==
  ASSUME NEW I, I \subseteq Nat \ {0}
  PROVE  /\ I = {} => FirstOf(I) = 0
         /\ I # {} => FirstOf(I) \in I
         /\ FirstOf(I) = 0 <=> I = {}
<1>1. ASSUME I # {} PROVE FirstOf(I) \in I
  <2>1. \E i \in I : \A j \in I : i <= j
    BY <1>1, Least
  <2> QED
    BY <1>1, <2>1 DEF FirstOf
<1>2. I = {} => FirstOf(I) = 0
  BY DEF FirstOf
<1> QED
  BY <1>1, <1>2

-----------------------------------------------------------------------------
(* Merging *)

(* Two primitives do not merge only if their kinds differ or they are      *)
(* instances.                                                              *)
LEMMA MergeFacts ==
  ASSUME NEW l \in Primitives, NEW r \in Primitives
  PROVE  /\ Merge(l, r) => /\ MergePrimitives(l, r) \in Primitives
                           /\ MergePrimitives(l, r).kind = l.kind /\ l.kind = r.kind
         /\ ~Merge(l, r) => l.kind # r.kind \/ l.kind = "instance"
<1>1. l.kind \in Kinds /\ r.kind \in Kinds
  BY DEF Primitives
<1>2. PICK m : m = MergePrimitives(l, r)
  OBVIOUS
<1>0. \A p : p.kind \in Kinds => p # NoMatch
  <2>1. "no match" \notin Kinds
    BY TypesAssumption
  <2>2. NoMatch.kind = "no match"
    BY DEF NoMatch
  <2> QED
    BY <2>1, <2>2
<1>3. l # NoMatch
  BY <1>0, <1>1
<1>4. Prim(l.kind, None) \in Primitives /\ Prim(l.kind, None).kind = l.kind
  BY <1>1, PrimIs
<1>5. Prim(l.kind, None) # NoMatch
  BY <1>0, <1>1, <1>4
<1>6. CASE l = r
  BY <1>2, <1>3, <1>6 DEF MergePrimitives, Merge
<1>7. CASE l # r /\ l.kind # r.kind
  BY <1>2, <1>7 DEF MergePrimitives, Merge
<1>8. CASE l # r /\ l.kind = r.kind /\ (l.kind = "instance" /\ l.of # None /\ r.of # None)
  BY <1>2, <1>8 DEF MergePrimitives, Merge
<1>9. CASE l # r /\ l.kind = r.kind /\ ~(l.kind = "instance" /\ l.of # None /\ r.of # None)
  <2>1. MergePrimitives(l, r) = Prim(l.kind, None)
    BY <1>9 DEF MergePrimitives
  <2> QED
    BY <1>4, <1>5, <1>9, <2>1 DEF Merge
<1> QED
  BY <1>6, <1>7, <1>8, <1>9

(* A primitive that joins a union.                                         *)
LEMMA IncludeIsType ==
  ASSUME NEW u, IsType(u), u.tag = "union", NEW p \in Primitives
  PROVE  IsType(Include(u, p))
<1> DEFINE s == u.members
           I == {j \in DOMAIN s : Merge(s[j], p)}
           i == FirstOf(I)
<1>1. s \in Seq(Primitives) /\ Apart(s) /\ u.flags = KindsOf(s) /\ Len(s) > 1
  BY TypeFacts
<1>2. Len(s) \in Nat /\ DOMAIN s = 1..Len(s) /\ \A j \in DOMAIN s : s[j] \in Primitives
  BY <1>1, SeqFacts
<1>a. I \subseteq Nat \ {0}
  BY <1>2
<1>3. (I = {} => i = 0) /\ (I # {} => i \in I) /\ (i = 0 <=> I = {})
  BY <1>a, FirstFacts
<1> HIDE DEF s, i
<1>4. CASE i = 0
  <2>1. PICK x : x = Append(s, p)
    OBVIOUS
  <2>2. Include(u, p) = Union(x, KindsOf(s) \cup {p.kind})
    BY <1>1, <1>4, <2>1 DEF Include, s, i
  <2>3. /\ x \in Seq(Primitives) /\ Len(x) = Len(s) + 1 /\ DOMAIN x = 1..Len(s) + 1
        /\ x[Len(s) + 1] = p /\ \A j \in 1..Len(s) : x[j] = s[j]
    BY <1>1, <1>2, <2>1, AppendProperties
  <2>4. \A j \in DOMAIN s : ~Merge(s[j], p)
    BY <1>3, <1>4
  <2>5. \A j \in DOMAIN s : s[j].kind # p.kind \/ s[j].kind = "instance"
    BY <1>2, <2>4, MergeFacts
  <2>6. Apart(x)
    BY <1>1, <1>2, <2>3, <2>5 DEF Apart
  <2>7. KindsOf(x) = KindsOf(s) \cup {p.kind}
    BY <1>2, <2>3 DEF KindsOf
  <2>8. Len(x) > 1
    BY <1>1, <1>2, <2>3
  <2> QED
    BY <2>2, <2>3, <2>6, <2>7, <2>8, UnionIsType
<1>5. CASE i # 0
  <2>1. i \in DOMAIN s /\ Merge(s[i], p)
    BY <1>3, <1>5
  <2>2. PICK m : m = MergePrimitives(s[i], p)
    OBVIOUS
  <2>3. m \in Primitives /\ m.kind = s[i].kind /\ s[i].kind = p.kind
    BY <1>2, <2>1, <2>2, MergeFacts
  <2>4. PICK x : x = [s EXCEPT ![i] = m]
    OBVIOUS
  <2>5. Include(u, p) = Union(x, KindsOf(s) \cup {p.kind})
    BY <1>1, <1>5, <2>2, <2>4 DEF Include, s, i
  <2>6. x \in Seq(Primitives) /\ Len(x) = Len(s)
    BY <1>1, <1>2, <2>1, <2>3, <2>4, ExceptSeq
  <2>7. \A j \in DOMAIN s : x[j].kind = s[j].kind
    BY <2>3, <2>4
  <2>8. Apart(x) /\ KindsOf(x) = KindsOf(s)
    BY <1>1, <2>6, <2>7, SameKinds
  <2>9. KindsOf(s) \cup {p.kind} = KindsOf(s)
    BY <2>1, <2>3 DEF KindsOf
  <2> QED
    BY <1>1, <2>5, <2>6, <2>8, <2>9, UnionIsType
<1> QED
  BY <1>4, <1>5

(* Two sequences one after the other.                                      *)
LEMMA ConcatFacts ==
  ASSUME NEW s, s \in Seq(Primitives), Apart(s), NEW t, t \in Seq(Primitives), Apart(t),
         \A i \in DOMAIN s, j \in DOMAIN t : s[i].kind = t[j].kind => s[i].kind = "instance",
         NEW x, x = s \o t
  PROVE  /\ x \in Seq(Primitives) /\ Len(x) = Len(s) + Len(t) /\ Apart(x)
         /\ KindsOf(x) = KindsOf(s) \cup KindsOf(t)
<1>1. /\ Len(s) \in Nat /\ DOMAIN s = 1..Len(s)
      /\ Len(t) \in Nat /\ DOMAIN t = 1..Len(t)
  BY SeqFacts
<1>2. /\ x \in Seq(Primitives) /\ Len(x) = Len(s) + Len(t)
      /\ \A i \in 1..Len(s) + Len(t) : x[i] = IF i <= Len(s) THEN s[i] ELSE t[i - Len(s)]
  BY ConcatProperties
<1>3. DOMAIN x = 1..Len(s) + Len(t)
  BY <1>2
<1>4. ASSUME NEW i \in DOMAIN x
      PROVE  \/ i \in DOMAIN s /\ x[i] = s[i]
             \/ i - Len(s) \in DOMAIN t /\ x[i] = t[i - Len(s)]
  BY <1>1, <1>2, <1>3
<1>5. ASSUME NEW i \in DOMAIN x, NEW j \in DOMAIN x, x[i].kind = x[j].kind
      PROVE  i = j \/ x[i].kind = "instance"
  <2>1. CASE i \in DOMAIN s /\ x[i] = s[i] /\ j \in DOMAIN s /\ x[j] = s[j]
    BY <1>5, <2>1 DEF Apart
  <2>2. CASE i \in DOMAIN s /\ x[i] = s[i] /\ j - Len(s) \in DOMAIN t /\ x[j] = t[j - Len(s)]
    BY <1>5, <2>2
  <2>3. CASE i - Len(s) \in DOMAIN t /\ x[i] = t[i - Len(s)] /\ j \in DOMAIN s /\ x[j] = s[j]
    BY <1>5, <2>3
  <2>4. CASE /\ i - Len(s) \in DOMAIN t /\ x[i] = t[i - Len(s)]
             /\ j - Len(s) \in DOMAIN t /\ x[j] = t[j - Len(s)]
    <3>1. i - Len(s) = j - Len(s) \/ t[i - Len(s)].kind = "instance"
      BY <1>5, <2>4 DEF Apart
    <3>2. i - Len(s) = j - Len(s) => i = j
      BY <1>1, <1>3
    <3> QED
      BY <2>4, <3>1, <3>2
  <2> QED
    BY <1>4, <2>1, <2>2, <2>3, <2>4
<1>6. KindsOf(x) = KindsOf(s) \cup KindsOf(t)
  <2>1. ASSUME NEW i \in DOMAIN s PROVE i \in DOMAIN x /\ x[i] = s[i]
    BY <1>1, <1>2, <1>3
  <2>2. ASSUME NEW i \in DOMAIN t PROVE i + Len(s) \in DOMAIN x /\ x[i + Len(s)] = t[i]
    BY <1>1, <1>2, <1>3
  <2>3. KindsOf(x) \subseteq KindsOf(s) \cup KindsOf(t)
    BY <1>4 DEF KindsOf
  <2>4. KindsOf(s) \subseteq KindsOf(x)
    BY <2>1 DEF KindsOf
  <2>5. KindsOf(t) \subseteq KindsOf(x)
    BY <2>2 DEF KindsOf
  <2> QED
    BY <2>3, <2>4, <2>5
<1> QED
  BY <1>2, <1>5, <1>6 DEF Apart

(* Unmerged, a recursive function, is what its equation says.              *)
LEMMA UnmergedIs ==
  ASSUME NEW a, Len(a) \in Nat, NEW b, NEW left, left = Unmerged(a, b)
  PROVE  /\ left[0] = DOMAIN b
         /\ \A n \in 1..Len(a) : left[n] = left[n - 1] \ {Partner(a[n], b, left[n - 1])}
<1> DEFINE N == Len(a)
           Rest(n, S) == S \ {Partner(a[n], b, S)}
           F(f, m) == [n \in 0..m |-> IF n = 0 THEN DOMAIN b ELSE Rest(n, f[n - 1])]
           T == {m \in Nat : \E f : f = F(f, m)}
<1>1. 0 \in T
  <2>1. PICK f : f = [n \in 0..0 |-> DOMAIN b]
    OBVIOUS
  <2>2. f = F(f, 0)
    BY <2>1
  <2> QED
    BY <2>2
<1>2. ASSUME NEW m \in Nat, m \in T
      PROVE  m + 1 \in T
  <2>1. PICK f : f = F(f, m)
    BY <1>2
  <2> HIDE DEF Rest
  <2>2. /\ f[0] = DOMAIN b
        /\ \A n \in 0..m : n # 0 => f[n] = Rest(n, f[n - 1])
    BY <2>1
  <2>3. PICK g : g = [n \in 0..m + 1 |-> IF n <= m THEN f[n] ELSE Rest(n, f[m])]
    OBVIOUS
  <2>4. ASSUME NEW n \in 0..m + 1
        PROVE  g[n] = IF n = 0 THEN DOMAIN b ELSE Rest(n, g[n - 1])
    <3>1. CASE n = 0
      BY <2>2, <2>3, <3>1
    <3>2. CASE n # 0 /\ n <= m
      <4>1. n \in 0..m /\ n - 1 \in 0..m + 1 /\ n - 1 <= m
        BY <3>2
      <4> QED
        BY <2>2, <2>3, <3>2, <4>1
    <3>3. CASE n = m + 1
      <4>1. n - 1 = m /\ m \in 0..m + 1 /\ m <= m /\ ~ n <= m /\ n # 0
        BY <3>3
      <4> QED
        BY <2>3, <4>1
    <3> QED
      BY <3>1, <3>2, <3>3
  <2>5. g = F(g, m + 1)
    <3>1. DOMAIN g = 0..m + 1 /\ g = [n \in 0..m + 1 |-> g[n]]
      BY <2>3
    <3> QED
      BY <2>4, <3>1
  <2> QED
    BY <2>5
<1>3. Nat \subseteq T
  <2> HIDE DEF T
  <2> QED
    BY <1>1, <1>2, SetInduction
<1>4. \E f : f = F(f, N)
  BY <1>3
<1>5. left = CHOOSE f : f = F(f, N)
  BY DEF Unmerged
<1>6. left = F(left, N)
  <2> HIDE DEF F
  <2> QED
    BY <1>4, <1>5
<1> HIDE DEF Rest
<1>7. \A n \in 0..N : left[n] = IF n = 0 THEN DOMAIN b ELSE Rest(n, left[n - 1])
  BY <1>6
<1>8. \A n \in 1..N : left[n] = Rest(n, left[n - 1])
  BY <1>7
<1>9. left[0] = DOMAIN b
  BY <1>7
<1> QED
  BY <1>8, <1>9 DEF Rest

(* A partner is one of those left that its member merges with.             *)
LEMMA PartnerFacts ==
  ASSUME NEW p \in Primitives, NEW b, b \in Seq(Primitives), NEW S, S \subseteq DOMAIN b,
         NEW k, k = Partner(p, b, S)
  PROVE  /\ k # 0 => /\ k \in S /\ MergePrimitives(p, b[k]) \in Primitives
                     /\ MergePrimitives(p, b[k]).kind = p.kind /\ b[k].kind = p.kind
         /\ k = 0 => \A j \in S : b[j].kind = p.kind => p.kind = "instance"
<1>1. PICK I : I = {j \in S : Merge(p, b[j])}
  OBVIOUS
<1>2. DOMAIN b \subseteq Nat \ {0} /\ \A j \in DOMAIN b : b[j] \in Primitives
  BY SeqFacts
<1>3. k = FirstOf(I) /\ I \subseteq Nat \ {0}
  BY <1>1, <1>2 DEF Partner
<1>4. (k = 0 <=> I = {}) /\ (k # 0 => k \in I)
  BY <1>3, FirstFacts
<1>5. ASSUME k # 0
      PROVE  /\ k \in S /\ MergePrimitives(p, b[k]) \in Primitives
             /\ MergePrimitives(p, b[k]).kind = p.kind /\ b[k].kind = p.kind
  <2>1. k \in S /\ Merge(p, b[k]) /\ b[k] \in Primitives
    BY <1>1, <1>2, <1>4, <1>5
  <2> QED
    BY <2>1, MergeFacts
<1>6. ASSUME k = 0, NEW j \in S, b[j].kind = p.kind
      PROVE  p.kind = "instance"
  <2>1. ~Merge(p, b[j]) /\ b[j] \in Primitives
    BY <1>1, <1>2, <1>4, <1>6
  <2> QED
    BY <1>6, <2>1, MergeFacts
<1> QED
  BY <1>5, <1>6

(* What is left of b is apart from a, and what is not has a kind of a.     *)
LEMMA UnmergedFacts ==
  ASSUME NEW a, a \in Seq(Primitives), NEW b, b \in Seq(Primitives), Apart(b),
         NEW left, left = Unmerged(a, b)
  PROVE  /\ \A n \in 0..Len(a) : left[n] \subseteq DOMAIN b
         /\ \A n \in DOMAIN a, j \in left[Len(a)] :
              a[n].kind = b[j].kind => a[n].kind = "instance"
         /\ \A j \in DOMAIN b \ left[Len(a)] : b[j].kind \in KindsOf(a)
<1> DEFINE N == Len(a)
<1>1. N \in Nat /\ DOMAIN a = 1..N /\ \A n \in DOMAIN a : a[n] \in Primitives
  BY SeqFacts
<1>2. /\ left[0] = DOMAIN b
      /\ \A n \in 1..N : left[n] = left[n - 1] \ {Partner(a[n], b, left[n - 1])}
  BY <1>1, UnmergedIs
<1> DEFINE Ok(n) == left[n] \subseteq DOMAIN b /\ \A j \in DOMAIN b \ left[n] : b[j].kind \in KindsOf(a)
           T == {n \in Nat : n <= N => Ok(n)}
<1>3. 0 \in T
  BY <1>2
<1>4. ASSUME NEW n \in Nat, n \in T
      PROVE  n + 1 \in T
  <2> SUFFICES ASSUME n + 1 <= N PROVE Ok(n + 1)
    OBVIOUS
  <2>1. n + 1 \in 1..N /\ (n + 1) - 1 = n /\ n <= N
    BY <1>1
  <2>2. Ok(n)
    BY <1>4, <2>1
  <2>3. PICK k : k = Partner(a[n + 1], b, left[n])
    OBVIOUS
  <2>4. left[n + 1] = left[n] \ {k}
    BY <1>2, <2>1, <2>3
  <2>5. k # 0 => b[k].kind = a[n + 1].kind
    BY <1>1, <2>1, <2>2, <2>3, PartnerFacts
  <2>6. k # 0 => b[k].kind \in KindsOf(a)
    BY <1>1, <2>1, <2>5 DEF KindsOf
  <2>7. 0 \notin DOMAIN b
    BY SeqFacts
  <2> QED
    BY <2>2, <2>4, <2>6, <2>7
<1>5. Nat \subseteq T
  <2> HIDE DEF T
  <2> QED
    BY <1>3, <1>4, SetInduction
<1>6. \A n \in 0..N : Ok(n)
  BY <1>1, <1>5
<1> DEFINE Less(n) == \A m \in 0..n : left[n] \subseteq left[m]
           U == {n \in Nat : n <= N => Less(n)}
<1>7. 0 \in U
  OBVIOUS
<1>8. ASSUME NEW n \in Nat, n \in U
      PROVE  n + 1 \in U
  <2> SUFFICES ASSUME n + 1 <= N PROVE Less(n + 1)
    OBVIOUS
  <2>1. n + 1 \in 1..N /\ (n + 1) - 1 = n /\ n <= N
    BY <1>1
  <2>2. left[n + 1] \subseteq left[n] /\ Less(n)
    BY <1>2, <1>8, <2>1
  <2>3. \A m \in 0..n + 1 : m = n + 1 \/ m \in 0..n
    OBVIOUS
  <2> QED
    BY <2>2, <2>3
<1>9. Nat \subseteq U
  <2> HIDE DEF U
  <2> QED
    BY <1>7, <1>8, SetInduction
<1>10. \A n \in 0..N : left[N] \subseteq left[n]
  BY <1>1, <1>9
<1>11. ASSUME NEW n \in DOMAIN a, NEW j \in left[N], a[n].kind = b[j].kind, a[n].kind # "instance"
       PROVE  FALSE
  <2>1. n \in 1..N /\ n \in 0..N /\ n - 1 \in 0..N /\ a[n] \in Primitives
    BY <1>1
  <2>2. j \in left[n - 1] /\ j \in left[n] /\ left[n - 1] \subseteq DOMAIN b
    BY <1>6, <1>10, <1>11, <2>1
  <2>3. PICK k : k = Partner(a[n], b, left[n - 1])
    OBVIOUS
  <2>4. k # 0
    BY <1>11, <2>1, <2>2, <2>3, PartnerFacts
  <2>5. k \in DOMAIN b /\ b[k].kind = a[n].kind
    BY <2>1, <2>2, <2>3, <2>4, PartnerFacts
  <2>6. k = j
    BY <1>11, <2>2, <2>5 DEF Apart
  <2>7. left[n] = left[n - 1] \ {k}
    BY <1>2, <2>1, <2>3, Zenon
  <2> QED
    BY <2>2, <2>6, <2>7
<1>12. Ok(N)
  BY <1>1, <1>6
<1> QED
  BY <1>6, <1>11, <1>12

(* Two unions.                                                             *)
LEMMA MergeUnionsIsType ==
  ASSUME NEW l, IsType(l), l.tag = "union", NEW r, IsType(r), r.tag = "union"
  PROVE  IsType(MergeUnions(l, r))
<1>1. PICK a : a = l.members
  OBVIOUS
<1>2. PICK b : b = r.members
  OBVIOUS
<1>3. PICK left : left = Unmerged(a, b)
  OBVIOUS
<1>4. /\ a \in Seq(Primitives) /\ Apart(a) /\ l.flags = KindsOf(a) /\ Len(a) > 1
      /\ b \in Seq(Primitives) /\ Apart(b) /\ r.flags = KindsOf(b)
  BY <1>1, <1>2, TypeFacts
<1>5. Len(a) \in Nat /\ DOMAIN a = 1..Len(a) /\ \A n \in DOMAIN a : a[n] \in Primitives
  BY <1>4, SeqFacts
<1>6. /\ \A n \in 0..Len(a) : left[n] \subseteq DOMAIN b
      /\ \A n \in DOMAIN a, j \in left[Len(a)] :
           a[n].kind = b[j].kind => a[n].kind = "instance"
      /\ \A j \in DOMAIN b \ left[Len(a)] : b[j].kind \in KindsOf(a)
  BY <1>3, <1>4, UnmergedFacts
<1> DEFINE M(n) == LET j == Partner(a[n], b, left[n - 1]) IN
                   IF j = 0 THEN a[n] ELSE MergePrimitives(a[n], b[j])
<1>7. PICK x : x = [n \in DOMAIN a |-> M(n)]
  OBVIOUS
<1>8. PICK y : y = Chosen(b, left[Len(a)])
  OBVIOUS
<1>9. MergeUnions(l, r) = Union(x \o y, KindsOf(a) \cup KindsOf(b))
  BY <1>1, <1>2, <1>3, <1>4, <1>7, <1>8 DEF MergeUnions
<1>10. ASSUME NEW n \in DOMAIN a PROVE M(n) \in Primitives /\ M(n).kind = a[n].kind
  <2>1. n - 1 \in 0..Len(a) /\ a[n] \in Primitives
    BY <1>5
  <2>2. left[n - 1] \subseteq DOMAIN b
    BY <1>6, <2>1
  <2>3. PICK k : k = Partner(a[n], b, left[n - 1])
    OBVIOUS
  <2>4. k # 0 => /\ MergePrimitives(a[n], b[k]) \in Primitives
                 /\ MergePrimitives(a[n], b[k]).kind = a[n].kind
    BY <1>4, <2>1, <2>2, <2>3, PartnerFacts
  <2> QED
    BY <2>1, <2>3, <2>4
<1> HIDE DEF M
<1>11. x \in Seq(Primitives) /\ Len(x) = Len(a)
  BY <1>5, <1>7, <1>10, IsASeq
<1>12. Apart(x) /\ KindsOf(x) = KindsOf(a) /\ DOMAIN x = DOMAIN a
  <2>1. \A n \in DOMAIN a : x[n].kind = a[n].kind
    BY <1>7, <1>10
  <2> QED
    BY <1>4, <1>7, <1>11, <2>1, SameKinds
<1>13. left[Len(a)] \subseteq DOMAIN b
  BY <1>5, <1>6
<1>14. y \in Seq(Primitives) /\ Apart(y) /\ KindsOf(y) = {b[j].kind : j \in left[Len(a)]}
  BY <1>4, <1>8, <1>13, ChosenApart
<1>15. ASSUME NEW i \in DOMAIN x, NEW j \in DOMAIN y, x[i].kind = y[j].kind
       PROVE  x[i].kind = "instance"
  <2>1. x[i].kind = a[i].kind /\ i \in DOMAIN a
    BY <1>7, <1>10, <1>12
  <2>2. y[j].kind \in KindsOf(y)
    BY DEF KindsOf
  <2>3. PICK k \in left[Len(a)] : y[j].kind = b[k].kind
    BY <1>14, <2>2
  <2> QED
    BY <1>6, <1>15, <2>1, <2>3
<1>16. PICK z : z = x \o y
  OBVIOUS
<1>17. /\ z \in Seq(Primitives) /\ Len(z) = Len(x) + Len(y) /\ Apart(z)
       /\ KindsOf(z) = KindsOf(x) \cup KindsOf(y)
  BY <1>11, <1>12, <1>14, <1>15, <1>16, ConcatFacts
<1>18. Len(z) > 1
  BY <1>4, <1>5, <1>11, <1>14, <1>17, SeqFacts
<1>19. KindsOf(z) = KindsOf(a) \cup KindsOf(b)
  <2>1. KindsOf(y) \subseteq KindsOf(b)
    BY <1>13, <1>14 DEF KindsOf
  <2>2. KindsOf(b) \subseteq KindsOf(a) \cup KindsOf(y)
    BY <1>6, <1>14 DEF KindsOf
  <2> QED
    BY <1>12, <1>17, <2>1, <2>2
<1> QED
  BY <1>9, <1>16, <1>17, <1>18, <1>19, UnionIsType

(* Whatever is merged is a type.                                           *)
LEMMA MergeIsType ==
  ASSUME NEW l, IsType(l), NEW r, IsType(r)
  PROVE  IsType(MergeTypes(l, r))
<1>1. /\ l.tag \in {"primitive", "union", "enum"} /\ r.tag \in {"primitive", "union", "enum"}
      /\ l.tag = "primitive" => /\ Len(l.members) = 1 /\ l.members[1] \in Primitives
      /\ r.tag = "primitive" => /\ Len(r.members) = 1 /\ r.members[1] \in Primitives
      /\ l.members \in Seq(Primitives) /\ Apart(l.members) /\ l.flags = KindsOf(l.members)
      /\ r.members \in Seq(Primitives) /\ Apart(r.members) /\ r.flags = KindsOf(r.members)
  BY TypeFacts
<1>2. CASE l.tag = "enum"
  <2>1. MergeTypes(l, r) \in {l, r}
    BY <1>2 DEF MergeTypes
  <2> QED
    BY <2>1
<1>3. CASE l.tag # "enum" /\ r.tag = "enum"
  BY <1>3 DEF MergeTypes
<1>4. CASE l.tag = "union" /\ r.tag = "union"
  <2>1. MergeTypes(l, r) = MergeUnions(l, r)
    BY <1>4 DEF MergeTypes
  <2> QED
    BY <1>4, <2>1, MergeUnionsIsType
<1>5. CASE l.tag = "union" /\ r.tag = "primitive"
  <2>1. MergeTypes(l, r) = Include(l, r.members[1])
    BY <1>5 DEF MergeTypes
  <2> QED
    BY <1>1, <1>5, <2>1, IncludeIsType
<1>6. CASE r.tag = "union" /\ l.tag = "primitive"
  <2>1. MergeTypes(l, r) = Include(r, l.members[1])
    BY <1>6 DEF MergeTypes
  <2> QED
    BY <1>1, <1>6, <2>1, IncludeIsType
<1>7. CASE l.tag = "primitive" /\ r.tag = "primitive"
  <2>1. PICK m : m = MergePrimitives(l.members[1], r.members[1])
    OBVIOUS
  <2>2. MergeTypes(l, r) = IF Merge(l.members[1], r.members[1]) THEN One(m)
                           ELSE Union(l.members \o r.members, l.flags \cup r.flags)
    BY <1>7, <2>1 DEF MergeTypes, Merge
  <2>3. CASE Merge(l.members[1], r.members[1])
    BY <1>1, <1>7, <2>1, <2>2, <2>3, MergeFacts, OneIsType
  <2>4. CASE ~Merge(l.members[1], r.members[1])
    <3>1. l.members[1].kind # r.members[1].kind \/ l.members[1].kind = "instance"
      BY <1>1, <1>7, <2>4, MergeFacts
    <3>2. PICK a : a = l.members
      OBVIOUS
    <3>3. PICK b : b = r.members
      OBVIOUS
    <3>4. /\ a \in Seq(Primitives) /\ Apart(a) /\ l.flags = KindsOf(a) /\ Len(a) = 1
          /\ b \in Seq(Primitives) /\ Apart(b) /\ r.flags = KindsOf(b) /\ Len(b) = 1
      BY <1>1, <1>7, <3>2, <3>3
    <3>5. \A i \in DOMAIN a, j \in DOMAIN b : a[i].kind = b[j].kind => a[i].kind = "instance"
      BY <3>1, <3>2, <3>3, <3>4
    <3>6. PICK x : x = a \o b
      OBVIOUS
    <3>7. /\ x \in Seq(Primitives) /\ Len(x) = Len(a) + Len(b) /\ Apart(x)
          /\ KindsOf(x) = KindsOf(a) \cup KindsOf(b)
      BY <3>4, <3>5, <3>6, ConcatFacts
    <3>8. Len(x) > 1
      BY <3>4, <3>7
    <3> QED
      BY <2>2, <2>4, <3>2, <3>3, <3>4, <3>6, <3>7, <3>8, UnionIsType
  <2> QED
    BY <2>3, <2>4
<1> QED
  BY <1>1, <1>2, <1>3, <1>4, <1>5, <1>6, <1>7

(* any and null are types.                                                 *)
LEMMA AnyNullTypes == IsType(AnyType) /\ IsType(NullType)
<1>1. "any" \in Kinds /\ "null" \in Kinds
  BY TypesAssumption
<1>2. Prim("any", None) \in Primitives /\ Prim("null", None) \in Primitives
  BY <1>1, PrimIs
<1> QED
  BY <1>2, OneIsType DEF AnyType, NullType

-----------------------------------------------------------------------------
(* Assigning *)

(* A documented primitive keeps its kind.                                  *)
LEMMA TakesFacts ==
  ASSUME NEW o \in Primitives, NEW n \in Primitives, Takes(o, n)
  PROVE  CheckPrimitive(o, n) \in Primitives /\ CheckPrimitive(o, n).kind = o.kind
<1>1. PICK m : m = CheckPrimitive(o, n)
  OBVIOUS
<1>2. m # NoMatch
  BY <1>1 DEF Takes
<1>3. m = o \/ (m = n /\ o.kind = n.kind) \/ m = NoMatch
  <2>1. CASE o.kind # n.kind
    BY <1>1, <2>1 DEF CheckPrimitive
  <2>2. CASE o.kind = n.kind /\ o.kind = "any"
    BY <1>1, <2>2 DEF CheckPrimitive, Refined
  <2>3. CASE o.kind = n.kind /\ o.kind # "any" /\ o.kind = "string" /\ n.of # None
    BY <1>1, <2>3 DEF CheckPrimitive, Refined
  <2>4. CASE o.kind = n.kind /\ o.kind = "instance" /\ o.of # None /\ n.of # None
    BY <1>1, <2>4 DEF CheckPrimitive, Refined
  <2>5. CASE /\ o.kind = n.kind /\ o.kind # "any"
             /\ ~(o.kind = "string" /\ n.of # None)
             /\ ~(o.kind = "instance" /\ o.of # None /\ n.of # None)
    BY <1>1, <2>5 DEF CheckPrimitive, Refined
  <2> QED
    BY <2>1, <2>2, <2>3, <2>4, <2>5
<1> QED
  BY <1>1, <1>2, <1>3

(* The first member that d takes.                                          *)
LEMMA FirstTakenFacts ==
  ASSUME NEW d \in Primitives, NEW s, s \in Seq(Primitives), NEW i, i = FirstTaken(d, s), i # 0
  PROVE  CheckPrimitive(d, s[i]) \in Primitives /\ CheckPrimitive(d, s[i]).kind = d.kind
<1>1. PICK I : I = {j \in DOMAIN s : Takes(d, s[j])}
  OBVIOUS
<1>2. I \subseteq Nat \ {0} /\ \A j \in DOMAIN s : s[j] \in Primitives
  BY <1>1, SeqFacts
<1>3. i \in I
  BY <1>1, <1>2, FirstFacts DEF FirstTaken
<1> QED
  BY <1>1, <1>2, <1>3, TakesFacts

(* A documented type stays a type.                                         *)
LEMMA CheckIsType ==
  ASSUME NEW doc, IsType(doc), NEW other, IsType(other)
  PROVE  IsType(CheckType(doc, other))
<1>1. PICK s : s = doc.members
  OBVIOUS
<1>2. PICK o : o = other.members
  OBVIOUS
<1>3. /\ doc.tag \in {"primitive", "union", "enum"} /\ other.tag \in {"primitive", "union", "enum"}
      /\ doc.tag = "primitive" => s[1] \in Primitives
      /\ other.tag = "primitive" => o[1] \in Primitives
      /\ s \in Seq(Primitives) /\ Apart(s) /\ doc.flags = KindsOf(s) /\ o \in Seq(Primitives)
      /\ doc.tag = "union" => Len(s) > 1
      /\ doc = [tag |-> doc.tag, members |-> s, flags |-> doc.flags]
  BY <1>1, <1>2, TypeFacts
<1>4. Len(s) \in Nat /\ DOMAIN s = 1..Len(s) /\ \A i \in DOMAIN s : s[i] \in Primitives
  BY <1>3, SeqFacts
<1>5. CASE doc.tag = "enum" \/ other.tag = "enum"
  BY <1>5 DEF CheckType
<1>6. CASE doc.tag = "union" /\ other.tag = "union"
  <2> DEFINE taken(d) == LET i == FirstTaken(d, o) IN IF i = 0 THEN d ELSE CheckPrimitive(d, o[i])
  <2>1. PICK x : x = [i \in DOMAIN s |-> taken(s[i])]
    OBVIOUS
  <2>2. CheckType(doc, other) = Union(x, KindsOf(x))
    BY <1>1, <1>2, <1>6, <2>1 DEF CheckType
  <2>3. ASSUME NEW i \in DOMAIN s PROVE taken(s[i]) \in Primitives /\ taken(s[i]).kind = s[i].kind
    <3>1. PICK k : k = FirstTaken(s[i], o)
      OBVIOUS
    <3>2. k # 0 => CheckPrimitive(s[i], o[k]) \in Primitives /\ CheckPrimitive(s[i], o[k]).kind = s[i].kind
      BY <1>3, <1>4, <3>1, FirstTakenFacts
    <3> QED
      BY <1>4, <3>1, <3>2
  <2> HIDE DEF taken
  <2>4. x \in Seq(Primitives) /\ Len(x) = Len(s)
    BY <1>4, <2>1, <2>3, IsASeq
  <2>5. Apart(x)
    BY <1>3, <2>1, <2>3, <2>4, SameKinds
  <2>6. Len(x) > 1
    BY <1>3, <1>6, <2>4
  <2> QED
    BY <2>2, <2>4, <2>5, <2>6, UnionIsType
<1>7. CASE doc.tag = "union" /\ other.tag = "primitive"
  <2>1. PICK p : p = o[1]
    OBVIOUS
  <2>2. PICK I : I = {j \in DOMAIN s : Takes(s[j], p)}
    OBVIOUS
  <2>3. PICK i : i = FirstOf(I)
    OBVIOUS
  <2>4. CheckType(doc, other) = IF i = 0 THEN doc
                                ELSE [doc EXCEPT !.members[i] = CheckPrimitive(@, p)]
    BY <1>1, <1>2, <1>7, <2>1, <2>2, <2>3 DEF CheckType
  <2>5. CASE i = 0
    BY <2>4, <2>5
  <2>6. CASE i # 0
    <3>1. I \subseteq Nat \ {0}
      BY <1>4, <2>2
    <3>2. i \in DOMAIN s /\ Takes(s[i], p)
      BY <2>2, <2>3, <2>6, <3>1, FirstFacts
    <3>3. PICK m : m = CheckPrimitive(s[i], p)
      OBVIOUS
    <3>4. m \in Primitives /\ m.kind = s[i].kind
      BY <1>3, <1>4, <1>7, <2>1, <3>2, <3>3, TakesFacts
    <3>5. PICK x : x = [s EXCEPT ![i] = m]
      OBVIOUS
    <3>6. CheckType(doc, other) = [doc EXCEPT !.members = x]
      BY <1>1, <2>4, <2>6, <3>3, <3>5
    <3>7. CheckType(doc, other) = Union(x, doc.flags)
      BY <1>3, <1>7, <3>6 DEF Union
    <3>8. x \in Seq(Primitives) /\ Len(x) = Len(s)
      BY <1>3, <1>4, <3>2, <3>4, <3>5, ExceptSeq
    <3>9. \A j \in DOMAIN s : x[j].kind = s[j].kind
      BY <3>4, <3>5
    <3>10. Apart(x) /\ KindsOf(x) = KindsOf(s)
      BY <1>3, <3>8, <3>9, SameKinds
    <3> QED
      BY <1>3, <1>7, <3>7, <3>8, <3>10, UnionIsType
  <2> QED
    BY <2>5, <2>6
<1>8. CASE doc.tag = "primitive" /\ other.tag # "enum"
  <2>1. PICK k : k = FirstTaken(s[1], o)
    OBVIOUS
  <2>2. CheckType(doc, other) = IF k = 0 THEN doc ELSE One(CheckPrimitive(s[1], o[k]))
    BY <1>1, <1>2, <1>8, <2>1 DEF CheckType
  <2>3. k # 0 => CheckPrimitive(s[1], o[k]) \in Primitives
    BY <1>3, <1>8, <2>1, FirstTakenFacts
  <2> QED
    BY <2>2, <2>3, OneIsType
<1> QED
  BY <1>3, <1>5, <1>6, <1>7, <1>8

(* Whatever is assigned, a symbol has a type.                              *)
LEMMA UpdateIsType ==
  ASSUME NEW t, IsType(t), NEW e \in BOOLEAN, NEW new, IsType(new)
  PROVE  IsType(UpdateType(t, e, new))
<1>1. IsType(CheckType(t, new)) /\ IsType(MergeTypes(t, new))
  BY CheckIsType, MergeIsType
<1>2. IsType(AddAny(new))
  BY AnyNullTypes, MergeIsType DEF AddAny
<1>3. CASE e
  BY <1>1, <1>3 DEF UpdateType
<1>4. CASE ~e
  BY <1>1, <1>2, <1>4 DEF UpdateType
<1> QED
  BY <1>3, <1>4

-----------------------------------------------------------------------------
(* Narrowing *)

(* Members that are apart make a type, however few they are.               *)
LEMMA RebuildIsType ==
  ASSUME NEW s, s \in Seq(Primitives), Apart(s)
  PROVE  IsType(Rebuild(s))
<1>1. Len(s) \in Nat /\ DOMAIN s = 1..Len(s) /\ \A i \in DOMAIN s : s[i] \in Primitives
  BY SeqFacts
<1>2. CASE Len(s) = 0
  BY <1>2, AnyNullTypes DEF Rebuild
<1>3. CASE Len(s) = 1
  BY <1>1, <1>3, OneIsType DEF Rebuild
<1>4. CASE Len(s) > 1
  <2>1. Rebuild(s) = Union(s, KindsOf(s))
    BY <1>1, <1>4 DEF Rebuild
  <2> QED
    BY <1>4, <2>1, UnionIsType
<1> QED
  BY <1>1, <1>2, <1>3, <1>4

(* What is known not to be null is of a type.                              *)
LEMMA RemoveNullIsType ==
  ASSUME NEW t, IsType(t)
  PROVE  IsType(RemoveNull(t))
<1>1. PICK I : I = {i \in DOMAIN t.members : t.members[i].kind # "null"}
  OBVIOUS
<1>2. PICK s : s = Chosen(t.members, I)
  OBVIOUS
<1>3. /\ t.members \in Seq(Primitives) /\ Apart(t.members) /\ t.flags = KindsOf(t.members)
      /\ t.tag \in {"primitive", "union", "enum"}
  BY TypeFacts
<1>4. s \in Seq(Primitives) /\ Apart(s) /\ KindsOf(s) = {t.members[i].kind : i \in I}
  BY <1>1, <1>2, <1>3, ChosenApart
<1>5. KindsOf(s) = t.flags \ {"null"}
  BY <1>1, <1>3, <1>4 DEF KindsOf
<1>6. Len(s) \in Nat
  BY <1>4
<1>7. IsType(Rebuild(s)) /\ IsType(AnyType)
  BY <1>4, RebuildIsType, AnyNullTypes
<1>8. Len(s) > 1 => IsType(Union(s, t.flags \ {"null"}))
  BY <1>4, <1>5, UnionIsType
<1>9. RemoveNull(t) = CASE t.tag = "primitive" /\ s = << >> -> AnyType
                        [] t.tag = "union" /\ Len(s) > 1 -> Union(s, t.flags \ {"null"})
                        [] t.tag = "union" /\ Len(s) <= 1 -> Rebuild(s)
                        [] OTHER -> t
  BY <1>1, <1>2 DEF RemoveNull
<1>10. CASE t.tag = "union" /\ Len(s) > 1
  BY <1>8, <1>9, <1>10
<1>11. CASE t.tag = "union" /\ Len(s) <= 1
  BY <1>7, <1>9, <1>11
<1>12. CASE t.tag # "union"
  BY <1>7, <1>9, <1>12
<1> QED
  BY <1>6, <1>10, <1>11, <1>12

(* What is known not to be of a kind is of a type.                         *)
LEMMA RemoveTypeofIsType ==
  ASSUME NEW t, IsType(t), NEW k
  PROVE  IsType(RemoveTypeof(t, k))
<1>1. PICK s : s = Chosen(t.members, {i \in DOMAIN t.members : t.members[i].kind # k})
  OBVIOUS
<1>2. t.members \in Seq(Primitives) /\ Apart(t.members)
  BY TypeFacts
<1>3. s \in Seq(Primitives) /\ Apart(s)
  BY <1>1, <1>2, ChosenApart
<1>4. IsType(Rebuild(s)) /\ IsType(AnyType)
  BY <1>3, RebuildIsType, AnyNullTypes
<1>5. RemoveTypeof(t, k) \in {AnyType, Rebuild(s), t}
  BY <1>1 DEF RemoveTypeof
<1> QED
  BY <1>4, <1>5

(* What is known to be true is of a type.                                  *)
LEMMA RemoveFalsyIsType ==
  ASSUME NEW t, IsType(t)
  PROVE  IsType(RemoveFalsy(t))
<1>1. PICK s : s = Chosen(t.members, {i \in DOMAIN t.members : ~IsFalsy(t.members[i])})
  OBVIOUS
<1>2. t.members \in Seq(Primitives) /\ Apart(t.members)
  BY TypeFacts
<1>3. s \in Seq(Primitives) /\ Apart(s)
  BY <1>1, <1>2, ChosenApart
<1>4. Len(s) \in Nat /\ DOMAIN s = 1..Len(s) /\ \A i \in DOMAIN s : s[i] \in Primitives
  BY <1>3, SeqFacts
<1> DEFINE true(p) == IF p = Prim("bool", None) THEN Prim("bool", True) ELSE p
<1>5. PICK x : x = [i \in DOMAIN s |-> true(s[i])]
  OBVIOUS
<1>6. ASSUME NEW i \in DOMAIN s PROVE true(s[i]) \in Primitives /\ true(s[i]).kind = s[i].kind
  <2>1. CASE s[i] = Prim("bool", None)
    <3>1. s[i].kind = "bool" /\ "bool" \in Kinds
      BY <1>4, <2>1, SeqFacts, <1>3 DEF Prim
    <3>2. True \in DataOf["bool"]
      BY <3>1, TypesAssumption
    <3>3. Prim("bool", True) \in Primitives /\ Prim("bool", True).kind = "bool"
      BY <3>1, <3>2, PrimIs
    <3> QED
      BY <2>1, <3>1, <3>3
  <2>2. CASE s[i] # Prim("bool", None)
    BY <1>4, <2>2
  <2> QED
    BY <2>1, <2>2
<1>7. RemoveFalsy(t) \in {AnyType, Rebuild(x), t}
  BY <1>1, <1>5 DEF RemoveFalsy
<1> HIDE DEF true
<1>8. x \in Seq(Primitives) /\ Len(x) = Len(s)
  BY <1>4, <1>5, <1>6, IsASeq
<1>9. Apart(x)
  BY <1>3, <1>5, <1>6, <1>8, SameKinds
<1>10. IsType(Rebuild(x)) /\ IsType(AnyType)
  BY <1>8, <1>9, RebuildIsType, AnyNullTypes
<1> QED
  BY <1>7, <1>10

(* What is known to be false is of a type.                                 *)
LEMMA RemoveTruthyIsType ==
  ASSUME NEW t, IsType(t)
  PROVE  IsType(RemoveTruthy(t))
<1>1. PICK s : s = Chosen(t.members, {i \in DOMAIN t.members : IsFalsy(t.members[i])})
  OBVIOUS
<1>2. t.members \in Seq(Primitives) /\ Apart(t.members)
  BY TypeFacts
<1>3. s \in Seq(Primitives) /\ Apart(s)
  BY <1>1, <1>2, ChosenApart
<1>4. IsType(Rebuild(s)) /\ IsType(AnyType)
  BY <1>3, RebuildIsType, AnyNullTypes
<1>5. RemoveTruthy(t) \in {AnyType, Rebuild(s), t}
  BY <1>1 DEF RemoveTruthy
<1> QED
  BY <1>4, <1>5

-----------------------------------------------------------------------------
(* Flow types *)

(* A flow type, if there is one, is a type.                                *)
Flowing(t) == t = None \/ IsType(t)

Fields == {"kind", "cond", "step", "flow", "why", "entered", "held", "wrote", "saved"}

(* A frame keeps a flow type, and its condition if it is looked at later.  *)
Sound(f) ==
  /\ DOMAIN f = Fields
  /\ Flowing(f.flow)
  /\ f.kind \in {"then", "do"} => IsCondition(f.cond)
Typed(s) == \E S : s \in Seq(S) /\ \A f \in S : Sound(f)

(* What the resolver knows of the symbol is made of types.                 *)
Knows(w) ==
  /\ {"typ", "scopes"} \subseteq DOMAIN w
  /\ IsType(w.typ) /\ Typed(w.scopes) /\ Len(w.scopes) > 0

TInv ==
  /\ family \in Families /\ explicit \in BOOLEAN
  /\ IsType(typ) /\ Typed(scopes) /\ Len(scopes) > 0

(* A typed sequence has a length, and its frames are sound.                *)
LEMMA TypedLen ==
  ASSUME NEW s, Typed(s)
  PROVE  /\ Len(s) \in Nat /\ DOMAIN s = 1..Len(s)
         /\ \A i \in 1..Len(s) : Sound(s[i])
<1>1. PICK S : s \in Seq(S) /\ \A f \in S : Sound(f)
  BY DEF Typed
<1> QED
  BY <1>1, ElementOfSeq

(* A sound frame takes the place of another one.                           *)
LEMMA TypedReplace ==
  ASSUME NEW s, Typed(s), NEW n \in 1..Len(s), NEW e, Sound(e), NEW x, x = [s EXCEPT ![n] = e]
  PROVE  Typed(x) /\ Len(x) = Len(s)
<1>1. PICK S : s \in Seq(S) /\ \A f \in S : Sound(f)
  BY DEF Typed
<1> DEFINE SS == S \cup {e}
<1>2. s \in Seq(SS) /\ e \in SS
  BY <1>1, SeqMonotonic
<1>3. \A f \in SS : Sound(f)
  BY <1>1
<1> HIDE DEF SS
<1>4. x \in Seq(SS) /\ Len(x) = Len(s)
  BY <1>2, ExceptSeq
<1> QED
  BY <1>3, <1>4 DEF Typed

(* A sound frame is put on top.                                            *)
LEMMA TypedPush ==
  ASSUME NEW s, Typed(s), NEW e, Sound(e), NEW x, x = Append(s, e)
  PROVE  Typed(x) /\ Len(x) = Len(s) + 1 /\ Len(s) \in Nat
<1>1. PICK S : s \in Seq(S) /\ \A f \in S : Sound(f)
  BY DEF Typed
<1> DEFINE SS == S \cup {e}
<1>2. s \in Seq(SS) /\ e \in SS
  BY <1>1, SeqMonotonic
<1>3. \A f \in SS : Sound(f)
  BY <1>1
<1> HIDE DEF SS
<1>4. x \in Seq(SS) /\ Len(x) = Len(s) + 1 /\ Len(s) \in Nat
  BY <1>2, AppendProperties
<1> QED
  BY <1>3, <1>4 DEF Typed

(* The frame on top is taken away.                                         *)
LEMMA TypedPop ==
  ASSUME NEW s, Typed(s), Len(s) > 0, NEW x, x = Front(s)
  PROVE  Typed(x) /\ Len(x) = Len(s) - 1
<1>1. PICK S : s \in Seq(S) /\ \A f \in S : Sound(f)
  BY DEF Typed
<1>2. x = SubSeq(s, 1, Len(s) - 1)
  BY DEF Front
<1> DEFINE n == Len(s) - 1
<1>3. Len(s) \in Nat /\ \A i \in 1..Len(s) : s[i] \in S
  BY <1>1
<1>a. 1 \in Int /\ n \in Int
  BY <1>3
<1>b. (IF 1 <= n THEN n - 1 + 1 ELSE 0) = n
  <2>1. n \in Nat
    BY <1>3
  <2> HIDE DEF n
  <2>2. CASE 1 <= n
    BY <2>1, <2>2
  <2>3. CASE ~(1 <= n)
    BY <2>1, <2>3
  <2> QED
    BY <2>2, <2>3
<1>c. \A i \in 1..n : s[i] \in S
  BY <1>3
<1>4. 1 \in Int /\ n \in Int /\ (IF 1 <= n THEN n - 1 + 1 ELSE 0) = n /\ \A i \in 1..n : s[i] \in S
  BY <1>a, <1>b, <1>c
<1> HIDE DEF n
<1>5. /\ SubSeq(s, 1, n) \in Seq(S)
      /\ Len(SubSeq(s, 1, n)) = IF 1 <= n THEN n - 1 + 1 ELSE 0
  BY <1>4, SubSeqProperties
<1>6. x \in Seq(S) /\ Len(x) = Len(s) - 1
  BY <1>2, <1>4, <1>5 DEF n
<1> QED
  BY <1>1, <1>6 DEF Typed

(* exit_scope leaves the flow types as they are.                           *)
LEMMA TypedExit ==
  ASSUME NEW s, Typed(s), NEW wrote, NEW x, x = ExitScope(s, wrote)
  PROVE  Typed(x) /\ Len(x) = Len(s)
<1>1. Len(s) \in Nat /\ DOMAIN s = 1..Len(s) /\ \A i \in 1..Len(s) : Sound(s[i])
  BY TypedLen
<1> DEFINE g(i) == IF wrote THEN [s[i] EXCEPT !.wrote = TRUE,
                                    !.why = IF s[i].flow = None THEN @ ELSE @ \cup {"left"}]
                   ELSE s[i]
           S == {g(i) : i \in 1..Len(s)}
<1>2. x = [i \in 1..Len(s) |-> g(i)]
  BY <1>1 DEF ExitScope
<1>3. \A i \in 1..Len(s) : Sound(g(i))
  BY <1>1 DEF Sound, Fields
<1> HIDE DEF g
<1>4. x \in Seq(S) /\ Len(x) = Len(s)
  BY <1>1, <1>2, IsASeq
<1>5. \A f \in S : Sound(f)
  BY <1>3
<1> HIDE DEF S
<1> QED
  BY <1>4, <1>5 DEF Typed

(* A set of places has a last one.                                         *)
LEMMA Greatest ==
  ASSUME NEW N \in Nat, NEW T, T \subseteq 1..N, T # {}
  PROVE  \E n \in T : \A m \in T : m <= n
<1> DEFINE U == {u \in Nat : \A m \in T : m <= u}
<1>1. N \in U
  OBVIOUS
<1>2. PICK u \in U : \A v \in U : u <= v
  BY <1>1, Least
<1>3. u \in Nat /\ \A m \in T : m <= u
  BY <1>2
<1>4. u # 0
  <2>1. PICK m : m \in T
    OBVIOUS
  <2> QED
    BY <1>3, <2>1
<1>5. ASSUME u \notin T PROVE FALSE
  <2>1. \A m \in T : m <= u - 1
    BY <1>3, <1>5
  <2>2. u - 1 \in U
    BY <1>3, <1>4, <2>1
  <2> QED
    BY <1>2, <1>3, <2>2
<1> QED
  BY <1>3, <1>5

(* symbol_type_at finds a type everywhere.                                 *)
LEMMA TypeInIsType ==
  ASSUME NEW w, Knows(w)
  PROVE  IsType(TypeIn(w).flow)
<1>1. PICK I : I = {i \in DOMAIN w.scopes : w.scopes[i].flow # None}
  OBVIOUS
<1>2. /\ Len(w.scopes) \in Nat /\ DOMAIN w.scopes = 1..Len(w.scopes)
      /\ \A i \in 1..Len(w.scopes) : Sound(w.scopes[i])
  BY TypedLen DEF Knows
<1>3. CASE I = {}
  <2>1. TypeIn(w) = Known(w.typ, w.doubts)
    BY <1>1, <1>3 DEF TypeIn
  <2> QED
    BY <2>1 DEF Known, Knows
<1>4. CASE I # {}
  <2>1. PICK k : k = CHOOSE i \in I : \A j \in I : j <= i
    OBVIOUS
  <2>2. \E i \in I : \A j \in I : j <= i
    BY <1>1, <1>2, <1>4, Greatest
  <2>3. k \in I
    BY <2>1, <2>2
  <2>4. TypeIn(w) = Known(w.scopes[k].flow, w.scopes[k].why)
    BY <1>1, <1>4, <2>1 DEF TypeIn
  <2>5. TypeIn(w).flow = w.scopes[k].flow
    BY <2>4 DEF Known
  <2>6. w.scopes[k].flow # None /\ Sound(w.scopes[k])
    BY <1>1, <1>2, <2>3
  <2> QED
    BY <2>5, <2>6 DEF Sound, Flowing
<1> QED
  BY <1>3, <1>4

-----------------------------------------------------------------------------
(* What conditions leave *)

(* A test whose outcome is known.                                          *)
LEMMA NarrowedIsType ==
  ASSUME NEW t \in Tests, NEW outcome, NEW at, IsType(at.flow), NEW old, Flowing(old.flow)
  PROVE  Flowing(Narrowed(t, outcome, at, old).flow)
<1>1. /\ IsType(RemoveFalsy(at.flow)) /\ IsType(RemoveTruthy(at.flow))
      /\ IsType(RemoveNull(at.flow)) /\ IsType(RemoveTypeof(at.flow, t.arg))
      /\ IsType(NullType)
  BY RemoveFalsyIsType, RemoveTruthyIsType, RemoveNullIsType, RemoveTypeofIsType, AnyNullTypes
<1>2. PICK n : n = Narrowed(t, outcome, at, old)
  OBVIOUS
<1>3. CASE t.op = "truthy"
  <2>1. n.flow \in {RemoveFalsy(at.flow), RemoveTruthy(at.flow)}
    BY <1>2, <1>3 DEF Narrowed, Known
  <2> QED
    BY <1>1, <1>2, <2>1 DEF Flowing
<1>4. CASE t.op = "null"
  <2>1. n.flow \in {NullType, RemoveNull(at.flow)}
    BY <1>2, <1>4 DEF Narrowed, Known
  <2> QED
    BY <1>1, <1>2, <2>1 DEF Flowing
<1>5. CASE t.op = "typeof"
  <2>1. n.flow \in {One(Prim(t.arg, None)), RemoveTypeof(at.flow, t.arg)}
    BY <1>2, <1>5 DEF Narrowed, Known
  <2>2. t.arg \in Kinds
    BY <1>5 DEF Tests
  <2>3. IsType(One(Prim(t.arg, None)))
    BY <2>2, PrimIs, OneIsType
  <2> QED
    BY <1>1, <1>2, <2>1, <2>3 DEF Flowing
<1>6. CASE t.op = "instanceof"
  <2>1. n = old \/ n.flow = One(Prim("instance", t.arg))
    BY <1>2, <1>6 DEF Narrowed, Known
  <2>2. t.arg \in DataOf["instance"] /\ "instance" \in Kinds
    BY <1>6, TypesAssumption DEF Tests, Classes
  <2>3. IsType(One(Prim("instance", t.arg)))
    BY <2>2, PrimIs, OneIsType
  <2> QED
    BY <1>2, <2>1, <2>3 DEF Flowing
<1>7. t.op \in {"truthy", "null", "typeof", "instanceof"}
  BY DEF Tests
<1> QED
  BY <1>3, <1>4, <1>5, <1>6, <1>7

(* A condition of which a branch is taken.                                 *)
LEMMA GuardedIsType ==
  ASSUME NEW c, IsCondition(c), NEW branch, NEW at, IsType(at.flow), NEW here, Flowing(here.flow)
  PROVE  Flowing(Guarded(c, branch, at, here).flow)
<1>1. c.op \in {"test", "and", "or"} /\ c.parts \in Seq(Tests)
      /\ Len(c.parts) = IF c.op = "test" THEN 1 ELSE 2
  BY DEF IsCondition
<1>2. c.parts[1] \in Tests /\ (c.op # "test" => c.parts[2] \in Tests)
  BY <1>1
<1> DEFINE after(t, old) == Narrowed(t, c.neg # branch, IF old.flow = None THEN at ELSE old, old)
<1>3. ASSUME NEW t \in Tests, NEW old, Flowing(old.flow)
      PROVE  Flowing(after(t, old).flow)
  <2>1. PICK a : a = IF old.flow = None THEN at ELSE old
    OBVIOUS
  <2>2. IsType(a.flow)
    BY <1>3, <2>1 DEF Flowing
  <2> QED
    BY <1>3, <2>1, <2>2, NarrowedIsType
<1>4. PICK first : first = after(c.parts[1], here)
  OBVIOUS
<1>5. Guarded(c, branch, at, here) =
        IF ~Narrowing(c, branch) THEN here
        ELSE IF c.op = "test" THEN first ELSE after(c.parts[2], first)
  BY <1>4 DEF Guarded
<1> HIDE DEF after
<1>6. Flowing(first.flow)
  BY <1>2, <1>3, <1>4
<1>7. c.op # "test" => Flowing(after(c.parts[2], first).flow)
  BY <1>2, <1>3, <1>6
<1> QED
  BY <1>5, <1>6, <1>7

-----------------------------------------------------------------------------
(* Assignments and conditions in the walk *)

(* A frame that keeps its kind and condition.                              *)
LEMMA SoundChange ==
  ASSUME NEW f, Sound(f), NEW e, DOMAIN e = DOMAIN f, e.kind = f.kind, e.cond = f.cond,
         Flowing(e.flow)
  PROVE  Sound(e)
BY DEF Sound, Fields

(* Another frame in the innermost scope, and perhaps another type.         *)
LEMMA KnowsChange ==
  ASSUME NEW w, Knows(w), NEW e, DOMAIN e = DOMAIN w.scopes[Len(w.scopes)],
         e.kind = w.scopes[Len(w.scopes)].kind, e.cond = w.scopes[Len(w.scopes)].cond,
         Flowing(e.flow),
         NEW x, {"typ", "scopes"} \subseteq DOMAIN x, IsType(x.typ),
         x.scopes = [w.scopes EXCEPT ![Len(w.scopes)] = e]
  PROVE  Knows(x)
<1>1. Typed(w.scopes) /\ Len(w.scopes) > 0 /\ Len(w.scopes) \in Nat
  BY TypedLen DEF Knows
<1>2. PICK n : n = Len(w.scopes)
  OBVIOUS
<1>3. n \in 1..Len(w.scopes) /\ Sound(w.scopes[n])
  BY <1>1, <1>2, TypedLen
<1>4. Sound(e)
  BY <1>2, <1>3, SoundChange
<1>5. Typed(x.scopes) /\ Len(x.scopes) = Len(w.scopes)
  BY <1>1, <1>2, <1>3, <1>4, TypedReplace
<1> QED
  BY <1>1, <1>5 DEF Knows

(* The innermost frame of a walk.                                          *)
LEMMA TopSound ==
  ASSUME NEW w, Knows(w)
  PROVE  Sound(w.scopes[Len(w.scopes)])
<1>1. Typed(w.scopes) /\ Len(w.scopes) > 0 /\ Len(w.scopes) \in Nat
  BY TypedLen DEF Knows
<1> QED
  BY <1>1, TypedLen

(* assign_operator.                                                        *)
LEMMA AssignKnows ==
  ASSUME explicit \in BOOLEAN, NEW w, Knows(w), NEW t, IsType(t), NEW v,
         NEW x, x = AssignOperator(w, t, v)
  PROVE  Knows(x)
<1>1. PICK new : new = UpdateType(w.typ, explicit, t)
  OBVIOUS
<1>2. IsType(new)
  BY <1>1, UpdateIsType DEF Knows
<1>3. PICK top : top = w.scopes[Len(w.scopes)]
  OBVIOUS
<1>4. Sound(top)
  BY <1>3, TopSound
<1>5. PICK e : e = [top EXCEPT !.flow = new, !.wrote = TRUE, !.why = Refining(w, t, v)]
  OBVIOUS
<1>6. DOMAIN e = DOMAIN top /\ e.kind = top.kind /\ e.cond = top.cond /\ e.flow = new
  BY <1>4, <1>5 DEF Sound, Fields
<1>7. {"typ", "scopes"} \subseteq DOMAIN x /\ x.typ = new
      /\ x.scopes = [w.scopes EXCEPT ![Len(w.scopes)] = e]
  BY <1>1, <1>3, <1>5 DEF AssignOperator
<1> QED
  BY <1>2, <1>3, <1>6, <1>7, KnowsChange DEF Flowing

(* A condition that is collected.                                          *)
LEMMA CollectedKnows ==
  ASSUME explicit \in BOOLEAN, NEW w, Knows(w), NEW c, IsCondition(c), NEW v,
         NEW x, x = Collected(w, c, v)
  PROVE  Knows(x)
<1>1. CASE c.sets = None
  BY <1>1 DEF Collected
<1>2. CASE c.sets # None
  BY <1>2, AssignKnows DEF Collected, IsCondition
<1> QED
  BY <1>1, <1>2

(* The condition of a do loop that the run may not have come to.           *)
LEMMA SkippedKnows ==
  ASSUME NEW w, Knows(w), NEW c, NEW x, x = Skipped(w, c)
  PROVE  Knows(x)
<1>1. PICK n : n = Len(w.scopes)
  OBVIOUS
<1>2. PICK top : top = w.scopes[n]
  OBVIOUS
<1>3. PICK e : e = [top EXCEPT !.why = IF Rounds \/ c.sets = None THEN @ ELSE @ \cup {"skipped"}]
  OBVIOUS
<1>4. Sound(top)
  BY <1>1, <1>2, TopSound
<1>5. DOMAIN e = DOMAIN top /\ e.kind = top.kind /\ e.cond = top.cond /\ e.flow = top.flow
  BY <1>3, <1>4 DEF Sound, Fields
<1>6. x = [w EXCEPT !.scopes[n].why = IF Rounds \/ c.sets = None THEN @ ELSE @ \cup {"skipped"}]
  BY <1>1 DEF Skipped
<1>7. /\ {"typ", "scopes"} \subseteq DOMAIN x /\ x.typ = w.typ
      /\ x.scopes = [w.scopes EXCEPT ![n] = e]
  BY <1>2, <1>3, <1>6 DEF Knows
<1>8. IsType(x.typ) /\ Flowing(e.flow)
  BY <1>4, <1>5, <1>7 DEF Knows, Sound
<1> QED
  BY <1>1, <1>2, <1>5, <1>7, <1>8, KnowsChange

(* A condition that narrows the innermost scope.                           *)
LEMMA NarrowKnows ==
  ASSUME NEW w, Knows(w), NEW c, IsCondition(c), NEW x, x = NarrowTop(w, c)
  PROVE  Knows(x)
<1>1. PICK top : top = w.scopes[Len(w.scopes)]
  OBVIOUS
<1>2. Sound(top)
  BY <1>1, TopSound
<1>3. PICK here : here = Known(top.flow, top.why)
  OBVIOUS
<1>4. Flowing(here.flow)
  BY <1>2, <1>3 DEF Known, Sound
<1>5. PICK at : at = TypeIn(w)
  OBVIOUS
<1>6. IsType(at.flow)
  BY <1>5, TypeInIsType
<1>7. PICK f : f = Guarded(c, TRUE, at, here)
  OBVIOUS
<1>8. Flowing(f.flow)
  BY <1>4, <1>6, <1>7, GuardedIsType
<1>9. PICK e : e = [top EXCEPT !.flow = f.flow, !.why = f.why]
  OBVIOUS
<1>10. DOMAIN e = DOMAIN top /\ e.kind = top.kind /\ e.cond = top.cond /\ e.flow = f.flow
  BY <1>2, <1>9 DEF Sound, Fields
<1>11. /\ {"typ", "scopes"} \subseteq DOMAIN x /\ x.typ = w.typ
       /\ x.scopes = [w.scopes EXCEPT ![Len(w.scopes)] = e]
  BY <1>1, <1>3, <1>5, <1>7, <1>9 DEF NarrowTop, Knows
<1>12. IsType(x.typ)
  BY <1>11 DEF Knows
<1> QED
  BY <1>1, <1>8, <1>10, <1>11, <1>12, KnowsChange

(* The step of a for loop.                                                 *)
LEMMA SteppedKnows ==
  ASSUME explicit \in BOOLEAN, NEW w, Knows(w), NEW t, Flowing(t), NEW v,
         NEW x, x = Stepped(w, t, v)
  PROVE  Knows(x)
<1>1. CASE t = None
  BY <1>1 DEF Stepped
<1>2. CASE t # None
  <2>1. PICK a : a = AssignOperator(w, t, v)
    OBVIOUS
  <2>2. Knows(a)
    BY <1>2, <2>1, AssignKnows DEF Flowing
  <2>3. PICK n : n = Len(a.scopes)
    OBVIOUS
  <2>4. PICK top : top = a.scopes[n]
    OBVIOUS
  <2>5. PICK e : e = [top EXCEPT !.why = @ \cup {"round"}]
    OBVIOUS
  <2>6. Sound(top)
    BY <2>2, <2>3, <2>4, TopSound
  <2>7. DOMAIN e = DOMAIN top /\ e.kind = top.kind /\ e.cond = top.cond /\ e.flow = top.flow
    BY <2>5, <2>6 DEF Sound, Fields
  <2>8. x = [a EXCEPT !.scopes[n].why = @ \cup {"round"}]
    BY <1>2, <2>1, <2>3 DEF Stepped
  <2>9. /\ {"typ", "scopes"} \subseteq DOMAIN x /\ x.typ = a.typ
        /\ x.scopes = [a.scopes EXCEPT ![n] = e]
    BY <2>2, <2>4, <2>5, <2>8 DEF Knows
  <2>10. IsType(x.typ) /\ Flowing(e.flow)
    BY <2>2, <2>6, <2>7, <2>9 DEF Knows, Sound
  <2> QED
    BY <2>2, <2>3, <2>4, <2>7, <2>9, <2>10, KnowsChange
<1> QED
  BY <1>1, <1>2

-----------------------------------------------------------------------------
(* The actions and types *)

(* What the families hold.                                                 *)
LEMMA FamilyFacts ==
  ASSUME TInv
  PROVE  /\ \A t \in family.declared \cup family.assigned : IsType(t)
         /\ \A c \in family.conditions : IsCondition(c)
         /\ \A t \in family.assigned \cup {None} : Flowing(t)
<1>1. /\ \A t \in family.declared \cup family.assigned : IsType(t)
      /\ \A c \in family.conditions : IsCondition(c)
  BY FlowAssumption DEF TInv
<1> QED
  BY <1>1 DEF Flowing

(* The declaration.                                                        *)
LEMMA InitTyped == Init => TInv
<1> SUFFICES ASSUME Init PROVE TInv
  OBVIOUS
<1>1. family \in Families /\ explicit \in BOOLEAN
  BY DEF Init
<1>2. PICK t \in family.assigned \cup {NullType} :
        typ = IF explicit THEN CheckType(documented, t) ELSE AddAny(t)
  BY DEF Init
<1>3. IsType(t) /\ (explicit => IsType(documented))
  BY <1>1, FlowAssumption, AnyNullTypes DEF Init
<1>4. IsType(AddAny(t)) /\ (explicit => IsType(CheckType(documented, t)))
  BY <1>3, AnyNullTypes, MergeIsType, CheckIsType DEF AddAny
<1>5. PICK f : f = Frame("body", None, Unknown, TRUE, TRUE)
  OBVIOUS
<1>6. Sound(f)
  BY <1>5 DEF Sound, Fields, Frame, Unknown, Known, Flowing
<1>7. scopes = <<f>>
  BY <1>5 DEF Init
<1>8. scopes \in Seq({f}) /\ Len(scopes) = 1
  BY <1>7
<1>9. Typed(scopes)
  BY <1>6, <1>8 DEF Typed
<1> QED
  BY <1>1, <1>2, <1>3, <1>4, <1>8, <1>9 DEF TInv

(* The walk knows what the state has.                                      *)
LEMMA WalkKnows ==
  ASSUME TInv
  PROVE  Knows(Walk) /\ explicit \in BOOLEAN
BY DEF TInv, Walk, Knows

(* What is kept is of types.                                               *)
LEMMA KeepTypes ==
  ASSUME TInv, UNCHANGED <<family, explicit>>, NEW w, Knows(w), Keep(w)
  PROVE  TInv'
<1>1. typ' = w.typ /\ scopes' = w.scopes
  BY DEF Keep
<1>2. IsType(w.typ) /\ Typed(w.scopes) /\ Len(w.scopes) > 0
  BY DEF Knows
<1>3. family' = family /\ explicit' = explicit /\ family \in Families /\ explicit \in BOOLEAN
  BY DEF TInv
<1> QED
  BY <1>1, <1>2, <1>3 DEF TInv

(* A new frame.                                                            *)
LEMMA FrameSound ==
  ASSUME NEW kind, NEW cond, NEW f, Flowing(f.flow), NEW entered, NEW held,
         kind \in {"then", "do"} => IsCondition(cond)
  PROVE  Sound(Frame(kind, cond, f, entered, held))
BY DEF Sound, Fields, Frame

(* Nothing is known.                                                       *)
LEMMA UnknownFlows == Flowing(Unknown.flow)
BY DEF Unknown, Known, Flowing

(* A statement with a scope is entered.                                    *)
LEMMA EnterTypes ==
  ASSUME TInv, UNCHANGED <<family, explicit>>, NEW w, Knows(w), NEW frame, Sound(frame), Enter(w, frame)
  PROVE  TInv'
<1>1. PICK x : x = Append(w.scopes, frame)
  OBVIOUS
<1>2. Typed(x) /\ Len(x) > 0
  <2>1. Typed(x) /\ Len(x) = Len(w.scopes) + 1 /\ Len(w.scopes) \in Nat
    BY <1>1, TypedPush DEF Knows
  <2> QED
    BY <2>1
<1>3. PICK u : u = [w EXCEPT !.scopes = Append(@, frame)]
  OBVIOUS
<1>4. {"typ", "scopes"} \subseteq DOMAIN u /\ u.typ = w.typ /\ u.scopes = x
  BY <1>1, <1>3 DEF Knows
<1>5. Knows(u)
  BY <1>2, <1>4 DEF Knows
<1>6. Keep(u)
  BY <1>3 DEF Enter
<1> QED
  BY <1>5, <1>6, KeepTypes

(* assign_operator.                                                        *)
LEMMA AssignTypes == ASSUME TInv, NEW t \in family.assigned, Assign(t) PROVE TInv'
<1>a. PICK v : Keep(AssignOperator(Walk, t, v))
  BY DEF Assign
<1>1. PICK x : x = AssignOperator(Walk, t, v)
  OBVIOUS
<1>2. Knows(x)
  BY <1>1, WalkKnows, AssignKnows, FamilyFacts
<1>3. Keep(x) /\ UNCHANGED <<family, explicit>>
  BY <1>1, <1>a DEF Assign, Step
<1> QED
  BY <1>2, <1>3, KeepTypes

(* block_statement, and try_statement up to its body.                      *)
LEMMA BlockTypes == ASSUME TInv, NEW kind \in {"block", "try"}, Block(kind) PROVE TInv'
<1>1. PICK f : f = Frame(kind, None, Unknown, live, live)
  OBVIOUS
<1>2. Sound(f)
  BY <1>1, FrameSound, UnknownFlows
<1>3. Enter(Walk, f) /\ UNCHANGED <<family, explicit>>
  BY <1>1 DEF Block, Step
<1> QED
  BY <1>2, <1>3, WalkKnows, EnterTypes

(* if_statement up to its first branch.                                    *)
LEMMA ThenTypes == ASSUME TInv, NEW c \in family.conditions, Then(c) PROVE TInv'
<1>3. PICK v \in Evaluated(c) :
        LET w == Collected(Walk, c, v) IN
        Enter(w, Frame("then", c, Guarded(c, TRUE, TypeIn(w), Unknown), live, live /\ Satisfied(c, v)))
  BY DEF Then
<1>1. PICK w : w = Collected(Walk, c, v)
  OBVIOUS
<1>2. Knows(w) /\ IsCondition(c)
  BY <1>1, WalkKnows, CollectedKnows, FamilyFacts
<1>4. PICK g : g = Guarded(c, TRUE, TypeIn(w), Unknown)
  OBVIOUS
<1>5. Flowing(g.flow)
  BY <1>2, <1>4, TypeInIsType, GuardedIsType, UnknownFlows
<1>6. PICK f : f = Frame("then", c, g, live, live /\ Satisfied(c, v))
  OBVIOUS
<1>7. Sound(f)
  BY <1>2, <1>5, <1>6, FrameSound
<1>8. Enter(w, f) /\ UNCHANGED <<family, explicit>>
  BY <1>1, <1>3, <1>4, <1>6 DEF Then, Step
<1> QED
  BY <1>2, <1>7, <1>8, EnterTypes

(* while_statement up to its body.                                         *)
LEMMA WhileTypes == ASSUME TInv, NEW c \in family.conditions, While(c) PROVE TInv'
<1>a. PICK u \in Evaluated(c) :
        Enter(NarrowTop(Collected(Walk, c, u), c),
              Frame("while", c, Unknown, live, live /\ Satisfied(c, u)))
  BY DEF While
<1>1. PICK v : v = Collected(Walk, c, u)
  OBVIOUS
<1>2. Knows(v) /\ IsCondition(c)
  BY <1>1, WalkKnows, CollectedKnows, FamilyFacts
<1>3. PICK w : w = NarrowTop(v, c)
  OBVIOUS
<1>4. Knows(w)
  BY <1>2, <1>3, NarrowKnows
<1>5. \A held : Sound(Frame("while", c, Unknown, live, held))
  BY FrameSound, UnknownFlows
<1>6. PICK held : Enter(w, Frame("while", c, Unknown, live, held))
  BY <1>1, <1>3, <1>a
<1>7. UNCHANGED <<family, explicit>>
  BY DEF While, Step
<1> QED
  BY <1>4, <1>5, <1>6, <1>7, EnterTypes

(* do_while_statement up to its body.                                      *)
LEMMA DoTypes == ASSUME TInv, NEW c \in family.conditions, Do(c) PROVE TInv'
<1>1. PICK f : f = Frame("do", c, Unknown, live, live)
  OBVIOUS
<1>2. Sound(f)
  BY <1>1, FrameSound, UnknownFlows, FamilyFacts
<1>3. Enter(Walk, f) /\ UNCHANGED <<family, explicit>>
  BY <1>1 DEF Do, Step
<1> QED
  BY <1>2, <1>3, WalkKnows, EnterTypes

(* for_each_statement up to its body.                                      *)
LEMMA ForEachTypes == ASSUME TInv, ForEach PROVE TInv'
<1>1. \A held : Sound(Frame("foreach", None, Unknown, live, held))
  BY FrameSound, UnknownFlows
<1>2. PICK held : Enter(Walk, Frame("foreach", None, Unknown, live, held))
  BY DEF ForEach
<1>3. UNCHANGED <<family, explicit>>
  BY DEF ForEach, Step
<1> QED
  BY <1>1, <1>2, <1>3, WalkKnows, EnterTypes

(* switch_statement up to its first clause.                                *)
LEMMA SwitchTypes == ASSUME TInv, Switch PROVE TInv'
<1>1. \A held : Sound(Frame("case", None, Unknown, live, held))
  BY FrameSound, UnknownFlows
<1>2. PICK held : Enter(Walk, Frame("case", None, Unknown, live, held))
  BY DEF Switch
<1>3. UNCHANGED <<family, explicit>>
  BY DEF Switch, Step
<1> QED
  BY <1>1, <1>2, <1>3, WalkKnows, EnterTypes

(* for_statement up to its body.                                           *)
LEMMA ForTypes ==
  ASSUME TInv, NEW c \in family.conditions, NEW t \in family.assigned \cup {None}, For(c, t)
  PROVE  TInv'
<1>1. PICK v \in Evaluated(c) :
        LET frame == [Frame("for", c, Unknown, live, live /\ Satisfied(c, v)) EXCEPT !.step = t]
            w == Stepped(NarrowTop(Collected([Walk EXCEPT !.scopes = Append(@, frame)], c, v), c), t, v) IN
        Enter([w EXCEPT !.scopes = Front(@)], Last(w.scopes))
  BY DEF For
<1>2. PICK bare : bare = Frame("for", c, Unknown, live, live /\ Satisfied(c, v))
  OBVIOUS
<1>3. PICK frame : frame = [bare EXCEPT !.step = t]
  OBVIOUS
<1>4. Sound(bare)
  BY <1>2, FrameSound, UnknownFlows
<1>5. Sound(frame)
  BY <1>3, <1>4 DEF Sound, Fields
<1>6. PICK a : a = [Walk EXCEPT !.scopes = Append(@, frame)]
  OBVIOUS
<1>7. Knows(a)
  <2>1. Typed(scopes) /\ IsType(typ)
    BY DEF TInv
  <2>2. PICK x : x = Append(scopes, frame)
    OBVIOUS
  <2>3. Typed(x) /\ Len(x) > 0
    <3>1. Typed(x) /\ Len(x) = Len(scopes) + 1 /\ Len(scopes) \in Nat
      BY <1>5, <2>1, <2>2, TypedPush
    <3> QED
      BY <3>1
  <2>4. {"typ", "scopes"} \subseteq DOMAIN a /\ a.typ = typ /\ a.scopes = x
    BY <1>6, <2>2 DEF Walk
  <2> QED
    BY <2>1, <2>3, <2>4 DEF Knows
<1>8. IsCondition(c) /\ Flowing(t) /\ explicit \in BOOLEAN
  BY FamilyFacts, WalkKnows
<1>9. PICK b : b = Collected(a, c, v)
  OBVIOUS
<1>10. PICK d : d = NarrowTop(b, c)
  OBVIOUS
<1>11. PICK w : w = Stepped(d, t, v)
  OBVIOUS
<1>12. Knows(b)
  BY <1>7, <1>8, <1>9, CollectedKnows
<1>13. Knows(d)
  BY <1>8, <1>10, <1>12, NarrowKnows
<1>14. Knows(w)
  BY <1>8, <1>11, <1>13, SteppedKnows
<1>15. Enter([w EXCEPT !.scopes = Front(@)], Last(w.scopes))
  BY <1>1, <1>2, <1>3, <1>6, <1>9, <1>10, <1>11
<1>16. PICK e : e = Last(w.scopes)
  OBVIOUS
<1>17. Sound(e)
  BY <1>14, <1>16, TopSound DEF Last
<1>18. PICK o : o = Front(w.scopes)
  OBVIOUS
<1>19. Typed(o)
  BY <1>14, <1>18, TypedPop DEF Knows
<1>20. PICK u : u = [w EXCEPT !.scopes = o]
  OBVIOUS
<1>21. "typ" \in DOMAIN u /\ u.typ = w.typ /\ u.scopes = o /\ "scopes" \in DOMAIN u
  BY <1>14, <1>20 DEF Knows
<1>22. Enter(u, e)
  BY <1>15, <1>16, <1>18, <1>20
<1>23. PICK x : x = Append(o, e)
  OBVIOUS
<1>24. Typed(x) /\ Len(x) > 0
  <2>1. Typed(x) /\ Len(x) = Len(o) + 1 /\ Len(o) \in Nat
    BY <1>17, <1>19, <1>23, TypedPush
  <2> QED
    BY <2>1
<1>25. PICK z : z = [u EXCEPT !.scopes = Append(@, e)]
  OBVIOUS
<1>26. {"typ", "scopes"} \subseteq DOMAIN z /\ z.typ = w.typ /\ z.scopes = x
  BY <1>21, <1>23, <1>25
<1>27. Knows(z)
  BY <1>14, <1>24, <1>26 DEF Knows
<1>28. Keep(z) /\ UNCHANGED <<family, explicit>>
  BY <1>22, <1>25 DEF Enter, For, Step
<1> QED
  BY <1>27, <1>28, KeepTypes

(* What is left when the innermost scope ends.                             *)
LEMMA LeftTypes ==
  ASSUME TInv
  PROVE  /\ {"typ", "scopes"} \subseteq DOMAIN Left /\ Left.typ = typ
         /\ Typed(Left.scopes) /\ Len(Left.scopes) = Len(scopes) - 1
         /\ Len(Outer) = Len(scopes) - 1
         /\ Len(scopes) \in Nat /\ Sound(Top)
<1>1. Typed(scopes) /\ Len(scopes) > 0
  BY DEF TInv
<1>2. PICK o : o = Front(scopes)
  OBVIOUS
<1>3. Typed(o) /\ Len(o) = Len(scopes) - 1
  BY <1>1, <1>2, TypedPop
<1>4. PICK x : x = ExitScope(o, Top.wrote)
  OBVIOUS
<1>5. Typed(x) /\ Len(x) = Len(o)
  BY <1>3, <1>4, TypedExit
<1>6. Left.scopes = x /\ {"typ", "scopes"} \subseteq DOMAIN Left /\ Left.typ = typ /\ Outer = o
  BY <1>2, <1>4 DEF Left, Walk, Outer
<1>7. Len(scopes) \in Nat /\ Sound(scopes[Len(scopes)])
  BY <1>1, TypedLen
<1> QED
  BY <1>3, <1>5, <1>6, <1>7 DEF Top, Last

(* The next part of a statement.                                           *)
LEMMA FollowTypes ==
  ASSUME TInv, UNCHANGED <<family, explicit>>, NEW kind, kind \notin {"then", "do"},
         NEW f, Flowing(f.flow), NEW held, NEW runs, Follow(kind, f, held, runs)
  PROVE  TInv'
<1>1. PICK bare : bare = Frame(kind, Top.cond, f, Top.entered, held)
  OBVIOUS
<1>2. PICK frame : frame = [bare EXCEPT !.saved = Top.saved]
  OBVIOUS
<1>3. Sound(bare)
  BY <1>1, FrameSound
<1>4. Sound(frame)
  BY <1>2, <1>3 DEF Sound, Fields
<1>5. PICK l : l = Left
  OBVIOUS
<1>6. {"typ", "scopes"} \subseteq DOMAIN l /\ l.typ = typ /\ Typed(l.scopes)
  BY <1>5, LeftTypes
<1>7. PICK x : x = Append(l.scopes, frame)
  OBVIOUS
<1>8. Typed(x) /\ Len(x) > 0
  <2>1. Typed(x) /\ Len(x) = Len(l.scopes) + 1 /\ Len(l.scopes) \in Nat
    BY <1>4, <1>6, <1>7, TypedPush
  <2> QED
    BY <2>1
<1>9. PICK z : z = [l EXCEPT !.scopes = Append(@, frame)]
  OBVIOUS
<1>10. {"typ", "scopes"} \subseteq DOMAIN z /\ z.typ = typ /\ z.scopes = x
  BY <1>6, <1>7, <1>9
<1>11. Knows(z)
  BY <1>8, <1>10 DEF Knows, TInv
<1>12. Keep(z)
  BY <1>1, <1>2, <1>5, <1>9 DEF Follow
<1> QED
  BY <1>11, <1>12, KeepTypes

(* The other branch of an if.                                              *)
LEMMA ElseTypes == ASSUME TInv, Else, Len(scopes) > 1 PROVE TInv'
<1>1. UNCHANGED <<family, explicit>> /\ Top.kind = "then"
  BY DEF Else, Step
<1>2. IsCondition(Top.cond)
  BY <1>1, LeftTypes DEF Sound, Fields
<1>3. Knows(Left)
  BY LeftTypes DEF Knows, TInv
<1>4. PICK g : g = Guarded(Top.cond, FALSE, TypeIn(Left), Unknown)
  OBVIOUS
<1>5. Flowing(g.flow)
  BY <1>2, <1>3, <1>4, TypeInIsType, GuardedIsType, UnknownFlows
<1>6. PICK runs : Follow("else", g, Top.held, runs)
  BY <1>4 DEF Else
<1> QED
  BY <1>1, <1>5, <1>6, FollowTypes

(* The next clause of a switch.                                            *)
LEMMA CaseTypes == ASSUME TInv, Case PROVE TInv'
<1>1. PICK held, runs : Follow("case", Unknown, held, runs)
  BY DEF Case
<1>2. UNCHANGED <<family, explicit>>
  BY DEF Case, Step
<1> QED
  BY <1>1, <1>2, FollowTypes, UnknownFlows

(* The handler of a try.                                                   *)
LEMMA CatchTypes == ASSUME TInv, Catch PROVE TInv'
<1>1. PICK held, runs : Follow("catch", Unknown, held, runs)
  BY DEF Catch
<1>2. UNCHANGED <<family, explicit>>
  BY DEF Catch, Step
<1> QED
  BY <1>1, <1>2, FollowTypes, UnknownFlows

(* Statements that jump.                                                   *)
LEMMA JumpTypes ==
  ASSUME TInv, NEW to \in {"break", "continue", "out", "throw"}, Jump(to) PROVE TInv'
<1>1. UNCHANGED <<family, explicit, typ, scopes>>
  BY DEF Jump, Step
<1> QED
  BY <1>1 DEF TInv

(* The end of a statement; the condition of a do is collected there.       *)
LEMMA LeaveTypes == ASSUME TInv, Leave PROVE TInv'
<1>1. Len(scopes) > 1 /\ UNCHANGED <<family, explicit>>
  BY DEF Leave
<1>2. PICK l : l = Left
  OBVIOUS
<1>3. PICK n : n = Len(Outer)
  OBVIOUS
<1>4. /\ {"typ", "scopes"} \subseteq DOMAIN l /\ l.typ = typ /\ Typed(l.scopes)
      /\ Len(l.scopes) = n /\ n \in Nat /\ n > 0 /\ Sound(Top)
  BY <1>1, <1>2, <1>3, LeftTypes
<1>5. Knows(l)
  BY <1>4 DEF Knows, TInv
<1>6. PICK known, v :
        /\ known = [l EXCEPT !.scopes[n].why =
                      IF Top.kind = "while" /\ Outer[n].flow # None THEN @ \cup {"loop"} ELSE @]
        /\ Keep(IF Top.kind = "do" THEN Skipped(Collected(known, Top.cond, v), Top.cond) ELSE known)
  BY <1>2, <1>3 DEF Leave
<1>7. Knows(known)
  <2>1. PICK top : top = l.scopes[n]
    OBVIOUS
  <2>2. PICK e : e = [top EXCEPT !.why = IF Top.kind = "while" /\ Outer[n].flow # None
                                        THEN @ \cup {"loop"} ELSE @]
    OBVIOUS
  <2>3. Sound(top)
    BY <1>4, <1>5, <2>1, TopSound
  <2>4. DOMAIN e = DOMAIN top /\ e.kind = top.kind /\ e.cond = top.cond /\ e.flow = top.flow
    BY <2>2, <2>3 DEF Sound, Fields
  <2>5. /\ {"typ", "scopes"} \subseteq DOMAIN known /\ known.typ = l.typ
        /\ known.scopes = [l.scopes EXCEPT ![n] = e]
    BY <1>4, <1>6, <2>1, <2>2
  <2>6. IsType(known.typ) /\ Flowing(e.flow)
    BY <1>5, <2>3, <2>4, <2>5 DEF Knows, Sound
  <2> QED
    BY <1>4, <1>5, <2>1, <2>4, <2>5, <2>6, KnowsChange
<1>8. PICK x : x = (IF Top.kind = "do" THEN Skipped(Collected(known, Top.cond, v), Top.cond) ELSE known)
  OBVIOUS
<1>9. Knows(x)
  <2>1. CASE Top.kind = "do"
    <3>1. IsCondition(Top.cond) /\ explicit \in BOOLEAN
      BY <1>4, <2>1 DEF Sound, TInv
    <3> QED
      BY <1>7, <1>8, <2>1, <3>1, CollectedKnows, SkippedKnows
  <2>2. CASE Top.kind # "do"
    BY <1>7, <1>8, <2>2
  <2> QED
    BY <2>1, <2>2
<1>10. Keep(x)
  BY <1>6, <1>8
<1> QED
  BY <1>1, <1>9, <1>10, KeepTypes

(* The types of the symbol and of every scope are types throughout.        *)
THEOREM Typing == Spec => []TInv
<1>1. ASSUME IInv, TInv, [Next]_vars PROVE TInv'
  <2>1. CASE UNCHANGED vars
    BY <1>1, <2>1 DEF TInv, vars
  <2>2. CASE Next
    <3>1. ASSUME NEW t \in family.assigned, Assign(t) PROVE TInv'
      BY <1>1, <3>1, AssignTypes
    <3>2. ASSUME NEW c \in family.conditions, Then(c) \/ While(c) \/ Do(c) PROVE TInv'
      BY <1>1, <3>2, ThenTypes, WhileTypes, DoTypes
    <3>3. ASSUME NEW c \in family.conditions, NEW t \in family.assigned \cup {None}, For(c, t)
          PROVE  TInv'
      BY <1>1, <3>3, ForTypes
    <3>4. ASSUME NEW kind \in {"block", "try"}, Block(kind) PROVE TInv'
      BY <1>1, <3>4, BlockTypes
    <3>5. ASSUME NEW to \in {"break", "continue", "out", "throw"}, Jump(to) PROVE TInv'
      BY <1>1, <3>5, JumpTypes
    <3>6. ASSUME Else PROVE TInv'
      <4>1. Len(scopes) > 1
        BY <1>1, <3>6, TopFacts DEF Else
      <4> QED
        BY <1>1, <3>6, <4>1, ElseTypes
    <3>7. CASE ForEach \/ Switch \/ Case \/ Catch \/ Leave
      BY <1>1, <3>7, ForEachTypes, SwitchTypes, CaseTypes, CatchTypes, LeaveTypes
    <3> QED
      BY <2>2, <3>1, <3>2, <3>3, <3>4, <3>5, <3>6, <3>7, Zenon DEF Next
  <2> QED
    BY <1>1, <2>1, <2>2
<1> QED
  BY <1>1, InitTyped, Invariance, PTL DEF Spec

(* The cached kinds of every type are those of its members, unions have    *)
(* two members or more, and no kind twice but instances (TypesCanonical):  *)
(* merge_types, check_type and the narrowing functions together.           *)
THEOREM TypesCanonicalHolds == Spec => []TypesCanonical
<1>1. TInv => TypesCanonical
  <2> SUFFICES ASSUME TInv, NEW t \in {typ} \cup ({scopes[i].flow : i \in DOMAIN scopes} \ {None})
               PROVE  Canonical(t)
    BY DEF TypesCanonical
  <2>1. /\ Len(scopes) \in Nat /\ DOMAIN scopes = 1..Len(scopes)
        /\ \A i \in 1..Len(scopes) : Sound(scopes[i])
    BY TypedLen DEF TInv
  <2>2. IsType(t)
    BY <2>1 DEF TInv, Sound, Flowing
  <2> QED
    BY <2>2 DEF IsType
<1> QED
  BY <1>1, Typing, PTL

-----------------------------------------------------------------------------
(* What types stand for: a value a type denotes is still denoted by what the *)
(* merges and the narrowing functions make of it.                          *)

(* The symbol holds v: a value, and what is documented stands for it.      *)
IsValue(v) == v \in Primitives /\ v.kind # "any" /\ (v.of = None => DataOf[v.kind] = {})

(* Every value a symbol may hold is one.                                   *)
LEMMA ValuesAre == \A v \in Values : IsValue(v)
BY FlowAssumption DEF IsValue

(* A member that stands for a value.                                       *)
LEMMA MemberStands ==
  ASSUME NEW t, NEW v, NEW i \in DOMAIN t.members, Stands(t.members[i], v)
  PROVE  Denotes(t, v)
BY DEF Denotes

(* A type with "any" stands for everything.                                *)
LEMMA AnyStands ==
  ASSUME NEW t, IsType(t), "any" \in t.flags, NEW v
  PROVE  Denotes(t, v)
<1>1. t.flags = KindsOf(t.members)
  BY TypeFacts
<1>2. PICK i \in DOMAIN t.members : t.members[i].kind = "any"
  BY <1>1 DEF KindsOf
<1> QED
  BY <1>2 DEF Denotes, Stands

(* So do the types that are left when nothing is.                          *)
LEMMA AnyNullStand ==
  /\ \A v : Denotes(AnyType, v)
  /\ \A v : v.kind = "null" => Denotes(NullType, v)
<1>1. "any" \in AnyType.flags /\ AnyType.members = <<Prim("any", None)>>
  BY DEF AnyType, One, Prim
<1>2. NullType.members = <<Prim("null", None)>>
  BY DEF NullType, One
<1>3. 1 \in DOMAIN AnyType.members /\ AnyType.members[1].kind = "any"
  BY <1>1 DEF Prim
<1>4. /\ 1 \in DOMAIN NullType.members /\ NullType.members[1].kind = "null"
      /\ NullType.members[1].of = None
  BY <1>2 DEF Prim
<1> QED
  BY <1>3, <1>4 DEF Denotes, Stands

(* A primitive stands for what it stands for as a type.                    *)
LEMMA OneStands ==
  ASSUME NEW p, NEW v, Stands(p, v)
  PROVE  Denotes(One(p), v)
<1>1. One(p).members = <<p>>
  BY DEF One
<1>2. 1 \in DOMAIN One(p).members /\ One(p).members[1] = p
  BY <1>1
<1> QED
  BY <1>2, MemberStands

(* Members that are put together again.                                    *)
LEMMA RebuildStands ==
  ASSUME NEW s, s \in Seq(Primitives), NEW v, NEW i \in DOMAIN s, Stands(s[i], v)
  PROVE  Denotes(Rebuild(s), v)
<1>1. Len(s) \in Nat /\ DOMAIN s = 1..Len(s) /\ Len(s) # 0
  BY SeqFacts
<1>2. CASE Len(s) = 1
  <2>1. Rebuild(s) = One(s[1]) /\ i = 1
    BY <1>1, <1>2 DEF Rebuild
  <2> QED
    BY <2>1, OneStands
<1>3. CASE Len(s) # 1
  <2>1. Rebuild(s) = Union(s, KindsOf(s))
    BY <1>1, <1>3 DEF Rebuild
  <2>2. Rebuild(s).members = s
    BY <2>1 DEF Union
  <2> QED
    BY <2>2, MemberStands
<1> QED
  BY <1>2, <1>3

(* What is chosen.                                                         *)
LEMMA ChosenHas ==
  ASSUME NEW s, s \in Seq(Primitives), NEW I, I \subseteq DOMAIN s, NEW i \in I,
         NEW x, x = Chosen(s, I)
  PROVE  x \in Seq(Primitives) /\ \E n \in DOMAIN x : x[n] = s[i]
<1>1. x \in Seq(Primitives)
  BY ChosenFacts
<1>2. PICK f : Picks(f, I, Len(x)) /\ \A n \in DOMAIN x : x[n] = s[f[n]]
  BY ChosenFacts
<1>3. DOMAIN x = 1..Len(x)
  BY <1>1, SeqFacts
<1>4. PICK n \in 1..Len(x) : f[n] = i
  BY <1>2 DEF Picks
<1> QED
  BY <1>1, <1>2, <1>3, <1>4

(* remove_null_from_type.                                                  *)
LEMMA RemoveNullStands ==
  ASSUME NEW t, IsType(t), NEW v, IsValue(v), Denotes(t, v), v.kind # "null"
  PROVE  Denotes(RemoveNull(t), v)
<1>1. PICK I : I = {i \in DOMAIN t.members : t.members[i].kind # "null"}
  OBVIOUS
<1>2. PICK s : s = Chosen(t.members, I)
  OBVIOUS
<1>3. PICK i \in DOMAIN t.members : Stands(t.members[i], v)
  BY DEF Denotes
<1>4. i \in I /\ I \subseteq DOMAIN t.members
  BY <1>1, <1>3 DEF Stands
<1>5. t.members \in Seq(Primitives)
  BY TypeFacts
<1>6. s \in Seq(Primitives) /\ \E n \in DOMAIN s : s[n] = t.members[i]
  BY <1>2, <1>4, <1>5, ChosenHas
<1>7. PICK n \in DOMAIN s : Stands(s[n], v)
  BY <1>3, <1>6
<1>8. s # << >> /\ Len(s) \in Nat
  BY <1>6, SeqFacts
<1>9. RemoveNull(t) \in {Union(s, t.flags \ {"null"}), Rebuild(s), t}
  BY <1>1, <1>2, <1>8 DEF RemoveNull
<1>10. Denotes(Union(s, t.flags \ {"null"}), v)
  <2>1. Union(s, t.flags \ {"null"}).members = s
    BY DEF Union
  <2> QED
    BY <1>7, <2>1, MemberStands
<1>11. Denotes(Rebuild(s), v)
  BY <1>6, <1>7, RebuildStands
<1> QED
  BY <1>9, <1>10, <1>11

(* remove_typeof_from_type.                                                *)
LEMMA RemoveTypeofStands ==
  ASSUME NEW t, IsType(t), NEW v, IsValue(v), Denotes(t, v), NEW k, k # "any", v.kind # k
  PROVE  Denotes(RemoveTypeof(t, k), v)
<1>1. PICK I : I = {i \in DOMAIN t.members : t.members[i].kind # k}
  OBVIOUS
<1>2. PICK s : s = Chosen(t.members, I)
  OBVIOUS
<1>3. PICK i \in DOMAIN t.members : Stands(t.members[i], v)
  BY DEF Denotes
<1>4. i \in I /\ I \subseteq DOMAIN t.members
  BY <1>1, <1>3 DEF Stands
<1>5. t.members \in Seq(Primitives)
  BY TypeFacts
<1>6. s \in Seq(Primitives) /\ \E n \in DOMAIN s : s[n] = t.members[i]
  BY <1>2, <1>4, <1>5, ChosenHas
<1>7. PICK n \in DOMAIN s : Stands(s[n], v)
  BY <1>3, <1>6
<1>8. s # << >>
  BY <1>6, <1>7
<1>9. RemoveTypeof(t, k) \in {Rebuild(s), t}
  BY <1>1, <1>2, <1>8 DEF RemoveTypeof
<1>11. Denotes(Rebuild(s), v)
  BY <1>6, <1>7, RebuildStands
<1> QED
  BY <1>9, <1>11

(* A member that is falsy stands for falsy values only.                    *)
LEMMA FalsyStands ==
  ASSUME NEW p \in Primitives, NEW v, IsValue(v), Stands(p, v), IsFalsy(p)
  PROVE  IsFalsy(v)
<1>1. p.kind \in Kinds /\ p.of \in DataOf[p.kind] \cup {None} /\ v \in Primitives
  BY DEF Primitives, IsValue
<1>2. CASE p.kind = "null"
  BY <1>2 DEF Stands, IsFalsy
<1>3. CASE p.kind # "null"
  <2>1. p.of \in FalsyData
    BY <1>3 DEF IsFalsy
  <2>2. p.of # None
    BY <2>1, TypesAssumption
  <2>3. p.of \in DataOf[p.kind]
    BY <1>1, <2>2
  <2>4. p.kind # "any" /\ p.kind # "instance"
    BY <1>1, <2>1, <2>3, TypesAssumption
  <2>5. p.of = v.of
    BY <2>2, <2>4 DEF Stands
  <2> QED
    BY <2>1, <2>5 DEF IsFalsy
<1> QED
  BY <1>2, <1>3

(* remove_falsy_from_type.                                                 *)
LEMMA RemoveFalsyStands ==
  ASSUME NEW t, IsType(t), NEW v, IsValue(v), Denotes(t, v), ~IsFalsy(v)
  PROVE  Denotes(RemoveFalsy(t), v)
<1>1. PICK I : I = {i \in DOMAIN t.members : ~IsFalsy(t.members[i])}
  OBVIOUS
<1>2. PICK s : s = Chosen(t.members, I)
  OBVIOUS
<1>3. PICK i \in DOMAIN t.members : Stands(t.members[i], v)
  BY DEF Denotes
<1>5. t.members \in Seq(Primitives)
  BY TypeFacts
<1>4. i \in I /\ I \subseteq DOMAIN t.members
  BY <1>1, <1>3, <1>5, SeqFacts, FalsyStands
<1>6. s \in Seq(Primitives) /\ \E n \in DOMAIN s : s[n] = t.members[i]
  BY <1>2, <1>4, <1>5, ChosenHas
<1>7. PICK n \in DOMAIN s : Stands(s[n], v)
  BY <1>3, <1>6
<1>8. s # << >>
  BY <1>6, <1>7
<1> DEFINE true(p) == IF p = Prim("bool", None) THEN Prim("bool", True) ELSE p
<1>9. PICK x : x = [j \in DOMAIN s |-> true(s[j])]
  OBVIOUS
<1>10. RemoveFalsy(t) \in {Rebuild(x), t}
  BY <1>1, <1>2, <1>8, <1>9 DEF RemoveFalsy
<1>11. \A j \in DOMAIN s : s[j] \in Primitives /\ true(s[j]) \in Primitives
  <2> SUFFICES ASSUME NEW j \in DOMAIN s PROVE s[j] \in Primitives /\ true(s[j]) \in Primitives
    OBVIOUS
  <2>1. s[j] \in Primitives /\ s[j].kind \in Kinds
    BY <1>6, SeqFacts
  <2>2. CASE s[j] = Prim("bool", None)
    <3>1. "bool" \in Kinds
      BY <2>1, <2>2 DEF Prim
    <3>2. True \in DataOf["bool"]
      BY <3>1, TypesAssumption
    <3>3. Prim("bool", True) \in Primitives
      BY <3>1, <3>2, PrimIs
    <3> QED
      BY <2>1, <2>2, <3>3
  <2>3. CASE s[j] # Prim("bool", None)
    BY <2>1, <2>3
  <2> QED
    BY <2>2, <2>3
<1>12. Stands(true(s[n]), v)
  <2>1. CASE s[n] = Prim("bool", None)
    <3>1. v.kind = "bool" /\ v \in Primitives
      BY <1>7, <2>1 DEF Stands, Prim, IsValue
    <3>2. "bool" \in Kinds /\ v.of \in DataOf["bool"] \cup {None}
      BY <3>1 DEF Primitives
    <3>3. True \in DataOf["bool"] /\ DataOf["bool"] \ FalsyData = {True}
      BY <3>2, TypesAssumption
    <3>4. v.of # None
      BY <3>1, <3>3 DEF IsValue
    <3>5. v.of \notin FalsyData
      BY DEF IsFalsy
    <3>6. v.of = True
      BY <3>2, <3>3, <3>4, <3>5
    <3> QED
      BY <2>1, <3>1, <3>6 DEF Stands, Prim
  <2>2. CASE s[n] # Prim("bool", None)
    BY <1>7, <2>2
  <2> QED
    BY <2>1, <2>2
<1> HIDE DEF true
<1>13. x \in Seq(Primitives) /\ DOMAIN x = DOMAIN s
  <2>1. Len(s) \in Nat /\ DOMAIN s = 1..Len(s)
    BY <1>6, SeqFacts
  <2> QED
    BY <1>9, <1>11, <2>1, IsASeq
<1>14. Denotes(Rebuild(x), v)
  BY <1>9, <1>12, <1>13, RebuildStands
<1> QED
  BY <1>10, <1>14

(* remove_truthy_from_type, but for a union of which it takes out what may *)
(* be false.                                                               *)
LEMMA RemoveTruthyStands ==
  ASSUME NEW t, IsType(t), NEW v, IsValue(v), Denotes(t, v), IsFalsy(v), ~Undecided(t)
  PROVE  Denotes(RemoveTruthy(t), v)
<1>1. PICK I : I = {i \in DOMAIN t.members : IsFalsy(t.members[i])}
  OBVIOUS
<1>2. PICK s : s = Chosen(t.members, I)
  OBVIOUS
<1>3. PICK i \in DOMAIN t.members : Stands(t.members[i], v)
  BY DEF Denotes
<1>4. t.members \in Seq(Primitives) /\ t.tag \in {"primitive", "union", "enum"}
  BY TypeFacts
<1>5. CASE t.tag = "union"
  <2>1. i \in I /\ I \subseteq DOMAIN t.members
    <3>1. PICK p : p = t.members[i]
      OBVIOUS
    <3>2. p \in Primitives /\ Stands(p, v)
      BY <1>3, <1>4, <3>1, SeqFacts
    <3>3. p.kind \in Kinds /\ p.of \in DataOf[p.kind] \cup {None}
      BY <3>2 DEF Primitives
    <3>4. ~(p.of = None /\ p.kind \in {"any", "integer", "float", "bool"})
      BY <1>5, <3>1 DEF Undecided
    <3>5. p.kind # "any"
      BY <3>3, <3>4, TypesAssumption
    <3>6. p.kind = v.kind
      BY <3>2, <3>5 DEF Stands
    <3>7. IsFalsy(p)
      <4>1. CASE v.kind = "null"
        BY <3>6, <4>1 DEF IsFalsy
      <4>2. CASE v.kind # "null"
        <5>1. v.of \in FalsyData /\ v.of # None
          BY <4>2, TypesAssumption DEF IsFalsy
        <5>2. v.of \in DataOf[v.kind] /\ v.kind \in Kinds
          BY <5>1 DEF IsValue, Primitives
        <5>3. v.kind \in {"integer", "float", "bool"}
          BY <5>1, <5>2, TypesAssumption
        <5>4. p.of = v.of
          BY <3>2, <3>4, <3>6, <5>3 DEF Stands
        <5> QED
          BY <5>1, <5>4 DEF IsFalsy
      <4> QED
        BY <4>1, <4>2
    <3> QED
      BY <1>1, <3>1, <3>7
  <2>2. s \in Seq(Primitives) /\ \E n \in DOMAIN s : s[n] = t.members[i]
    BY <1>2, <1>4, <2>1, ChosenHas
  <2>3. Denotes(Rebuild(s), v)
    BY <1>3, <2>2, RebuildStands
  <2> QED
    BY <1>1, <1>2, <1>5, <2>3 DEF RemoveTruthy
<1>6. CASE t.tag # "union"
  <2>1. RemoveTruthy(t) \in {AnyType, t}
    BY <1>6 DEF RemoveTruthy
  <2> QED
    BY <2>1, AnyNullStand
<1> QED
  BY <1>5, <1>6

(* What a documented primitive becomes is itself, or else what is assigned *)
(* to it, of its kind and not an instance.                                 *)
LEMMA CheckedIs ==
  ASSUME NEW o \in Primitives, NEW n \in Primitives, Takes(o, n), NEW m, m = CheckPrimitive(o, n)
  PROVE  /\ o.kind # "any"
         /\ m = o \/ (m = n /\ o.kind = n.kind /\ o.kind # "instance")
<1>1. m # NoMatch
  BY DEF Takes
<1>2. CASE o.kind # n.kind
  BY <1>1, <1>2 DEF CheckPrimitive
<1>3. CASE o.kind = n.kind /\ o.kind = "any"
  BY <1>1, <1>3 DEF CheckPrimitive, Refined
<1>4. CASE o.kind = n.kind /\ o.kind = "instance"
  <2>1. CASE o.of # None /\ n.of # None
    BY <1>1, <1>4, <2>1 DEF CheckPrimitive, Refined
  <2>2. CASE o.of = None \/ n.of = None
    BY <1>1, <1>4, <2>2 DEF CheckPrimitive, Refined
  <2> QED
    BY <2>1, <2>2, <1>4
<1>5. CASE o.kind = n.kind /\ o.kind # "instance" /\ o.kind # "any"
  <2>1. CASE o.kind = "string" /\ n.of # None
    BY <1>5, <2>1 DEF CheckPrimitive, Refined
  <2>2. CASE ~(o.kind = "string" /\ n.of # None)
    BY <1>5, <2>2 DEF CheckPrimitive, Refined
  <2> QED
    BY <2>1, <2>2, <1>5
<1> QED
  BY <1>2, <1>3, <1>4, <1>5

(* A type that stands for whatever it is not said to stand for, too.       *)
Mixed(t) == t.tag = "union" /\ "any" \in t.flags

(* A value that both stand for: what the primitive becomes stands for it.  *)
LEMMA CheckedStands ==
  ASSUME NEW d \in Primitives, NEW t, IsType(t), ~Mixed(t), NEW v, IsValue(v), Stands(d, v),
         Denotes(t, v), NEW i \in DOMAIN t.members, Takes(d, t.members[i])
  PROVE  Stands(CheckPrimitive(d, t.members[i]), v)
<1>1. PICK k \in DOMAIN t.members : Stands(t.members[k], v)
  BY DEF Denotes
<1>2. PICK s : s = t.members
  OBVIOUS
<1>3. s \in Seq(Primitives) /\ Apart(s) /\ t.flags = KindsOf(s)
      /\ t.tag \in {"primitive", "union", "enum"}
  BY <1>2, TypeFacts
<1>4. s[i] \in Primitives /\ s[k] \in Primitives
  BY <1>2, <1>3, SeqFacts
<1>5. PICK m : m = CheckPrimitive(d, s[i])
  OBVIOUS
<1>6. CASE m = d
  BY <1>2, <1>5, <1>6
<1>7. CASE m # d
  <2>1. m = s[i] /\ d.kind = s[i].kind /\ d.kind # "instance" /\ d.kind # "any"
    BY <1>2, <1>4, <1>5, <1>7, CheckedIs
  <2>2. v.kind = d.kind
    BY <2>1 DEF Stands
  <2>3. s[k].kind = v.kind
    <3>1. CASE t.tag = "union"
      <4>1. "any" \notin KindsOf(s)
        BY <1>3, <3>1 DEF Mixed
      <4>2. s[k].kind # "any"
        BY <1>1, <1>2, <4>1 DEF KindsOf
      <4> QED
        BY <1>1, <1>2, <4>2 DEF Stands
    <3>2. CASE t.tag = "primitive"
      <4>1. Len(s) = 1 /\ DOMAIN s = 1..Len(s)
        BY <1>2, <1>3, <3>2, TypeFacts, SeqFacts
      <4>2. i = k
        BY <1>2, <4>1
      <4> QED
        BY <2>1, <2>2, <4>2
    <3>3. CASE t.tag = "enum"
      <4>1. s = << >>
        BY <1>2, <3>3 DEF IsType
      <4> QED
        BY <1>2, <4>1
    <3> QED
      BY <1>3, <3>1, <3>2, <3>3
  <2>4. i = k
    BY <1>2, <1>3, <2>1, <2>2, <2>3 DEF Apart
  <2> QED
    BY <1>1, <1>2, <1>5, <2>1, <2>4
<1> QED
  BY <1>6, <1>7

(* check_type: a documented type that is refined by what is assigned.      *)
LEMMA CheckStands ==
  ASSUME NEW doc, IsType(doc), NEW t, IsType(t), ~Mixed(t), NEW v, IsValue(v),
         Denotes(doc, v), Denotes(t, v)
  PROVE  Denotes(CheckType(doc, t), v)
<1>1. PICK k \in DOMAIN doc.members : Stands(doc.members[k], v)
  BY DEF Denotes
<1>2. PICK s : s = doc.members
  OBVIOUS
<1>3. PICK o : o = t.members
  OBVIOUS
<1>4. /\ s \in Seq(Primitives) /\ o \in Seq(Primitives) /\ k \in DOMAIN s
      /\ doc.tag \in {"primitive", "union", "enum"} /\ t.tag \in {"primitive", "union", "enum"}
      /\ doc.tag = "primitive" => Len(s) = 1
      /\ t.tag = "primitive" => Len(o) = 1
      /\ doc = [tag |-> doc.tag, members |-> s, flags |-> doc.flags]
  BY <1>1, <1>2, <1>3, TypeFacts
<1>5. /\ Len(s) \in Nat /\ DOMAIN s = 1..Len(s) /\ \A i \in DOMAIN s : s[i] \in Primitives
      /\ Len(o) \in Nat /\ DOMAIN o = 1..Len(o) /\ \A i \in DOMAIN o : o[i] \in Primitives
  BY <1>4, SeqFacts
<1>6. CASE doc.tag = "enum" \/ t.tag = "enum"
  BY <1>6 DEF CheckType
<1>7. \A i \in DOMAIN o : Takes(s[k], o[i]) => Stands(CheckPrimitive(s[k], o[i]), v)
  BY <1>1, <1>2, <1>3, <1>4, <1>5, CheckedStands
<1>8. FirstTaken(s[k], o) # 0 =>
        FirstTaken(s[k], o) \in DOMAIN o /\ Takes(s[k], o[FirstTaken(s[k], o)])
  <2>1. PICK I : I = {j \in DOMAIN o : Takes(s[k], o[j])}
    OBVIOUS
  <2>2. I \subseteq Nat \ {0}
    BY <1>5, <2>1
  <2>3. FirstTaken(s[k], o) = FirstOf(I)
    BY <2>1 DEF FirstTaken
  <2>4. FirstOf(I) # 0 => FirstOf(I) \in I
    BY <2>2, FirstFacts
  <2> QED
    BY <2>1, <2>3, <2>4
<1>9. CASE doc.tag = "union" /\ t.tag = "union"
  <2> DEFINE taken(d) == LET i == FirstTaken(d, o) IN
                         IF i = 0 THEN d ELSE CheckPrimitive(d, o[i])
  <2>1. PICK x : x = [i \in DOMAIN s |-> taken(s[i])]
    OBVIOUS
  <2>2. CheckType(doc, t) = Union(x, KindsOf(x))
    BY <1>2, <1>3, <1>9, <2>1 DEF CheckType
  <2>3. Stands(taken(s[k]), v)
    BY <1>1, <1>2, <1>7, <1>8
  <2> HIDE DEF taken
  <2>4. k \in DOMAIN x /\ Stands(x[k], v)
    BY <1>4, <2>1, <2>3
  <2>5. CheckType(doc, t).members = x
    BY <2>2 DEF Union
  <2> QED
    BY <2>4, <2>5, MemberStands
<1>10. CASE doc.tag = "union" /\ t.tag = "primitive"
  <2>1. PICK i : i = FirstOf({j \in DOMAIN s : Takes(s[j], o[1])})
    OBVIOUS
  <2>2. CheckType(doc, t) =
          IF i = 0 THEN doc ELSE [doc EXCEPT !.members[i] = CheckPrimitive(@, o[1])]
    BY <1>2, <1>3, <1>10, <2>1 DEF CheckType
  <2>3. CASE i = 0
    BY <2>2, <2>3
  <2>4. CASE i # 0
    <3>1. PICK x : x = [s EXCEPT ![i] = CheckPrimitive(s[i], o[1])]
      OBVIOUS
    <3>2. CheckType(doc, t).members = x
      <4>1. CheckType(doc, t) = [doc EXCEPT !.members = x]
        BY <1>2, <2>2, <2>4, <3>1
      <4> QED
        BY <1>4, <4>1
    <3>3. i \in DOMAIN s /\ Takes(s[i], o[1])
      <4>1. PICK I : I = {j \in DOMAIN s : Takes(s[j], o[1])}
        OBVIOUS
      <4>2. I \subseteq Nat \ {0}
        BY <1>5, <4>1
      <4> QED
        BY <2>1, <2>4, <4>1, <4>2, FirstFacts
    <3>4. DOMAIN x = DOMAIN s /\ x[k] = IF k = i THEN CheckPrimitive(s[i], o[1]) ELSE s[k]
      BY <1>4, <3>1, <3>3
    <3>5. 1 \in DOMAIN o
      BY <1>4, <1>5, <1>10
    <3>6. Stands(x[k], v)
      BY <1>1, <1>2, <1>7, <3>3, <3>4, <3>5
    <3> QED
      BY <1>4, <3>2, <3>4, <3>6, MemberStands
  <2> QED
    BY <2>3, <2>4
<1>11. CASE doc.tag = "primitive" /\ t.tag # "enum"
  <2>1. k = 1
    BY <1>4, <1>5, <1>11
  <2>2. PICK i : i = FirstTaken(s[1], o)
    OBVIOUS
  <2>3. CheckType(doc, t) = IF i = 0 THEN doc ELSE One(CheckPrimitive(s[1], o[i]))
    BY <1>2, <1>3, <1>11, <2>2 DEF CheckType
  <2>4. CASE i = 0
    BY <2>3, <2>4
  <2>5. CASE i # 0
    BY <1>7, <1>8, <2>1, <2>2, <2>3, <2>5, OneStands
  <2> QED
    BY <2>4, <2>5
<1> QED
  BY <1>4, <1>6, <1>9, <1>10, <1>11

(* merge_types loses no kind.                                              *)
LEMMA MergeFlags ==
  ASSUME NEW l, IsType(l), NEW r, IsType(r)
  PROVE  MergeTypes(l, r).flags = l.flags \cup r.flags
<1>1. PICK m : m = MergeTypes(l, r)
  OBVIOUS
<1>2. /\ l.tag \in {"primitive", "union", "enum"} /\ r.tag \in {"primitive", "union", "enum"}
      /\ l.flags = KindsOf(l.members) /\ r.flags = KindsOf(r.members)
      /\ l.tag = "primitive" => l.flags = {l.members[1].kind} /\ l.members[1] \in Primitives
      /\ r.tag = "primitive" => r.flags = {r.members[1].kind} /\ r.members[1] \in Primitives
  <2>1. \A t : IsType(t) /\ t.tag = "primitive" => t.flags = {t.members[1].kind}
    <3> SUFFICES ASSUME NEW t, IsType(t), t.tag = "primitive" PROVE t.flags = {t.members[1].kind}
      OBVIOUS
    <3>1. Len(t.members) = 1 /\ t.members \in Seq(Primitives) /\ t.flags = KindsOf(t.members)
      BY TypeFacts
    <3>2. DOMAIN t.members = {1}
      BY <3>1
    <3> QED
      BY <3>1, <3>2 DEF KindsOf
  <2> QED
    BY <2>1, TypeFacts
<1>3. CASE l.tag = "enum"
  <2>1. l.flags = {}
    <3>1. l.members = << >>
      BY <1>3 DEF IsType
    <3> QED
      BY <1>2, <3>1 DEF KindsOf
  <2>2. m = r \/ (r.tag = "enum" /\ m = l)
    BY <1>1, <1>3 DEF MergeTypes
  <2>3. r.tag = "enum" => r.flags = {}
    <3>1. r.tag = "enum" => r.members = << >>
      BY DEF IsType
    <3> QED
      BY <1>2, <3>1 DEF KindsOf
  <2> QED
    BY <1>1, <2>1, <2>2, <2>3
<1>4. CASE l.tag # "enum" /\ r.tag = "enum"
  <2>1. r.flags = {}
    <3>1. r.members = << >>
      BY <1>4 DEF IsType
    <3> QED
      BY <1>2, <3>1 DEF KindsOf
  <2>2. m = l
    BY <1>1, <1>4, <2>1 DEF MergeTypes
  <2> QED
    BY <1>1, <2>1, <2>2
<1>5. CASE l.tag = "union" /\ r.tag = "union"
  <2>1. m = MergeUnions(l, r)
    BY <1>1, <1>5 DEF MergeTypes
  <2>2. MergeUnions(l, r).flags = l.flags \cup r.flags
    BY DEF MergeUnions, Union
  <2> QED
    BY <1>1, <2>1, <2>2
<1>6. CASE l.tag = "union" /\ r.tag = "primitive"
  <2>1. m = Include(l, r.members[1])
    BY <1>1, <1>6 DEF MergeTypes
  <2>2. Include(l, r.members[1]).flags = l.flags \cup {r.members[1].kind}
    BY DEF Include, Union
  <2> QED
    BY <1>1, <1>2, <1>6, <2>1, <2>2
<1>7. CASE l.tag = "primitive" /\ r.tag = "union"
  <2>1. m = Include(r, l.members[1])
    BY <1>1, <1>7 DEF MergeTypes
  <2>2. Include(r, l.members[1]).flags = r.flags \cup {l.members[1].kind}
    BY DEF Include, Union
  <2> QED
    BY <1>1, <1>2, <1>7, <2>1, <2>2
<1>8. CASE l.tag = "primitive" /\ r.tag = "primitive"
  <2>1. PICK p : p = MergePrimitives(l.members[1], r.members[1])
    OBVIOUS
  <2>2. m = IF p # NoMatch THEN One(p) ELSE Union(l.members \o r.members, l.flags \cup r.flags)
    BY <1>1, <1>8, <2>1 DEF MergeTypes
  <2>3. CASE p = NoMatch
    BY <1>1, <2>2, <2>3 DEF Union
  <2>4. CASE p # NoMatch
    <3>1. p.kind = l.members[1].kind /\ l.members[1].kind = r.members[1].kind
      BY <1>2, <1>8, <2>1, <2>4, MergeFacts DEF Merge
    <3>2. m.flags = {p.kind}
      BY <2>2, <2>4 DEF One
    <3> QED
      BY <1>1, <1>2, <1>8, <3>1, <3>2
  <2> QED
    BY <2>3, <2>4
<1> QED
  BY <1>2, <1>3, <1>4, <1>5, <1>6, <1>7, <1>8

-----------------------------------------------------------------------------
(* What a test tells of a flow type.                                       *)

(* A flow type that is right for v, or may be wrong for a known cause.     *)
Tells(f, v) == f.why # {} \/ Denotes(f.flow, v)
Fits(f, v) == f.flow = None \/ Tells(f, v)

(* A test whose outcome is known.                                          *)
LEMMA NarrowedTells ==
  ASSUME NEW t \in Tests, NEW v, IsValue(v), NEW outcome \in BOOLEAN, Holds(t, v) = outcome,
         NEW at, IsType(at.flow), Tells(at, v), NEW old, Fits(old, v)
  PROVE  Fits(Narrowed(t, outcome, at, old), v)
<1>1. PICK so : so = (t.neg # outcome)
  OBVIOUS
<1>2. PICK n : n = Narrowed(t, outcome, at, old)
  OBVIOUS
<1>3. t.neg \in BOOLEAN /\ t.op \in {"truthy", "null", "typeof", "instanceof"} /\ v \in Primitives
  BY DEF Tests, IsValue
<1>4. CASE t.op = "truthy"
  <2>1. so = ~IsFalsy(v)
    BY <1>1, <1>3, <1>4 DEF Holds, IsFalsy
  <2>2. CASE so
    <3>1. n = Known(RemoveFalsy(at.flow), at.why)
      BY <1>1, <1>2, <1>4, <2>2 DEF Narrowed
    <3>2. Denotes(at.flow, v) => Denotes(RemoveFalsy(at.flow), v)
      BY <2>1, <2>2, RemoveFalsyStands
    <3> QED
      BY <1>2, <3>1, <3>2 DEF Fits, Tells, Known
  <2>3. CASE ~so
    <3>1. n = Known(RemoveTruthy(at.flow), at.why \cup (IF Undecided(at.flow) THEN {"falsy"} ELSE {}))
      BY <1>1, <1>2, <1>4, <2>3 DEF Narrowed
    <3>2. Denotes(at.flow, v) /\ ~Undecided(at.flow) => Denotes(RemoveTruthy(at.flow), v)
      BY <2>1, <2>3, RemoveTruthyStands
    <3> QED
      BY <1>2, <3>1, <3>2 DEF Fits, Tells, Known
  <2> QED
    BY <2>2, <2>3
<1>5. CASE t.op = "null"
  <2>1. so = (v.kind = "null")
    BY <1>1, <1>3, <1>5 DEF Holds
  <2>2. CASE so
    <3>1. n = Known(NullType, {})
      BY <1>1, <1>2, <1>5, <2>2 DEF Narrowed
    <3>2. Denotes(NullType, v)
      BY <2>1, <2>2, AnyNullStand
    <3> QED
      BY <1>2, <3>1, <3>2 DEF Fits, Tells, Known
  <2>3. CASE ~so
    <3>1. n = Known(RemoveNull(at.flow), at.why)
      BY <1>1, <1>2, <1>5, <2>3 DEF Narrowed
    <3>2. Denotes(at.flow, v) => Denotes(RemoveNull(at.flow), v)
      BY <2>1, <2>3, RemoveNullStands
    <3> QED
      BY <1>2, <3>1, <3>2 DEF Fits, Tells, Known
  <2> QED
    BY <2>2, <2>3
<1>6. CASE t.op = "typeof"
  <2>1. so = (v.kind = t.arg) /\ t.arg # "any"
    BY <1>1, <1>3, <1>6 DEF Holds, Tests
  <2>2. CASE so
    <3>1. n = Known(One(Prim(t.arg, None)), {})
      BY <1>1, <1>2, <1>6, <2>2 DEF Narrowed
    <3>2. Stands(Prim(t.arg, None), v)
      BY <2>1, <2>2 DEF Stands, Prim
    <3> QED
      BY <1>2, <3>1, <3>2, OneStands DEF Fits, Tells, Known
  <2>3. CASE ~so
    <3>1. n = Known(RemoveTypeof(at.flow, t.arg), at.why)
      BY <1>1, <1>2, <1>6, <2>3 DEF Narrowed
    <3>2. Denotes(at.flow, v) => Denotes(RemoveTypeof(at.flow, t.arg), v)
      BY <2>1, <2>3, RemoveTypeofStands
    <3> QED
      BY <1>2, <3>1, <3>2 DEF Fits, Tells, Known
  <2> QED
    BY <2>2, <2>3
<1>7. CASE t.op = "instanceof"
  <2>1. so = (v.kind = "instance" /\ t.arg \in Supers[v.of])
    BY <1>1, <1>3, <1>7 DEF Holds
  <2>2. CASE so
    <3>1. n = Known(One(Prim("instance", t.arg)), {})
      BY <1>1, <1>2, <1>7, <2>2 DEF Narrowed
    <3>2. Stands(Prim("instance", t.arg), v)
      BY <2>1, <2>2 DEF Stands, Prim
    <3> QED
      BY <1>2, <3>1, <3>2, OneStands DEF Fits, Tells, Known
  <2>3. CASE ~so
    BY <1>1, <1>2, <1>7, <2>3 DEF Narrowed
  <2> QED
    BY <2>2, <2>3
<1> QED
  BY <1>3, <1>4, <1>5, <1>6, <1>7

(* A test takes no flow type away.                                         *)
LEMMA NarrowedSome ==
  ASSUME NEW t \in Tests, NEW outcome, NEW at, IsType(at.flow), NEW old,
         Narrowed(t, outcome, at, old).flow = None
  PROVE  old.flow = None
<1>1. PICK n : n = Narrowed(t, outcome, at, old)
  OBVIOUS
<1>2. ~IsType(n.flow)
  BY <1>1, FlowAssumption
<1>3. CASE t.op = "truthy"
  <2>1. n.flow \in {RemoveFalsy(at.flow), RemoveTruthy(at.flow)}
    BY <1>1, <1>3 DEF Narrowed, Known
  <2> QED
    BY <1>2, <2>1, RemoveFalsyIsType, RemoveTruthyIsType
<1>4. CASE t.op = "null"
  <2>1. n.flow \in {NullType, RemoveNull(at.flow)}
    BY <1>1, <1>4 DEF Narrowed, Known
  <2> QED
    BY <1>2, <2>1, AnyNullTypes, RemoveNullIsType
<1>5. CASE t.op = "typeof"
  <2>1. n.flow \in {One(Prim(t.arg, None)), RemoveTypeof(at.flow, t.arg)}
    BY <1>1, <1>5 DEF Narrowed, Known
  <2>2. t.arg \in Kinds
    BY <1>5 DEF Tests
  <2> QED
    BY <1>2, <2>1, <2>2, PrimIs, OneIsType, RemoveTypeofIsType
<1>6. CASE t.op = "instanceof"
  <2>1. n = old \/ n.flow = One(Prim("instance", t.arg))
    BY <1>1, <1>6 DEF Narrowed, Known
  <2>2. t.arg \in DataOf["instance"] /\ "instance" \in Kinds
    BY <1>6, TypesAssumption DEF Tests, Classes
  <2> QED
    BY <1>1, <1>2, <2>1, <2>2, PrimIs, OneIsType
<1> QED
  BY <1>3, <1>4, <1>5, <1>6 DEF Tests

(* A condition whose outcome is known.                                     *)
LEMMA GuardedTells ==
  ASSUME NEW c, IsCondition(c), NEW v, IsValue(v), NEW branch \in BOOLEAN, Satisfied(c, v) = branch,
         NEW at, IsType(at.flow), Tells(at, v), NEW here, Flowing(here.flow), Fits(here, v)
  PROVE  Fits(Guarded(c, branch, at, here), v)
<1>1. c.op \in {"test", "and", "or"} /\ c.parts \in Seq(Tests) /\ c.neg \in BOOLEAN
      /\ Len(c.parts) = IF c.op = "test" THEN 1 ELSE 2
  BY DEF IsCondition
<1>2. c.parts[1] \in Tests /\ (c.op # "test" => c.parts[2] \in Tests)
  BY <1>1
<1>3. PICK q : q = (c.neg # branch)
  OBVIOUS
<1>4. q \in BOOLEAN
  BY <1>3
<1>5. \A t \in Tests : Holds(t, v) \in BOOLEAN
  BY DEF Holds, Tests, IsFalsy
<1>6. Narrowing(c, branch) => Holds(c.parts[1], v) = q /\ (c.op # "test" => Holds(c.parts[2], v) = q)
  <2>1. PICK p1 : p1 = Holds(c.parts[1], v)
    OBVIOUS
  <2>2. PICK p2 : p2 = Holds(c.parts[2], v)
    OBVIOUS
  <2>3. p1 \in BOOLEAN /\ (c.op # "test" => p2 \in BOOLEAN)
    BY <1>2, <1>5, <2>1, <2>2
  <2>4. CASE c.op = "test"
    <3>1. Satisfied(c, v) = (c.neg # p1)
      BY <2>1, <2>4 DEF Satisfied
    <3> QED
      BY <1>1, <1>3, <2>1, <2>3, <2>4, <3>1
  <2>5. CASE c.op = "and"
    <3>1. Satisfied(c, v) = (c.neg # (p1 /\ p2))
      BY <2>1, <2>2, <2>5 DEF Satisfied
    <3>2. Narrowing(c, branch) => q
      BY <1>3, <1>4, <2>5 DEF Narrowing
    <3> QED
      BY <1>1, <1>3, <2>1, <2>2, <2>3, <2>5, <3>1, <3>2
  <2>6. CASE c.op = "or"
    <3>1. Satisfied(c, v) = (c.neg # (p1 \/ p2))
      BY <2>1, <2>2, <2>6 DEF Satisfied
    <3>2. Narrowing(c, branch) => ~q
      BY <1>3, <1>4, <2>6 DEF Narrowing
    <3> QED
      BY <1>1, <1>3, <2>1, <2>2, <2>3, <2>6, <3>1, <3>2
  <2> QED
    BY <1>1, <2>4, <2>5, <2>6
<1> DEFINE after(t, old) == Narrowed(t, q, IF old.flow = None THEN at ELSE old, old)
<1>7. ASSUME NEW t \in Tests, Holds(t, v) = q, NEW old, Flowing(old.flow), Fits(old, v)
      PROVE  Flowing(after(t, old).flow) /\ Fits(after(t, old), v)
  <2>1. PICK a : a = IF old.flow = None THEN at ELSE old
    OBVIOUS
  <2>2. IsType(a.flow) /\ Tells(a, v)
    BY <1>7, <2>1 DEF Flowing, Fits
  <2>3. Flowing(Narrowed(t, q, a, old).flow)
    BY <1>7, <2>2, NarrowedIsType
  <2>4. Fits(Narrowed(t, q, a, old), v)
    BY <1>4, <1>7, <2>2, NarrowedTells
  <2> QED
    BY <2>1, <2>3, <2>4
<1>8. PICK first : first = after(c.parts[1], here)
  OBVIOUS
<1>9. Guarded(c, branch, at, here) =
        IF ~Narrowing(c, branch) THEN here
        ELSE IF c.op = "test" THEN first ELSE after(c.parts[2], first)
  BY <1>3, <1>8 DEF Guarded
<1> HIDE DEF after
<1>10. Narrowing(c, branch) => Flowing(first.flow) /\ Fits(first, v)
  BY <1>2, <1>6, <1>7, <1>8
<1>11. Narrowing(c, branch) /\ c.op # "test" => Fits(after(c.parts[2], first), v)
  BY <1>2, <1>6, <1>7, <1>10
<1> QED
  BY <1>9, <1>10, <1>11

(* Nor does a condition take a flow type away.                             *)
LEMMA GuardedSome ==
  ASSUME NEW c, IsCondition(c), NEW branch, NEW at, IsType(at.flow), NEW here, Flowing(here.flow),
         Guarded(c, branch, at, here).flow = None
  PROVE  here.flow = None
<1>1. c.op \in {"test", "and", "or"} /\ c.parts \in Seq(Tests)
      /\ Len(c.parts) = IF c.op = "test" THEN 1 ELSE 2
  BY DEF IsCondition
<1>2. c.parts[1] \in Tests /\ (c.op # "test" => c.parts[2] \in Tests)
  BY <1>1
<1> DEFINE after(t, old) == Narrowed(t, c.neg # branch, IF old.flow = None THEN at ELSE old, old)
<1>3. ASSUME NEW t \in Tests, NEW old, Flowing(old.flow)
      PROVE  Flowing(after(t, old).flow) /\ (after(t, old).flow = None => old.flow = None)
  <2>1. PICK a : a = IF old.flow = None THEN at ELSE old
    OBVIOUS
  <2>2. IsType(a.flow)
    BY <1>3, <2>1 DEF Flowing
  <2> QED
    BY <1>3, <2>1, <2>2, NarrowedIsType, NarrowedSome
<1>4. PICK first : first = after(c.parts[1], here)
  OBVIOUS
<1>5. Guarded(c, branch, at, here) =
        IF ~Narrowing(c, branch) THEN here
        ELSE IF c.op = "test" THEN first ELSE after(c.parts[2], first)
  BY <1>4 DEF Guarded
<1> HIDE DEF after
<1>6. Flowing(first.flow) /\ (first.flow = None => here.flow = None)
  BY <1>2, <1>3, <1>4
<1>7. c.op # "test" => (after(c.parts[2], first).flow = None => first.flow = None)
  BY <1>2, <1>3, <1>6
<1> QED
  BY <1>5, <1>6, <1>7

-----------------------------------------------------------------------------
(* The frames and the value: which flow types tell it.                     *)

(* One of the frames above the i-th was assigned in.                       *)
WroteIn(s, i) == \E k \in (i + 1)..Len(s) : s[k].wrote

(* The flow types of the first n frames tell v, or are not looked at.      *)
Good(s, n, v) == \A i \in 1..n : Fits(s[i], v) \/ WroteIn(s, i)

(* A frame that was assigned in and has no flow type: an assignment in it  *)
(* was left, and the flow types around it are known to be old.             *)
Shadowed(s) ==
  \A k \in 1..Len(s) : s[k].wrote /\ s[k].flow = None =>
    \A i \in 1..(k - 1) : s[i].flow = None \/ s[i].why # {}

(* Steps and conditions that assign are written down when they are         *)
(* collected, at the start of the loop.                                    *)
Assigns(s) ==
  \A k \in 1..Len(s) :
    /\ s[k].step # None => s[k].kind = "for" /\ s[k].wrote
    /\ s[k].kind = "for" /\ s[k].cond.sets # None => s[k].wrote
    /\ s[k].kind = "while" /\ s[k].cond.sets # None => k > 1 /\ s[k - 1].wrote

(* The run came to the first j statements.                                 *)
Came(s, j) == j \in 1..Len(s) /\ \A k \in 1..Len(s) : s[k].entered <=> k <= j

(* The symbol was assigned in a scope that is open.                        *)
Wrote(s) == \E k \in 1..Len(s) : s[k].wrote

(* A walk that doubts its type where it was documented and the symbol was  *)
(* assigned, and whose type may be any if it is inferred.                  *)
Minds(w) ==
  /\ Knows(w) /\ "doubts" \in DOMAIN w
  /\ IF explicit THEN Wrote(w.scopes) => w.doubts # {} ELSE "any" \in w.typ.flags

(* The symbol may hold v: its type tells it, where no scope has another.   *)
Suits(w, v) == IsValue(v) /\ Tells(Known(w.typ, w.doubts), v)

(* A type that is doubted, or may be any, tells every value.               *)
LEMMA MindsSuit ==
  ASSUME explicit \in BOOLEAN, NEW w, Minds(w), explicit => w.doubts # {}, NEW v, IsValue(v)
  PROVE  Suits(w, v)
<1>1. CASE explicit
  BY <1>1 DEF Suits, Tells, Known
<1>2. CASE ~explicit
  <2>1. Denotes(w.typ, v)
    BY <1>2, AnyStands DEF Minds, Knows
  <2> QED
    BY <2>1 DEF Suits, Tells, Known
<1> QED
  BY <1>1, <1>2

(* What of a frame stays as it is.                                         *)
Static == {"kind", "cond", "step", "entered", "held"}

(* x is s but for the contents of the innermost frame.                     *)
OnTop(s, x) ==
  /\ Len(x) = Len(s) /\ Len(s) \in Nat /\ Len(s) > 0
  /\ \A i \in 1..Len(s) - 1 : x[i] = s[i]
  /\ \A f \in Static : x[Len(s)][f] = s[Len(s)][f]
  /\ s[Len(s)].wrote => x[Len(s)].wrote
  /\ x[Len(s)].flow = None => s[Len(s)].flow = None /\ (x[Len(s)].wrote => s[Len(s)].wrote)

(* A frame in place of the innermost one.                                  *)
LEMMA TopSet ==
  ASSUME NEW s, Typed(s), Len(s) > 0, NEW n, n = Len(s), NEW e,
         \A f \in Static : e[f] = s[n][f],
         s[n].wrote => e.wrote,
         e.flow = None => s[n].flow = None /\ (e.wrote => s[n].wrote),
         NEW x, x = [s EXCEPT ![n] = e]
  PROVE  OnTop(s, x) /\ x[n] = e
<1>1. Len(s) \in Nat /\ DOMAIN s = 1..Len(s) /\ n \in 1..Len(s)
  BY TypedLen
<1>2. PICK S : s \in Seq(S)
  BY DEF Typed
<1>3. s \in Seq(S \cup {e}) /\ e \in S \cup {e}
  BY <1>2, SeqMonotonic
<1>4. Len(x) = Len(s)
  BY <1>1, <1>3, ExceptSeq
<1>5. x[n] = e /\ \A i \in 1..Len(s) - 1 : x[i] = s[i]
  BY <1>1
<1> QED
  BY <1>1, <1>4, <1>5 DEF OnTop

(* One change of the innermost frame after another.                        *)
LEMMA OnTopTwice ==
  ASSUME NEW r, NEW s, NEW x, OnTop(r, s), OnTop(s, x)
  PROVE  OnTop(r, x)
BY DEF OnTop

(* It adds no assignment but in that frame.                                *)
LEMMA OnTopWrote ==
  ASSUME NEW s, NEW x, OnTop(s, x), NEW n, n = Len(s)
  PROVE  /\ Wrote(x) => Wrote(s) \/ x[n].wrote
         /\ Wrote(s) => Wrote(x)
<1>1. Len(x) = n /\ n \in Nat /\ n > 0 /\ (s[n].wrote => x[n].wrote)
      /\ \A i \in 1..n - 1 : x[i] = s[i]
  BY DEF OnTop
<1>2. \A i \in 1..n : i = n \/ i \in 1..n - 1
  BY <1>1
<1> QED
  BY <1>1, <1>2 DEF Wrote

(* It leaves what relates the frames.                                      *)
LEMMA OnTopKeeps ==
  ASSUME NEW s, NEW x, OnTop(s, x)
  PROVE  /\ Shadowed(s) => Shadowed(x)
         /\ Assigns(s) => Assigns(x)
         /\ \A j : Came(s, j) => Came(x, j)
         /\ \A i \in 1..Len(s) : WroteIn(s, i) => WroteIn(x, i)
<1>1. PICK n : n = Len(s)
  OBVIOUS
<1>2. /\ Len(x) = n /\ n \in Nat /\ n > 0
      /\ \A i \in 1..n - 1 : x[i] = s[i]
      /\ x[n].kind = s[n].kind /\ x[n].cond = s[n].cond /\ x[n].step = s[n].step
      /\ x[n].entered = s[n].entered
      /\ s[n].wrote => x[n].wrote
      /\ x[n].flow = None => s[n].flow = None /\ (x[n].wrote => s[n].wrote)
  BY <1>1 DEF OnTop, Static
<1>3. \A i \in 1..n : i = n \/ i \in 1..n - 1
  BY <1>2
<1>4. \A i \in 1..n : /\ x[i].kind = s[i].kind /\ x[i].cond = s[i].cond /\ x[i].step = s[i].step
                      /\ x[i].entered = s[i].entered
                      /\ s[i].wrote => x[i].wrote
                      /\ x[i].flow = None => s[i].flow = None /\ (x[i].wrote => s[i].wrote)
  BY <1>2, <1>3
<1>5. ASSUME Shadowed(s) PROVE Shadowed(x)
  <2> SUFFICES ASSUME NEW k \in 1..n, x[k].wrote, x[k].flow = None, NEW i \in 1..(k - 1)
               PROVE  x[i].flow = None \/ x[i].why # {}
    BY <1>2 DEF Shadowed
  <2>1. s[k].wrote /\ s[k].flow = None
    BY <1>4
  <2>2. s[i].flow = None \/ s[i].why # {}
    BY <1>1, <1>5, <2>1 DEF Shadowed
  <2>3. i \in 1..n - 1
    BY <1>2
  <2> QED
    BY <1>2, <2>2, <2>3
<1>6. ASSUME Assigns(s) PROVE Assigns(x)
  <2> SUFFICES ASSUME NEW k \in 1..n
               PROVE  /\ x[k].step # None => x[k].kind = "for" /\ x[k].wrote
                      /\ x[k].kind = "for" /\ x[k].cond.sets # None => x[k].wrote
                      /\ x[k].kind = "while" /\ x[k].cond.sets # None => k > 1 /\ x[k - 1].wrote
    BY <1>2 DEF Assigns
  <2>1. /\ s[k].step # None => s[k].kind = "for" /\ s[k].wrote
        /\ s[k].kind = "for" /\ s[k].cond.sets # None => s[k].wrote
        /\ s[k].kind = "while" /\ s[k].cond.sets # None => k > 1 /\ s[k - 1].wrote
    BY <1>1, <1>6 DEF Assigns
  <2>2. k > 1 => k - 1 \in 1..n
    BY <1>2
  <2> QED
    BY <1>4, <2>1, <2>2
<1>7. \A j : Came(s, j) => Came(x, j)
  BY <1>1, <1>2, <1>4 DEF Came
<1>8. \A i \in 1..n : WroteIn(s, i) => WroteIn(x, i)
  <2> SUFFICES ASSUME NEW i \in 1..n, NEW k \in (i + 1)..n, s[k].wrote PROVE x[k].wrote
    BY <1>1, <1>2 DEF WroteIn
  <2>1. k \in 1..n
    BY <1>2
  <2> QED
    BY <1>4, <2>1
<1> QED
  BY <1>1, <1>5, <1>6, <1>7, <1>8

(* Flow types below the innermost frame.                                   *)
LEMMA GoodBelow ==
  ASSUME NEW s, NEW x, OnTop(s, x), NEW v, NEW m \in Int, m < Len(s), Good(s, m, v)
  PROVE  Good(x, m, v)
<1>1. Len(s) \in Nat /\ \A i \in 1..Len(s) - 1 : x[i] = s[i]
  BY DEF OnTop
<1> SUFFICES ASSUME NEW i \in 1..m PROVE Fits(x[i], v) \/ WroteIn(x, i)
  BY DEF Good
<1>2. i \in 1..Len(s) - 1 /\ i \in 1..Len(s) /\ x[i] = s[i]
  BY <1>1
<1> QED
  BY <1>2, OnTopKeeps DEF Good

(* Flow types around a frame whose own one tells a value.                  *)
LEMMA GoodOnTop ==
  ASSUME NEW s, NEW x, OnTop(s, x), NEW n, n = Len(s), NEW v, Fits(x[n], v),
         Good(s, n - 1, v) \/ x[n].wrote
  PROVE  Good(x, n, v)
<1>1. Len(x) = n /\ n \in Nat /\ n > 0 /\ \A i \in 1..n - 1 : x[i] = s[i]
  BY DEF OnTop
<1> SUFFICES ASSUME NEW i \in 1..n PROVE Fits(x[i], v) \/ WroteIn(x, i)
  BY DEF Good
<1>2. CASE i = n
  BY <1>2
<1>3. CASE i # n
  <2>1. i \in 1..n - 1 /\ x[i] = s[i] /\ n \in (i + 1)..n
    BY <1>1, <1>3
  <2>2. CASE x[n].wrote
    BY <1>1, <2>1, <2>2 DEF WroteIn
  <2>3. CASE Good(s, n - 1, v)
    BY <2>1, <2>3, OnTopKeeps DEF Good
  <2> QED
    BY <2>2, <2>3
<1> QED
  BY <1>2, <1>3

(* The flow types of fewer frames.                                         *)
LEMMA GoodFewer ==
  ASSUME NEW s, NEW v, NEW n \in Int, NEW m \in Int, m <= n, Good(s, n, v)
  PROVE  Good(s, m, v)
<1>1. \A i \in 1..m : i \in 1..n
  OBVIOUS
<1> QED
  BY <1>1 DEF Good

(* symbol_type_at.                                                         *)
LEMMA TypeInTells ==
  ASSUME explicit \in BOOLEAN, NEW w, Minds(w), NEW v, Suits(w, v),
         Good(w.scopes, Len(w.scopes), v), Shadowed(w.scopes)
  PROVE  Tells(TypeIn(w), v)
<1>1. PICK I : I = {i \in DOMAIN w.scopes : w.scopes[i].flow # None}
  OBVIOUS
<1>2. PICK s : s = w.scopes
  OBVIOUS
<1>3. Len(s) \in Nat /\ DOMAIN s = 1..Len(s)
  BY <1>2, TypedLen DEF Minds, Knows
<1>4. CASE I = {}
  <2>1. TypeIn(w) = Known(w.typ, w.doubts)
    BY <1>1, <1>4 DEF TypeIn
  <2> QED
    BY <2>1 DEF Suits
<1>5. CASE I # {}
  <2>1. PICK k : k = CHOOSE i \in I : \A j \in I : j <= i
    OBVIOUS
  <2>2. \E i \in I : \A j \in I : j <= i
    BY <1>1, <1>2, <1>3, <1>5, Greatest
  <2>3. k \in I /\ \A j \in I : j <= k
    BY <2>1, <2>2
  <2>4. TypeIn(w) = Known(s[k].flow, s[k].why)
    BY <1>1, <1>2, <1>5, <2>1 DEF TypeIn
  <2>5. k \in 1..Len(s) /\ s[k].flow # None
    BY <1>1, <1>2, <1>3, <2>3
  <2>6. CASE WroteIn(s, k)
    <3>1. PICK m \in (k + 1)..Len(s) : s[m].wrote
      BY <2>6 DEF WroteIn
    <3>2. m \in 1..Len(s) /\ k \in 1..(m - 1) /\ ~(m <= k)
      BY <1>3, <2>5, <3>1
    <3>3. s[m].flow = None
      BY <1>1, <1>2, <1>3, <2>3, <3>2
    <3>4. s[k].why # {}
      BY <1>2, <2>5, <3>1, <3>2, <3>3 DEF Shadowed
    <3> QED
      BY <2>4, <3>4 DEF Known, Tells
  <2>7. CASE Fits(s[k], v)
    BY <2>4, <2>5, <2>7 DEF Fits, Known, Tells
  <2> QED
    BY <1>2, <2>5, <2>6, <2>7 DEF Good
<1> QED
  BY <1>4, <1>5

(* The type stays what Minds says.                                         *)
LEMMA UpdateMinds ==
  ASSUME ~explicit, NEW w, Minds(w), NEW t, IsType(t)
  PROVE  "any" \in UpdateType(w.typ, explicit, t).flags
<1>1. "any" \in w.typ.flags /\ IsType(w.typ)
  BY DEF Minds, Knows
<1>2. w.typ.flags # {"null"}
  BY <1>1
<1>3. UpdateType(w.typ, explicit, t) \in {AddAny(t), MergeTypes(w.typ, t)}
  BY <1>2 DEF UpdateType
<1>4. AddAny(t).flags = t.flags \cup AnyType.flags
  BY MergeFlags, AnyNullTypes DEF AddAny
<1>5. "any" \in AnyType.flags
  BY DEF AnyType, One, Prim
<1>6. MergeTypes(w.typ, t).flags = w.typ.flags \cup t.flags
  BY <1>1, MergeFlags
<1> QED
  BY <1>1, <1>3, <1>4, <1>5, <1>6

(* Why a refined documented type may be wrong.                             *)
LEMMA UnfitIs ==
  ASSUME explicit, NEW t, NEW v, Mixed(t) \/ ~Denotes(documented, v)
  PROVE  Unfit(t, v) # {}
BY DEF Unfit, Mixed

(* update_type: what a type becomes that is right for what is assigned, or *)
(* one of the causes is known.                                             *)
LEMMA RefiningTells ==
  ASSUME explicit \in BOOLEAN, NEW w, Minds(w), NEW t, IsType(t), NEW v \in Outcomes(t),
         NEW new, new = UpdateType(w.typ, explicit, t)
  PROVE  Denotes(new, v) \/ Refining(w, t, v) # {}
<1>1. Denotes(t, v) /\ IsValue(v)
  BY ValuesAre DEF Outcomes
<1>2. CASE explicit /\ w.typ # documented
  BY <1>2 DEF Refining
<1>3. CASE explicit /\ (Mixed(t) \/ ~Denotes(documented, v))
  BY <1>3, UnfitIs DEF Refining
<1>4. CASE explicit /\ w.typ = documented /\ ~Mixed(t) /\ Denotes(documented, v)
  <2>1. IsType(w.typ)
    BY DEF Minds, Knows
  <2>2. new = CheckType(w.typ, t)
    BY <1>4 DEF UpdateType
  <2> QED
    BY <1>1, <1>4, <2>1, <2>2, CheckStands
<1>5. CASE ~explicit
  <2>1. IsType(new)
    BY UpdateIsType DEF Minds, Knows
  <2>2. "any" \in new.flags
    BY <1>5, UpdateMinds
  <2> QED
    BY <2>1, <2>2, AnyStands
<1> QED
  BY <1>2, <1>3, <1>4, <1>5

(* assign_operator.                                                        *)
LEMMA AssignOn ==
  ASSUME explicit \in BOOLEAN, NEW w, Minds(w), NEW t, IsType(t), NEW v,
         NEW x, x = AssignOperator(w, t, v), NEW n, n = Len(w.scopes)
  PROVE  /\ Minds(x) /\ OnTop(w.scopes, x.scopes) /\ x.scopes[n].wrote
         /\ v \in Outcomes(t) => Fits(x.scopes[n], v)
         /\ \A z : IsValue(z) => Suits(x, z)
<1>1. PICK new : new = UpdateType(w.typ, explicit, t)
  OBVIOUS
<1>2. PICK s : s = w.scopes
  OBVIOUS
<1>3. Typed(s) /\ Len(s) > 0 /\ Knows(w)
  BY <1>2 DEF Minds, Knows
<1>4. IsType(new) /\ Knows(x) /\ new # None
  BY <1>1, <1>3, UpdateIsType, AssignKnows, FlowAssumption DEF Knows
<1>5. PICK top : top = s[n]
  OBVIOUS
<1>6. PICK e : e = [top EXCEPT !.flow = new, !.wrote = TRUE, !.why = Refining(w, t, v)]
  OBVIOUS
<1>7. DOMAIN top = Fields
  BY <1>2, <1>3, <1>5, TopSound DEF Sound
<1>8. /\ e.flow = new /\ e.wrote = TRUE /\ e.why = Refining(w, t, v)
      /\ \A f \in Static : e[f] = top[f]
  BY <1>6, <1>7 DEF Fields, Static
<1>9. /\ x.typ = new /\ x.scopes = [s EXCEPT ![n] = e]
      /\ "doubts" \in DOMAIN x /\ x.doubts = IF explicit THEN {"pinned"} ELSE {}
  BY <1>1, <1>2, <1>5, <1>6 DEF AssignOperator
<1>10. OnTop(s, x.scopes) /\ x.scopes[n] = e
  BY <1>2, <1>3, <1>4, <1>5, <1>8, <1>9, TopSet
<1>11. Minds(x)
  <2>1. ~explicit => "any" \in x.typ.flags
    BY <1>1, <1>9, UpdateMinds
  <2>2. explicit => x.doubts # {}
    BY <1>9
  <2> QED
    BY <1>4, <1>9, <2>1, <2>2 DEF Minds
<1>12. ASSUME v \in Outcomes(t) PROVE Fits(e, v)
  <2>1. Denotes(new, v) \/ Refining(w, t, v) # {}
    BY <1>1, <1>12, RefiningTells
  <2> QED
    BY <1>8, <2>1 DEF Fits, Tells
<1>13. explicit => x.doubts # {}
  BY <1>9
<1>14. \A z : IsValue(z) => Suits(x, z)
  BY <1>11, <1>13, MindsSuit
<1> QED
  BY <1>2, <1>8, <1>10, <1>11, <1>12, <1>14

(* A condition that is collected, and evaluated by the run.                *)
LEMMA CollectedOn ==
  ASSUME explicit \in BOOLEAN, NEW w, Minds(w), NEW c, IsCondition(c), NEW u,
         NEW x, x = Collected(w, c, u), NEW n, n = Len(w.scopes)
  PROVE  /\ Minds(x) /\ OnTop(w.scopes, x.scopes)
         /\ IF c.sets = None THEN x = w ELSE x.scopes[n].wrote
         /\ \A v : Suits(w, v) => Suits(x, v)
         /\ \A v : Suits(w, v) /\ Good(w.scopes, n, v) /\ u \in After(c.sets, {v})
              => Suits(x, u) /\ Good(x.scopes, n, u)
<1>1. CASE c.sets = None
  <2>1. x = w
    BY <1>1 DEF Collected
  <2>2. OnTop(w.scopes, w.scopes)
    BY TypedLen DEF OnTop, Minds, Knows
  <2>3. \A v : u \in After(c.sets, {v}) => u = v
    BY <1>1 DEF After
  <2> QED
    BY <1>1, <2>1, <2>2, <2>3
<1>2. CASE c.sets # None
  <2>1. IsType(c.sets) /\ x = AssignOperator(w, c.sets, u)
    BY <1>2 DEF IsCondition, Collected
  <2>2. /\ Minds(x) /\ OnTop(w.scopes, x.scopes) /\ x.scopes[n].wrote
        /\ u \in Outcomes(c.sets) => Fits(x.scopes[n], u)
        /\ \A z : IsValue(z) => Suits(x, z)
    BY <2>1, AssignOn
  <2>3. u \in Outcomes(c.sets) => Good(x.scopes, n, u) /\ Suits(x, u)
    BY <2>2, ValuesAre, GoodOnTop DEF Outcomes
  <2>4. \A v : After(c.sets, {v}) = Outcomes(c.sets)
    BY <1>2 DEF After
  <2>5. \A v : Suits(w, v) => Suits(x, v)
    BY <2>2 DEF Suits
  <2> QED
    BY <1>2, <2>2, <2>3, <2>4, <2>5
<1> QED
  BY <1>1, <1>2

(* A condition that narrows the innermost scope.                           *)
LEMMA NarrowOn ==
  ASSUME explicit \in BOOLEAN, NEW w, Minds(w), NEW c, IsCondition(c), NEW x, x = NarrowTop(w, c),
         NEW n, n = Len(w.scopes)
  PROVE  /\ Minds(x) /\ OnTop(w.scopes, x.scopes) /\ x.scopes[n].wrote = w.scopes[n].wrote
         /\ \A v : Suits(w, v) => Suits(x, v)
         /\ \A v : Suits(w, v) /\ Good(w.scopes, n, v) /\ Shadowed(w.scopes) /\ Satisfied(c, v)
              => Good(x.scopes, n, v)
<1>1. PICK s : s = w.scopes
  OBVIOUS
<1>2. Typed(s) /\ Len(s) > 0 /\ Knows(w) /\ Len(s) \in Nat
  BY <1>1, TypedLen DEF Minds, Knows
<1>3. PICK top : top = s[n]
  OBVIOUS
<1>4. Sound(top)
  BY <1>1, <1>2, <1>3, TopSound
<1>5. PICK here : here = Known(top.flow, top.why)
  OBVIOUS
<1>6. here.flow = top.flow /\ here.why = top.why /\ Flowing(here.flow)
  BY <1>4, <1>5 DEF Known, Sound
<1>7. PICK at : at = TypeIn(w)
  OBVIOUS
<1>8. IsType(at.flow)
  BY <1>2, <1>7, TypeInIsType
<1>9. PICK f : f = Guarded(c, TRUE, at, here)
  OBVIOUS
<1>10. f.flow = None => here.flow = None
  BY <1>6, <1>8, <1>9, GuardedSome
<1>11. PICK e : e = [top EXCEPT !.flow = f.flow, !.why = f.why]
  OBVIOUS
<1>12. /\ e.flow = f.flow /\ e.wrote = top.wrote /\ e.why = f.why
       /\ \A q \in Static : e[q] = top[q]
  BY <1>4, <1>11 DEF Sound, Fields, Static
<1>13. /\ "doubts" \in DOMAIN x /\ x.typ = w.typ /\ x.doubts = w.doubts
       /\ x.scopes = [s EXCEPT ![n] = e]
  BY <1>1, <1>2, <1>3, <1>5, <1>7, <1>9, <1>11 DEF NarrowTop, Minds, Knows
<1>14. OnTop(s, x.scopes) /\ x.scopes[n] = e
  BY <1>1, <1>2, <1>3, <1>6, <1>10, <1>12, <1>13, TopSet
<1>15. Minds(x)
  <2>1. Wrote(x.scopes) => Wrote(s)
    <3>1. n \in 1..Len(s) /\ (x.scopes[n].wrote => s[n].wrote)
      BY <1>1, <1>2, <1>3, <1>12, <1>14
    <3> QED
      BY <1>1, <1>14, <3>1, OnTopWrote DEF Wrote
  <2> QED
    BY <1>1, <1>2, <1>13, <2>1, NarrowKnows DEF Minds
<1>16. \A v : Suits(w, v) => Suits(x, v)
  BY <1>13 DEF Suits
<1>17. ASSUME NEW v, Suits(w, v), Good(s, n, v), Shadowed(s), Satisfied(c, v)
       PROVE  Good(x.scopes, n, v)
  <2>1. Tells(at, v)
    BY <1>1, <1>7, <1>17, TypeInTells
  <2>2. Fits(s[n], v)
    <3>1. ~WroteIn(s, n)
      BY <1>1, <1>2 DEF WroteIn
    <3>2. n \in 1..n
      BY <1>1, <1>2
    <3> QED
      BY <1>17, <3>1, <3>2 DEF Good
  <2>3. Fits(here, v)
    BY <1>3, <1>6, <2>2 DEF Fits, Tells
  <2>4. Fits(f, v)
    BY <1>6, <1>8, <1>9, <1>17, <2>1, <2>3, GuardedTells DEF Suits
  <2>5. Fits(e, v)
    BY <1>12, <2>4 DEF Fits, Tells
  <2> QED
    BY <1>1, <1>2, <1>14, <1>17, <2>5, GoodFewer, GoodOnTop
<1> QED
  BY <1>1, <1>3, <1>12, <1>14, <1>15, <1>17, <1>16

(* The step of a for loop.                                                 *)
LEMMA SteppedOn ==
  ASSUME explicit \in BOOLEAN, NEW w, Minds(w), NEW t, Flowing(t), NEW v,
         NEW x, x = Stepped(w, t, v), NEW n, n = Len(w.scopes)
  PROVE  /\ Minds(x) /\ OnTop(w.scopes, x.scopes) /\ (t # None => x.scopes[n].wrote)
         /\ \A z : Suits(w, z) => Suits(x, z)
         /\ \A z : Good(w.scopes, n, z) => Good(x.scopes, n, z)
<1>1. CASE t = None
  <2>1. x = w
    BY <1>1 DEF Stepped
  <2>2. OnTop(w.scopes, w.scopes)
    BY TypedLen DEF OnTop, Minds, Knows
  <2> QED
    BY <1>1, <2>1, <2>2
<1>2. CASE t # None
  <2>1. PICK a : a = AssignOperator(w, t, v)
    OBVIOUS
  <2>2. /\ Minds(a) /\ OnTop(w.scopes, a.scopes) /\ a.scopes[n].wrote
        /\ \A z : IsValue(z) => Suits(a, z)
    BY <1>2, <2>1, AssignOn DEF Flowing
  <2>3. Len(a.scopes) = n /\ Typed(a.scopes) /\ n > 0 /\ Knows(a)
    BY <2>2 DEF OnTop, Minds, Knows
  <2>4. PICK top : top = a.scopes[n]
    OBVIOUS
  <2>5. PICK e : e = [top EXCEPT !.why = @ \cup {"round"}]
    OBVIOUS
  <2>6. DOMAIN top = Fields
    BY <2>3, <2>4, TopSound DEF Sound
  <2>7. /\ e.flow = top.flow /\ e.wrote = top.wrote /\ e.why # {}
        /\ \A f \in Static : e[f] = top[f]
    BY <2>5, <2>6 DEF Fields, Static
  <2>8. x = [a EXCEPT !.scopes[n].why = @ \cup {"round"}]
    BY <1>2, <2>1, <2>3 DEF Stepped
  <2>9. /\ "doubts" \in DOMAIN x /\ x.typ = a.typ /\ x.doubts = a.doubts
        /\ x.scopes = [a.scopes EXCEPT ![n] = e]
    BY <2>2, <2>4, <2>5, <2>8 DEF Minds, Knows
  <2>10. OnTop(a.scopes, x.scopes) /\ x.scopes[n] = e
    <3>1. PICK s : s = a.scopes
      OBVIOUS
    <3>2. Typed(s) /\ Len(s) = n /\ n > 0 /\ top = s[n] /\ x.scopes = [s EXCEPT ![n] = e]
      BY <2>3, <2>4, <2>9, <3>1
    <3> QED
      BY <2>7, <3>1, <3>2, TopSet
  <2>11. Minds(x)
    <3>1. n \in 1..Len(a.scopes) /\ Wrote(a.scopes)
      BY <2>2, <2>3, TypedLen DEF Wrote
    <3> QED
      BY <2>2, <2>9, <3>1, SteppedKnows DEF Minds
  <2>12. \A z : Suits(w, z) => Suits(x, z)
    BY <2>2, <2>9 DEF Suits
  <2>13. \A z : Fits(x.scopes[n], z) /\ x.scopes[n].wrote
    BY <2>2, <2>4, <2>7, <2>10 DEF Fits, Tells
  <2>14. OnTop(w.scopes, x.scopes)
    BY <2>2, <2>10, OnTopTwice
  <2> QED
    BY <2>11, <2>13, <2>14, <2>12, GoodOnTop
<1> QED
  BY <1>1, <1>2

(* The condition c of a do loop makes x of w: it only adds a doubt, where  *)
(* the run may not have come to it.                                        *)
Doubting(w, x, c, n) ==
  /\ Minds(x) /\ OnTop(w.scopes, x.scopes)
  /\ \A v : Suits(w, v) => Suits(x, v)
  /\ \A v : Fits(w.scopes[n], v) => Fits(x.scopes[n], v)
  /\ ~Rounds /\ c.sets # None => \A v : Fits(x.scopes[n], v)

(* The condition of a do loop that the run may not have come to.           *)
LEMMA SkippedOn ==
  ASSUME NEW w, Minds(w), NEW c, NEW x, x = Skipped(w, c), NEW n, n = Len(w.scopes)
  PROVE  Doubting(w, x, c, n)
<1>1. PICK top : top = w.scopes[n]
  OBVIOUS
<1>2. PICK e : e = [top EXCEPT !.why = IF Rounds \/ c.sets = None THEN @ ELSE @ \cup {"skipped"}]
  OBVIOUS
<1>3. Knows(w) /\ Typed(w.scopes) /\ Len(w.scopes) > 0
  BY DEF Minds, Knows
<1>4. DOMAIN top = Fields
  BY <1>1, <1>3, TopSound DEF Sound
<1>5. /\ e.flow = top.flow /\ e.wrote = top.wrote
      /\ e.why = top.why \/ e.why # {}
      /\ ~Rounds /\ c.sets # None => e.why # {}
      /\ \A f \in Static : e[f] = top[f]
  BY <1>2, <1>4 DEF Fields, Static
<1>6. x = [w EXCEPT !.scopes[n].why = IF Rounds \/ c.sets = None THEN @ ELSE @ \cup {"skipped"}]
  BY DEF Skipped
<1>7. /\ "doubts" \in DOMAIN x /\ x.typ = w.typ /\ x.doubts = w.doubts
      /\ x.scopes = [w.scopes EXCEPT ![n] = e]
  BY <1>1, <1>2, <1>3, <1>6 DEF Minds, Knows
<1>8. OnTop(w.scopes, x.scopes) /\ x.scopes[n] = e
  BY <1>1, <1>3, <1>5, <1>7, TopSet
<1>9. Minds(x)
  <2>1. Wrote(x.scopes) => Wrote(w.scopes)
    <3>1. n \in 1..Len(w.scopes) /\ (x.scopes[n].wrote => w.scopes[n].wrote)
      BY <1>1, <1>3, <1>5, <1>8, TypedLen
    <3> QED
      BY <1>8, <3>1, OnTopWrote DEF Wrote
  <2> QED
    BY <1>3, <1>7, <2>1, SkippedKnows DEF Minds
<1>10. \A v : Suits(w, v) => Suits(x, v)
  BY <1>7 DEF Suits
<1>11. \A v : Fits(w.scopes[n], v) => Fits(x.scopes[n], v)
  BY <1>1, <1>5, <1>8 DEF Fits, Tells
<1>12. ~Rounds /\ c.sets # None => \A v : Fits(x.scopes[n], v)
  BY <1>5, <1>8 DEF Fits, Tells
<1> QED
  BY <1>8, <1>9, <1>10, <1>11, <1>12 DEF Doubting

-----------------------------------------------------------------------------
(* The walk and the run: how far the run has come, and what the frames that *)
(* it reached tell of the value.                                           *)

(* How many flow types tell the value when the run is at the j-th          *)
(* statement: not the one that a branch starts with that it did not come   *)
(* into, nor what the condition of a while left around it.                 *)
Told(s, j, r) ==
  IF r = "here" THEN j ELSE IF r = "past" /\ s[j].kind = "while" THEN j - 2 ELSE j - 1

(* The run is at the j-th statement, and the symbol holds v.               *)
Reached(s, j, r, v) ==
  /\ Came(s, j) /\ (r = "here" => j = Len(s))
  /\ r = "past" /\ s[j].kind = "then" => ~Satisfied(s[j].cond, v)
  /\ Good(s, Told(s, j, r), v)

Settled == IF explicit THEN Wrote(scopes) => doubts # {} ELSE "any" \in typ.flags

TrueInv ==
  /\ Settled /\ Suits(Walk, value) /\ Shadowed(scopes) /\ Assigns(scopes)
  /\ \E j : Reached(scopes, j, run, value)

(* The walk minds what the state does.                                     *)
LEMMA WalkMinds ==
  ASSUME TInv, TrueInv
  PROVE  Minds(Walk) /\ Walk.scopes = scopes /\ explicit \in BOOLEAN
         /\ Len(scopes) \in Nat /\ Len(scopes) > 0 /\ Typed(scopes)
<1>1. Walk.typ = typ /\ Walk.scopes = scopes /\ Walk.doubts = doubts /\ "doubts" \in DOMAIN Walk
  BY DEF Walk
<1>2. Minds(Walk)
  BY <1>1, WalkKnows DEF Minds, TrueInv, Settled
<1> QED
  BY <1>1, <1>2, TypedLen DEF TInv

(* A step that keeps what a walk found.                                    *)
LEMMA TrueNext ==
  ASSUME NEW w, Minds(w), Keep(w), UNCHANGED <<explicit, documented>>,
         Shadowed(w.scopes), Assigns(w.scopes), NEW v, v = value', Suits(w, v),
         NEW j, Reached(w.scopes, j, run', v)
  PROVE  TrueInv'
<1>1. typ' = w.typ /\ scopes' = w.scopes /\ doubts' = w.doubts
  BY DEF Keep
<1>2. explicit' = explicit
  OBVIOUS
<1>3. Settled'
  BY <1>1, <1>2 DEF Settled, Minds
<1>4. Suits(Walk, value)'
  BY <1>1 DEF Suits, Walk
<1>5. Reached(scopes, j, run, value)'
  BY <1>1
<1>6. Shadowed(scopes)' /\ Assigns(scopes)'
  BY <1>1
<1> QED
  BY <1>3, <1>4, <1>5, <1>6 DEF TrueInv

(* The run is elsewhere and the innermost frame changes.                   *)
LEMMA ReachedOnTop ==
  ASSUME NEW s, NEW x, OnTop(s, x), NEW j, NEW r, r # "here", NEW v, Reached(s, j, r, v)
  PROVE  Reached(x, j, r, v)
<1>1. Len(x) = Len(s) /\ Len(s) \in Nat /\ j \in 1..Len(s) /\ Came(x, j)
  BY OnTopKeeps DEF OnTop, Reached, Came
<1>2. x[j].kind = s[j].kind /\ x[j].cond = s[j].cond
  <2>1. CASE j = Len(s)
    BY <2>1 DEF OnTop, Static
  <2>2. CASE j # Len(s)
    <3>1. j \in 1..Len(s) - 1
      BY <1>1, <2>2
    <3> QED
      BY <3>1 DEF OnTop
  <2> QED
    BY <2>1, <2>2
<1>3. PICK m : m = Told(s, j, r)
  OBVIOUS
<1>4. m = Told(x, j, r) /\ m \in Int /\ m < Len(s)
  BY <1>1, <1>2, <1>3 DEF Told
<1>5. Good(x, m, v)
  BY <1>3, <1>4, GoodBelow DEF Reached
<1> QED
  BY <1>1, <1>2, <1>3, <1>4, <1>5 DEF Reached

(* x is s with e on top.                                                   *)
Topped(s, e, x) ==
  /\ Len(s) \in Nat /\ Len(x) = Len(s) + 1 /\ x[Len(s) + 1] = e
  /\ \A i \in 1..Len(s) : x[i] = s[i]

(* A frame that is pushed.                                                 *)
LEMMA PushTops ==
  ASSUME NEW s, Typed(s), NEW e, NEW x, x = Append(s, e)
  PROVE  Topped(s, e, x)
<1>1. PICK S : s \in Seq(S)
  BY DEF Typed
<1>2. s \in Seq(S \cup {e}) /\ e \in S \cup {e}
  BY <1>1, SeqMonotonic
<1>3. Len(x) = Len(s) + 1 /\ x[Len(s) + 1] = e /\ Len(s) \in Nat
      /\ \A i \in 1..Len(s) : x[i] = s[i]
  BY <1>2, AppendProperties
<1> QED
  BY <1>3 DEF Topped

(* What relates the frames, when another one is put on top.                *)
LEMMA ToppedShadows ==
  ASSUME NEW s, NEW e, NEW x, Topped(s, e, x), ~e.wrote, Shadowed(s)
  PROVE  Shadowed(x)
<1>1. PICK n : n = Len(s)
  OBVIOUS
<1>2. n \in Nat /\ Len(x) = n + 1 /\ x[n + 1] = e /\ \A i \in 1..n : x[i] = s[i]
  BY <1>1 DEF Topped
<1> SUFFICES ASSUME NEW k \in 1..n + 1, x[k].wrote, x[k].flow = None, NEW i \in 1..(k - 1)
             PROVE  x[i].flow = None \/ x[i].why # {}
  BY <1>2 DEF Shadowed
<1>3. k \in 1..n
  BY <1>2
<1>4. i \in 1..n
  BY <1>2, <1>3
<1> QED
  BY <1>1, <1>2, <1>3, <1>4 DEF Shadowed

(* Which frames were assigned in, when another one is put on top.          *)
LEMMA ToppedAssigns ==
  ASSUME NEW s, NEW e, NEW x, Topped(s, e, x), Assigns(s),
         e.step # None => e.kind = "for" /\ e.wrote,
         e.kind = "for" /\ e.cond.sets # None => e.wrote,
         e.kind = "while" /\ e.cond.sets # None => Len(s) > 0 /\ s[Len(s)].wrote
  PROVE  Assigns(x)
<1>1. PICK n : n = Len(s)
  OBVIOUS
<1>2. n \in Nat /\ Len(x) = n + 1 /\ x[n + 1] = e /\ \A i \in 1..n : x[i] = s[i]
  BY <1>1 DEF Topped
<1> SUFFICES ASSUME NEW k \in 1..n + 1
             PROVE  /\ x[k].step # None => x[k].kind = "for" /\ x[k].wrote
                    /\ x[k].kind = "for" /\ x[k].cond.sets # None => x[k].wrote
                    /\ x[k].kind = "while" /\ x[k].cond.sets # None => k > 1 /\ x[k - 1].wrote
  BY <1>2 DEF Assigns
<1>3. CASE k = n + 1
  <2>1. n > 0 => k > 1 /\ k - 1 = n /\ n \in 1..n
    BY <1>2, <1>3
  <2>2. n > 0 => x[k - 1] = s[n]
    BY <1>2, <2>1
  <2> QED
    BY <1>1, <1>2, <1>3, <2>1, <2>2
<1>4. CASE k # n + 1
  <2>1. k \in 1..n /\ x[k] = s[k] /\ (k > 1 => x[k - 1] = s[k - 1])
    BY <1>2, <1>4
  <2> QED
    BY <1>1, <2>1 DEF Assigns
<1> QED
  BY <1>3, <1>4

(* What the frames tell.                                                   *)
LEMMA ToppedGood ==
  ASSUME NEW s, NEW e, NEW x, Topped(s, e, x), NEW v
  PROVE  /\ \A m \in Int : m <= Len(s) /\ Good(s, m, v) => Good(x, m, v)
         /\ Good(s, Len(s), v) /\ Fits(e, v) => Good(x, Len(s) + 1, v)
<1>1. PICK n : n = Len(s)
  OBVIOUS
<1>2. n \in Nat /\ Len(x) = n + 1 /\ x[n + 1] = e /\ \A i \in 1..n : x[i] = s[i]
  BY <1>1 DEF Topped
<1>3. ASSUME NEW m \in Int, m <= n, Good(s, m, v), NEW i \in 1..m
      PROVE  Fits(x[i], v) \/ WroteIn(x, i)
  <2>1. i \in 1..n /\ x[i] = s[i]
    BY <1>2, <1>3
  <2>2. CASE Fits(s[i], v)
    BY <2>1, <2>2
  <2>3. CASE WroteIn(s, i)
    <3>1. PICK k \in (i + 1)..n : s[k].wrote
      BY <1>1, <2>3 DEF WroteIn
    <3>2. k \in 1..n /\ k \in (i + 1)..(n + 1)
      BY <1>2, <2>1
    <3> QED
      BY <1>2, <3>1, <3>2 DEF WroteIn
  <2> QED
    BY <1>3, <2>2, <2>3 DEF Good
<1>4. ASSUME Good(s, n, v), Fits(e, v), NEW i \in 1..n + 1
      PROVE  Fits(x[i], v) \/ WroteIn(x, i)
  <2>1. CASE i = n + 1
    BY <1>2, <1>4, <2>1
  <2>2. CASE i # n + 1
    <3>1. i \in 1..n
      BY <1>2, <2>2
    <3> QED
      BY <1>2, <1>3, <1>4, <3>1
  <2> QED
    BY <2>1, <2>2
<1> QED
  BY <1>1, <1>3, <1>4 DEF Good

(* Which statements the run came to.                                       *)
LEMMA ToppedCame ==
  ASSUME NEW s, NEW e, NEW x, Topped(s, e, x), NEW j, Came(s, j), e.entered => j = Len(s)
  PROVE  Came(x, IF e.entered THEN Len(s) + 1 ELSE j)
<1>1. PICK n : n = Len(s)
  OBVIOUS
<1>2. /\ n \in Nat /\ Len(x) = n + 1 /\ x[n + 1] = e /\ \A i \in 1..n : x[i] = s[i]
      /\ j \in 1..n /\ \A k \in 1..n : s[k].entered <=> k <= j
  BY <1>1 DEF Topped, Came
<1>3. PICK h : h = IF e.entered THEN n + 1 ELSE j
  OBVIOUS
<1>4. h \in 1..n + 1
  BY <1>2, <1>3
<1>5. ASSUME NEW k \in 1..n + 1 PROVE x[k].entered <=> k <= h
  <2>1. CASE k = n + 1
    <3>1. k <= h <=> e.entered
      BY <1>2, <1>3, <2>1
    <3> QED
      BY <1>2, <2>1, <3>1
  <2>2. CASE k # n + 1
    <3>1. k \in 1..n /\ x[k] = s[k]
      BY <1>2, <2>2
    <3>2. k <= h <=> k <= j
      BY <1>1, <1>2, <1>3, <3>1
    <3> QED
      BY <1>2, <3>1, <3>2
  <2> QED
    BY <2>1, <2>2
<1> QED
  BY <1>1, <1>2, <1>3, <1>4, <1>5 DEF Came

-----------------------------------------------------------------------------
(* A statement with a scope is entered.                                    *)

(* A statement with a scope was entered, and the run came into it or not.  *)
LEMMA Entered ==
  ASSUME TrueInv, NEW u, Minds(u), Keep(u), UNCHANGED <<explicit, documented>>,
         NEW s, OnTop(scopes, s), NEW e, Topped(s, e, u.scopes), e.entered = live,
         Shadowed(u.scopes), Assigns(u.scopes),
         run' = IF live /\ ~e.held THEN "past" ELSE run,
         NEW v, v = value', Suits(u, v), ~live => v = value,
         NEW n, n = Len(scopes),
         live => Good(u.scopes, IF e.held THEN n + 1 ELSE IF e.kind = "while" THEN n - 1 ELSE n, v),
         live /\ ~e.held /\ e.kind = "then" => ~Satisfied(e.cond, v)
  PROVE  TrueInv'
<1>1. PICK y : y = u.scopes
  OBVIOUS
<1>2. n \in Nat /\ Len(s) = n /\ Len(y) = n + 1 /\ y[n + 1] = e
  BY <1>1 DEF OnTop, Topped
<1>3. PICK j : Reached(scopes, j, run, value)
  BY DEF TrueInv
<1>4. Came(scopes, j) /\ j \in 1..n /\ (live => j = n)
  BY <1>3 DEF Reached, Came, live
<1>5. Came(s, j)
  BY <1>4, OnTopKeeps
<1>6. e.entered => j = Len(s)
  BY <1>2, <1>4
<1>7. Came(y, IF e.entered THEN n + 1 ELSE j)
  BY <1>1, <1>2, <1>5, <1>6, ToppedCame
<1>8. CASE live
  <2>1. Came(y, n + 1)
    BY <1>7, <1>8
  <2>2. run' = IF e.held THEN "here" ELSE "past"
    BY <1>8 DEF live
  <2>3. Told(y, n + 1, run') = IF e.held THEN n + 1 ELSE IF e.kind = "while" THEN n - 1 ELSE n
    BY <1>2, <2>2 DEF Told
  <2>4. Reached(y, n + 1, run', v)
    BY <1>1, <1>2, <1>8, <2>1, <2>2, <2>3 DEF Reached
  <2> QED
    BY <1>1, <2>4, TrueNext
<1>9. CASE ~live
  <2>1. Came(y, j) /\ run' = run /\ run # "here" /\ v = value
    BY <1>7, <1>9 DEF live
  <2>2. Reached(s, j, run, v)
    BY <1>3, <2>1, ReachedOnTop
  <2>3. y[j] = s[j]
    BY <1>1, <1>2, <1>4 DEF Topped
  <2>4. PICK m : m = Told(s, j, run)
    OBVIOUS
  <2>5. m = Told(y, j, run) /\ m \in Int /\ m <= Len(s)
    BY <1>2, <1>4, <2>1, <2>3, <2>4 DEF Told
  <2>6. Good(y, m, v)
    BY <1>1, <2>2, <2>4, <2>5, ToppedGood DEF Reached
  <2>7. Reached(y, j, run', v)
    BY <2>1, <2>2, <2>3, <2>5, <2>6 DEF Reached
  <2> QED
    BY <1>1, <2>7, TrueNext
<1> QED
  BY <1>8, <1>9

(* A frame is put on top of what a walk found.                             *)
LEMMA MindsPush ==
  ASSUME NEW w, Minds(w), NEW e, Sound(e), ~e.wrote, NEW u, u = [w EXCEPT !.scopes = Append(@, e)]
  PROVE  /\ Minds(u) /\ u.scopes = Append(w.scopes, e)
         /\ \A v : Suits(w, v) => Suits(u, v)
<1>1. {"typ", "scopes", "doubts"} \subseteq DOMAIN w
  BY DEF Minds, Knows
<1>2. PICK x : x = Append(w.scopes, e)
  OBVIOUS
<1>3. {"typ", "scopes", "doubts"} \subseteq DOMAIN u /\ u.scopes = x /\ u.typ = w.typ /\ u.doubts = w.doubts
  BY <1>1, <1>2
<1>4. Typed(x) /\ Len(x) = Len(w.scopes) + 1 /\ Len(w.scopes) \in Nat
  BY <1>2, TypedPush DEF Minds, Knows
<1>5. Len(x) > 0
  BY <1>4
<1>6. Knows(u)
  BY <1>3, <1>4, <1>5 DEF Minds, Knows
<1>7. Wrote(x) => Wrote(w.scopes)
  <2>1. Topped(w.scopes, e, x)
    BY <1>2, PushTops DEF Minds, Knows
  <2>2. \A k \in 1..Len(x) : x[k].wrote => k \in 1..Len(w.scopes) /\ x[k] = w.scopes[k]
    BY <2>1 DEF Topped
  <2> QED
    BY <2>2 DEF Wrote
<1>8. \A v : Suits(w, v) => Suits(u, v)
  BY <1>3 DEF Suits
<1> QED
  BY <1>2, <1>3, <1>6, <1>7, <1>8 DEF Minds

(* All statements but the for loop.                                        *)
LEMMA EnterStands ==
  ASSUME TInv, TrueInv, NEW w, Minds(w), OnTop(scopes, w.scopes), NEW e, Sound(e), Enter(w, e),
         UNCHANGED <<explicit, documented>>,
         e.entered = live, ~e.wrote, e.step = None, e.kind # "for", NEW n, n = Len(scopes),
         e.kind = "while" /\ e.cond.sets # None => w.scopes[n].wrote,
         NEW v, v = value', Suits(w, v), ~live => v = value,
         live /\ e.held => Good(w.scopes, n, v) /\ Fits(e, v),
         live /\ ~e.held => Good(w.scopes, IF e.kind = "while" THEN n - 1 ELSE n, v),
         live /\ ~e.held /\ e.kind = "then" => ~Satisfied(e.cond, v)
  PROVE  TrueInv'
<1>1. PICK u : u = [w EXCEPT !.scopes = Append(@, e)]
  OBVIOUS
<1>2. Minds(u) /\ u.scopes = Append(w.scopes, e) /\ Suits(u, v)
  BY <1>1, MindsPush
<1>3. PICK s : s = w.scopes
  OBVIOUS
<1>4. Topped(s, e, u.scopes)
  BY <1>2, <1>3, PushTops DEF Minds, Knows
<1>5. Keep(u) /\ run' = IF live /\ ~e.held THEN "past" ELSE run
  BY <1>1 DEF Enter
<1>6. OnTop(scopes, s) /\ Len(s) = n /\ n \in Nat /\ n > 0
  BY <1>3 DEF OnTop
<1>7. Shadowed(s) /\ Assigns(s)
  BY <1>3, OnTopKeeps DEF TrueInv
<1>8. Shadowed(u.scopes)
  BY <1>4, <1>7, ToppedShadows
<1>9. Assigns(u.scopes)
  BY <1>3, <1>4, <1>6, <1>7, ToppedAssigns
<1>10. \A m \in Int : m <= n /\ Good(s, m, v) => Good(u.scopes, m, v)
  BY <1>4, <1>6, ToppedGood
<1>11. live /\ e.held => Good(u.scopes, n + 1, v)
  BY <1>3, <1>4, <1>6, ToppedGood
<1>12. PICK m : m = IF e.kind = "while" THEN n - 1 ELSE n
  OBVIOUS
<1>13. m \in Int /\ m <= n
  BY <1>6, <1>12
<1>14. live /\ ~e.held => Good(u.scopes, m, v)
  BY <1>3, <1>10, <1>12, <1>13
<1>15. live => Good(u.scopes, IF e.held THEN n + 1 ELSE IF e.kind = "while" THEN n - 1 ELSE n, v)
  BY <1>11, <1>12, <1>14
<1> QED
  BY <1>2, <1>4, <1>5, <1>6, <1>8, <1>9, <1>15, Entered

-----------------------------------------------------------------------------
(* Each statement keeps that.                                              *)

(* A new frame.                                                            *)
LEMMA FrameIs ==
  ASSUME NEW kind, NEW cond, NEW f, NEW entered, NEW held, NEW e,
         e = Frame(kind, cond, f, entered, held)
  PROVE  /\ e.kind = kind /\ e.cond = cond /\ e.step = None /\ e.entered = entered /\ e.held = held
         /\ ~e.wrote /\ e.flow = f.flow /\ e.why = f.why
         /\ \A v : Fits(f, v) => Fits(e, v)
BY DEF Frame, Fits, Tells

(* A scope that knows nothing.                                             *)
LEMMA UnknownFits == \A v : Fits(Unknown, v)
BY DEF Unknown, Known, Fits

(* Where the run is, the frames tell the value.                            *)
LEMMA LiveGood ==
  ASSUME TrueInv, live
  PROVE  Good(scopes, Len(scopes), value)
BY DEF TrueInv, Reached, Told, live

(* The frames as they are.                                                 *)
LEMMA OnTopItself ==
  ASSUME TInv, TrueInv
  PROVE  OnTop(scopes, scopes)
BY WalkMinds DEF OnTop

(* The declaration.                                                        *)
LEMMA InitTrue == Init => TrueInv
<1> SUFFICES ASSUME Init PROVE TrueInv
  OBVIOUS
<1>1. PICK t \in family.assigned \cup {NullType} :
        /\ typ = IF explicit THEN CheckType(documented, t) ELSE AddAny(t)
        /\ value \in Outcomes(t) /\ doubts = Unfit(t, value)
  BY DEF Init
<1>2. /\ IsType(t) /\ explicit \in BOOLEAN /\ (explicit => IsType(documented))
      /\ IsValue(value) /\ Denotes(t, value)
  BY <1>1, FlowAssumption, AnyNullTypes, ValuesAre DEF Init, Outcomes
<1>3. ~explicit => "any" \in typ.flags /\ IsType(typ)
  <2>1. AddAny(t).flags = t.flags \cup AnyType.flags /\ IsType(AddAny(t))
    BY <1>2, MergeFlags, MergeIsType, AnyNullTypes DEF AddAny
  <2>2. "any" \in AnyType.flags
    BY DEF AnyType, One, Prim
  <2> QED
    BY <1>1, <2>1, <2>2
<1>5. Suits(Walk, value)
  <2>1. doubts # {} \/ Denotes(typ, value)
    <3>1. CASE ~explicit
      BY <1>3, <3>1, AnyStands
    <3>2. CASE explicit /\ (Mixed(t) \/ ~Denotes(documented, value))
      BY <1>1, <3>2, UnfitIs
    <3>3. CASE explicit /\ ~Mixed(t) /\ Denotes(documented, value)
      BY <1>1, <1>2, <3>3, CheckStands
    <3> QED
      BY <3>1, <3>2, <3>3
  <2> QED
    BY <1>2, <2>1 DEF Suits, Tells, Known, Walk
<1>6. PICK e : e = Frame("body", None, Unknown, TRUE, TRUE)
  OBVIOUS
<1>a. e.entered
  BY <1>6 DEF Frame
<1>7. e.kind = "body" /\ e.step = None /\ ~e.wrote /\ \A v : Fits(e, v)
  BY <1>6, UnknownFits DEF Frame, Fits, Unknown, Known
<1>8. scopes = <<e>> /\ run = "here"
  BY <1>6 DEF Init
<1>9. Len(scopes) = 1 /\ scopes[1] = e
  BY <1>8
<1>10. 1..1 = {1}
  OBVIOUS
<1>4. Settled
  BY <1>3, <1>7, <1>9, <1>10 DEF Settled, Wrote
<1>11. Shadowed(scopes)
  BY <1>7, <1>9, <1>10 DEF Shadowed
<1>12. Assigns(scopes)
  BY <1>7, <1>9, <1>10 DEF Assigns
<1>13. Reached(scopes, 1, run, value)
  BY <1>a, <1>7, <1>8, <1>9, <1>10 DEF Reached, Came, Told, Good
<1> QED
  BY <1>4, <1>5, <1>11, <1>12, <1>13 DEF TrueInv

(* assign_operator.                                                        *)
LEMMA AssignTrue == ASSUME TInv, TrueInv, NEW t \in family.assigned, Assign(t) PROVE TrueInv'
<1>a. PICK v \in IF live THEN Outcomes(t) ELSE {value} :
        value' = v /\ Keep(AssignOperator(Walk, t, v))
  BY DEF Assign
<1>1. PICK x : x = AssignOperator(Walk, t, v)
  OBVIOUS
<1>2. PICK n : n = Len(scopes)
  OBVIOUS
<1>3. Minds(Walk) /\ Walk.scopes = scopes /\ explicit \in BOOLEAN /\ IsType(t)
  BY WalkMinds, FamilyFacts
<1>4. /\ Minds(x) /\ OnTop(scopes, x.scopes) /\ x.scopes[n].wrote
      /\ v \in Outcomes(t) => Fits(x.scopes[n], v)
      /\ \A z : IsValue(z) => Suits(x, z)
  BY <1>1, <1>2, <1>3, AssignOn
<1>5. Keep(x) /\ UNCHANGED <<explicit, documented, run>>
  BY <1>1, <1>a DEF Assign, Step
<1>b. Suits(x, v)
  <2>1. IsValue(v)
    BY <1>a, ValuesAre DEF Outcomes, TrueInv, Suits
  <2> QED
    BY <1>4, <2>1
<1>6. Shadowed(x.scopes) /\ Assigns(x.scopes)
  BY <1>4, OnTopKeeps DEF TrueInv
<1>8. PICK j : Reached(scopes, j, run, value)
  BY DEF TrueInv
<1>9. CASE live
  <2>1. v \in Outcomes(t)
    BY <1>a, <1>9
  <2>2. Good(x.scopes, n, v)
    BY <1>2, <1>4, <2>1, GoodOnTop
  <2>3. Came(x.scopes, j) /\ j = n /\ Len(x.scopes) = n /\ run = "here" /\ run' = run
    BY <1>2, <1>4, <1>5, <1>8, <1>9, OnTopKeeps DEF Reached, OnTop, live
  <2>4. Reached(x.scopes, j, run', v)
    BY <2>2, <2>3 DEF Reached, Told
  <2> QED
    BY <1>b, <1>4, <1>5, <1>6, <1>a, <2>4, TrueNext
<1>10. CASE ~live
  <2>1. v = value /\ run # "here" /\ run' = run
    BY <1>5, <1>a, <1>10 DEF live
  <2>2. Reached(x.scopes, j, run', v)
    BY <1>4, <1>8, <2>1, ReachedOnTop
  <2> QED
    BY <1>b, <1>4, <1>5, <1>6, <1>a, <2>2, TrueNext
<1> QED
  BY <1>9, <1>10

(* Statements that jump.                                                   *)
LEMMA JumpTrue ==
  ASSUME TInv, TrueInv, NEW to \in {"break", "continue", "out", "throw"}, Jump(to)
  PROVE  TrueInv'
<1>1. /\ UNCHANGED <<explicit, documented, typ, scopes, value, doubts>>
      /\ run' = IF live THEN to ELSE run
  BY DEF Jump, Step
<1>2. PICK j : Reached(scopes, j, run, value)
  BY DEF TrueInv
<1>3. Reached(scopes, j, run', value)
  <2>1. CASE live
    <3>1. run' = to /\ to \notin {"here", "past"} /\ run = "here"
      BY <1>1, <2>1 DEF live
    <3>2. Came(scopes, j) /\ j \in Int /\ Good(scopes, j, value)
      BY <1>2, <3>1 DEF Reached, Told, Came
    <3>3. Good(scopes, j - 1, value)
      BY <3>2, GoodFewer
    <3>4. Told(scopes, j, run') = j - 1
      BY <3>1 DEF Told
    <3> QED
      BY <3>1, <3>2, <3>3, <3>4 DEF Reached
  <2>2. CASE ~live
    BY <1>1, <1>2, <2>2
  <2> QED
    BY <2>1, <2>2
<1>4. Reached(scopes, j, run, value)'
  BY <1>1, <1>3
<1>5. Settled' /\ Suits(Walk, value)' /\ Shadowed(scopes)' /\ Assigns(scopes)'
  BY <1>1 DEF TrueInv, Settled, Suits, Walk
<1> QED
  BY <1>4, <1>5 DEF TrueInv

(* A statement of which nothing is known in its scope.                     *)
LEMMA PlainTrue ==
  ASSUME TInv, TrueInv, NEW kind, kind \notin {"then", "while", "for"}, NEW c,
         kind = "do" => IsCondition(c), NEW held, held \in BOOLEAN,
         Enter(Walk, Frame(kind, c, Unknown, live, live /\ held)),
         UNCHANGED <<explicit, documented, value>>
  PROVE  TrueInv'
<1>1. PICK e : e = Frame(kind, c, Unknown, live, live /\ held)
  OBVIOUS
<1>2. /\ e.kind = kind /\ e.step = None /\ e.entered = live /\ ~e.wrote /\ \A v : Fits(e, v)
  BY <1>1, FrameIs, UnknownFits
<1>3. Sound(e)
  BY <1>1, FrameSound, UnknownFlows
<1>4. PICK v : v = value'
  OBVIOUS
<1>5. Minds(Walk) /\ Walk.scopes = scopes /\ OnTop(scopes, scopes)
  BY WalkMinds, OnTopItself
<1>6. Suits(Walk, v) /\ v = value
  BY <1>4 DEF TrueInv
<1>7. live => Good(scopes, Len(scopes), v)
  BY <1>6, LiveGood
<1> QED
  BY <1>1, <1>2, <1>3, <1>4, <1>5, <1>6, <1>7, EnterStands

(* A block.                                                                *)
LEMMA BlockTrue ==
  ASSUME TInv, TrueInv, NEW kind \in {"block", "try"}, Block(kind) PROVE TrueInv'
<1>1. Enter(Walk, Frame(kind, None, Unknown, live, live /\ TRUE))
  <2>1. (live /\ TRUE) = live
    BY DEF live
  <2> QED
    BY <2>1 DEF Block
<1>2. UNCHANGED <<explicit, documented, value>>
  BY DEF Block, Step
<1> QED
  BY <1>1, <1>2, PlainTrue

(* do_while_statement up to its body.                                      *)
LEMMA DoTrue == ASSUME TInv, TrueInv, NEW c \in family.conditions, Do(c) PROVE TrueInv'
<1>1. Enter(Walk, Frame("do", c, Unknown, live, live /\ TRUE))
  <2>1. (live /\ TRUE) = live
    BY DEF live
  <2> QED
    BY <2>1 DEF Do
<1>2. UNCHANGED <<explicit, documented, value>> /\ IsCondition(c)
  BY FamilyFacts DEF Do, Step
<1> QED
  BY <1>1, <1>2, PlainTrue

(* for_each_statement up to its body.                                      *)
LEMMA ForEachTrue == ASSUME TInv, TrueInv, ForEach PROVE TrueInv'
<1>1. PICK held \in BOOLEAN : Enter(Walk, Frame("foreach", None, Unknown, live, live /\ held))
  BY DEF ForEach
<1>2. UNCHANGED <<explicit, documented, value>>
  BY DEF ForEach, Step
<1> QED
  BY <1>1, <1>2, PlainTrue

(* switch_statement up to its first case.                                  *)
LEMMA SwitchTrue == ASSUME TInv, TrueInv, Switch PROVE TrueInv'
<1>1. PICK held \in BOOLEAN : Enter(Walk, Frame("case", None, Unknown, live, live /\ held))
  BY DEF Switch
<1>2. UNCHANGED <<explicit, documented, value>>
  BY DEF Switch, Step
<1> QED
  BY <1>1, <1>2, PlainTrue

(* A condition that is collected before the run evaluates it.              *)
LEMMA EvaluatedOn ==
  ASSUME explicit \in BOOLEAN, NEW w, Minds(w), NEW c, IsCondition(c), NEW v \in Evaluated(c),
         NEW x, x = Collected(w, c, v), NEW n, n = Len(w.scopes),
         Suits(w, value), live => Good(w.scopes, n, value)
  PROVE  /\ Minds(x) /\ OnTop(w.scopes, x.scopes) /\ (c.sets # None => x.scopes[n].wrote)
         /\ Suits(x, v) /\ (live => Good(x.scopes, n, v)) /\ (~live => v = value)
<1>1. /\ Minds(x) /\ OnTop(w.scopes, x.scopes) /\ (c.sets # None => x.scopes[n].wrote)
      /\ Suits(x, value)
      /\ Good(w.scopes, n, value) /\ v \in After(c.sets, {value})
           => Suits(x, v) /\ Good(x.scopes, n, v)
  BY CollectedOn
<1>2. CASE live
  BY <1>1, <1>2 DEF Evaluated
<1>3. CASE ~live
  <2>1. v = value
    BY <1>3 DEF Evaluated
  <2> QED
    BY <1>1, <1>3, <2>1
<1> QED
  BY <1>2, <1>3

(* if_statement up to its first branch.                                    *)
LEMMA ThenTrue == ASSUME TInv, TrueInv, NEW c \in family.conditions, Then(c) PROVE TrueInv'
<1>a. PICK v \in Evaluated(c) :
        /\ value' = v
        /\ LET w == Collected(Walk, c, v) IN
           Enter(w, Frame("then", c, Guarded(c, TRUE, TypeIn(w), Unknown), live, live /\ Satisfied(c, v)))
  BY DEF Then
<1>1. PICK w : w = Collected(Walk, c, v)
  OBVIOUS
<1>2. /\ value' = v
      /\ Enter(w, Frame("then", c, Guarded(c, TRUE, TypeIn(w), Unknown), live, live /\ Satisfied(c, v)))
  BY <1>a, <1>1
<1>3. PICK n : n = Len(scopes)
  OBVIOUS
<1>4. Minds(Walk) /\ Walk.scopes = scopes /\ explicit \in BOOLEAN /\ IsCondition(c)
  BY WalkMinds, FamilyFacts
<1>5. Suits(Walk, value) /\ (live => Good(scopes, n, value)) /\ Shadowed(scopes)
  BY <1>3, LiveGood DEF TrueInv
<1>6. /\ Minds(w) /\ OnTop(scopes, w.scopes)
      /\ Suits(w, v) /\ (live => Good(w.scopes, n, v)) /\ (~live => v = value)
  BY <1>1, <1>2, <1>3, <1>4, <1>5, EvaluatedOn
<1>7. PICK at : at = TypeIn(w)
  OBVIOUS
<1>8. PICK g : g = Guarded(c, TRUE, at, Unknown)
  OBVIOUS
<1>9. IsType(at.flow) /\ Flowing(g.flow)
  <2>1. IsType(at.flow)
    BY <1>6, <1>7, TypeInIsType DEF Minds
  <2> QED
    BY <1>4, <1>8, <2>1, GuardedIsType, UnknownFlows
<1>10. PICK e : e = Frame("then", c, g, live, live /\ Satisfied(c, v))
  OBVIOUS
<1>11. /\ e.kind = "then" /\ e.cond = c /\ e.step = None /\ e.entered = live
       /\ e.held = (live /\ Satisfied(c, v)) /\ ~e.wrote /\ (Fits(g, v) => Fits(e, v))
  BY <1>10 DEF Frame, Fits, Tells
<1>12. Sound(e)
  BY <1>4, <1>9, <1>10, FrameSound
<1>13. ASSUME live, Satisfied(c, v) PROVE Fits(g, v)
  <2>1. Len(w.scopes) = n /\ Shadowed(w.scopes)
    BY <1>3, <1>5, <1>6, OnTopKeeps DEF OnTop
  <2>2. Tells(at, v)
    BY <1>4, <1>6, <1>7, <1>13, <2>1, TypeInTells
  <2>3. Satisfied(c, v) = TRUE
    BY <1>4, <1>13 DEF Satisfied, IsCondition
  <2>4. IsValue(v)
    BY <1>6 DEF Suits
  <2> QED
    BY <1>4, <1>8, <1>9, <2>2, <2>3, <2>4, UnknownFits, UnknownFlows, GuardedTells
<1>14. Enter(w, e) /\ UNCHANGED <<explicit, documented>>
  BY <1>2, <1>7, <1>8, <1>10 DEF Then, Step
<1>15. live /\ e.held => Good(w.scopes, n, v) /\ Fits(e, v)
  BY <1>6, <1>11, <1>13
<1>16. live /\ ~e.held => Good(w.scopes, n, v) /\ ~Satisfied(e.cond, v)
  BY <1>6, <1>11
<1> QED
  BY <1>2, <1>3, <1>6, <1>11, <1>12, <1>14, <1>15, <1>16, EnterStands

(* while_statement up to its body.                                         *)
LEMMA WhileTrue == ASSUME TInv, TrueInv, NEW c \in family.conditions, While(c) PROVE TrueInv'
<1>a. PICK v \in Evaluated(c) :
        /\ value' = v
        /\ Enter(NarrowTop(Collected(Walk, c, v), c),
                 Frame("while", c, Unknown, live, live /\ Satisfied(c, v)))
  BY DEF While
<1>1. PICK b : b = Collected(Walk, c, v)
  OBVIOUS
<1>2. PICK w : w = NarrowTop(b, c)
  OBVIOUS
<1>3. value' = v /\ Enter(w, Frame("while", c, Unknown, live, live /\ Satisfied(c, v)))
  BY <1>a, <1>1, <1>2
<1>4. PICK n : n = Len(scopes)
  OBVIOUS
<1>5. Minds(Walk) /\ Walk.scopes = scopes /\ explicit \in BOOLEAN /\ IsCondition(c)
  BY WalkMinds, FamilyFacts
<1>6. Suits(Walk, value) /\ (live => Good(scopes, n, value)) /\ Shadowed(scopes)
  BY <1>4, LiveGood DEF TrueInv
<1>7. /\ Minds(b) /\ OnTop(scopes, b.scopes) /\ (c.sets # None => b.scopes[n].wrote)
      /\ Suits(b, v) /\ (live => Good(b.scopes, n, v)) /\ (~live => v = value)
  BY <1>1, <1>3, <1>4, <1>5, <1>6, EvaluatedOn
<1>8. Len(b.scopes) = n /\ Shadowed(b.scopes) /\ n \in Nat
  BY <1>4, <1>6, <1>7, OnTopKeeps DEF OnTop
<1>9. /\ Minds(w) /\ OnTop(b.scopes, w.scopes) /\ w.scopes[n].wrote = b.scopes[n].wrote
      /\ Suits(w, v)
      /\ Good(b.scopes, n, v) /\ Satisfied(c, v) => Good(w.scopes, n, v)
  BY <1>2, <1>5, <1>7, <1>8, NarrowOn
<1>10. PICK e : e = Frame("while", c, Unknown, live, live /\ Satisfied(c, v))
  OBVIOUS
<1>11. /\ e.kind = "while" /\ e.cond = c /\ e.step = None /\ e.entered = live
       /\ e.held = (live /\ Satisfied(c, v)) /\ ~e.wrote /\ Fits(e, v)
  BY <1>10 DEF Frame, Fits, Unknown, Known
<1>12. Sound(e)
  BY <1>10, FrameSound, UnknownFlows
<1>13. OnTop(scopes, w.scopes)
  BY <1>7, <1>9, OnTopTwice
<1>14. Enter(w, e) /\ UNCHANGED <<explicit, documented>>
  BY <1>3, <1>10 DEF While, Step
<1>15. live /\ e.held => Good(w.scopes, n, v) /\ Fits(e, v)
  BY <1>7, <1>9, <1>11
<1>16. live => Good(w.scopes, n - 1, v)
  <2>1. live => Good(b.scopes, n - 1, v)
    BY <1>7, <1>8, GoodFewer
  <2> QED
    BY <1>8, <1>9, <2>1, GoodBelow
<1> QED
  BY <1>3, <1>4, <1>7, <1>9, <1>11, <1>12, <1>13, <1>14, <1>15, <1>16, EnterStands

(* What is taken apart and put together again.                             *)
LEMMA FrontLast ==
  ASSUME NEW s, Typed(s), Len(s) > 0
  PROVE  /\ Append(Front(s), Last(s)) = s /\ Typed(Front(s))
         /\ Len(Front(s)) = Len(s) - 1 /\ \A i \in 1..Len(s) - 1 : Front(s)[i] = s[i]
<1>1. PICK S : s \in Seq(S)
  BY DEF Typed
<1>2. PICK o : o = Front(s)
  OBVIOUS
<1>3. PICK n : n = Len(s) - 1
  OBVIOUS
<1>4. n \in Nat /\ Len(s) = n + 1 /\ \A i \in 1..n + 1 : s[i] \in S
  BY <1>1, <1>3, TypedLen
<1>5. o = SubSeq(s, 1, n)
  BY <1>2, <1>3 DEF Front
<1>6. (IF 1 <= n THEN n - 1 + 1 ELSE 0) = n
  BY <1>4
<1>7. \A i \in 1..n : s[i] \in S
  BY <1>4
<1>8. /\ o \in Seq(S) /\ Len(o) = IF 1 <= n THEN n - 1 + 1 ELSE 0
      /\ \A i \in 1..n - 1 + 1 : o[i] = s[1 + i - 1]
  BY <1>4, <1>5, <1>7, SubSeqProperties
<1>9. Len(o) = n /\ \A i \in 1..n : o[i] = s[i]
  BY <1>4, <1>6, <1>8
<1>10. PICK e : e = s[n + 1]
  OBVIOUS
<1>11. Last(s) = e /\ e \in S
  BY <1>4, <1>10 DEF Last
<1>12. PICK x : x = Append(o, e)
  OBVIOUS
<1>13. x \in Seq(S) /\ Len(x) = n + 1 /\ x[n + 1] = e /\ \A i \in 1..n : x[i] = o[i]
  BY <1>8, <1>9, <1>11, <1>12, AppendProperties
<1>14. \A i \in 1..n + 1 : x[i] = s[i]
  <2> SUFFICES ASSUME NEW i \in 1..n + 1 PROVE x[i] = s[i]
    OBVIOUS
  <2>1. i = n + 1 \/ i \in 1..n
    BY <1>4
  <2> QED
    BY <1>9, <1>10, <1>13, <2>1
<1>15. x = s
  BY <1>1, <1>4, <1>13, <1>14, SeqEqual
<1>16. Typed(o)
  BY <1>2, TypedPop
<1> QED
  BY <1>2, <1>3, <1>9, <1>11, <1>12, <1>15, <1>16

(* for_statement up to its body.                                           *)
LEMMA ForTrue ==
  ASSUME TInv, TrueInv, NEW c \in family.conditions, NEW t \in family.assigned \cup {None}, For(c, t)
  PROVE  TrueInv'
<1>1. PICK v \in Evaluated(c) :
        /\ value' = v
        /\ LET frame == [Frame("for", c, Unknown, live, live /\ Satisfied(c, v)) EXCEPT !.step = t]
               w == Stepped(NarrowTop(Collected([Walk EXCEPT !.scopes = Append(@, frame)], c, v), c), t, v) IN
           Enter([w EXCEPT !.scopes = Front(@)], Last(w.scopes))
  BY DEF For
<1>2. PICK bare : bare = Frame("for", c, Unknown, live, live /\ Satisfied(c, v))
  OBVIOUS
<1>3. PICK frame : frame = [bare EXCEPT !.step = t]
  OBVIOUS
<1>4. Sound(bare)
  BY <1>2, FrameSound, UnknownFlows
<1>5. /\ Sound(frame) /\ frame.kind = "for" /\ frame.cond = c /\ frame.step = t
      /\ frame.entered = live /\ frame.held = (live /\ Satisfied(c, v)) /\ ~frame.wrote
      /\ frame.flow = None
  <2>1. Sound(frame)
    BY <1>3, <1>4 DEF Sound, Fields
  <2>2. frame = [bare EXCEPT !.step = t] /\ bare = Frame("for", c, Unknown, live, live /\ Satisfied(c, v))
    BY <1>2, <1>3
  <2> QED
    BY <2>1, <2>2 DEF Frame, Unknown, Known
<1>6. PICK n : n = Len(scopes)
  OBVIOUS
<1>7. /\ Minds(Walk) /\ Walk.scopes = scopes /\ explicit \in BOOLEAN /\ n \in Nat /\ n > 0
      /\ Typed(scopes) /\ IsCondition(c) /\ Flowing(t)
  BY <1>6, WalkMinds, FamilyFacts
<1>8. Suits(Walk, value) /\ (live => Good(scopes, n, value)) /\ Shadowed(scopes) /\ Assigns(scopes)
  BY <1>6, LiveGood DEF TrueInv
<1>9. PICK a : a = [Walk EXCEPT !.scopes = Append(@, frame)]
  OBVIOUS
<1>10. Minds(a) /\ a.scopes = Append(scopes, frame) /\ Suits(a, value)
  BY <1>5, <1>7, <1>8, <1>9, MindsPush
<1>11. Topped(scopes, frame, a.scopes)
  BY <1>7, <1>10, PushTops
<1>12. Len(a.scopes) = n + 1 /\ a.scopes[n + 1] = frame /\ \A i \in 1..n : a.scopes[i] = scopes[i]
  BY <1>6, <1>11 DEF Topped
<1>13. Shadowed(a.scopes)
  BY <1>5, <1>8, <1>11, ToppedShadows
<1>14. live => Good(a.scopes, n + 1, value)
  BY <1>5, <1>6, <1>8, <1>11, ToppedGood DEF Fits
<1>15. PICK b : b = Collected(a, c, v)
  OBVIOUS
<1>16. /\ Minds(b) /\ OnTop(a.scopes, b.scopes) /\ (c.sets # None => b.scopes[n + 1].wrote)
       /\ Suits(b, v) /\ (live => Good(b.scopes, n + 1, v)) /\ (~live => v = value)
  <2>1. PICK z : z = n + 1
    OBVIOUS
  <2>2. z = Len(a.scopes) /\ (live => Good(a.scopes, z, value))
    BY <1>12, <1>14, <2>1
  <2>3. /\ Minds(b) /\ OnTop(a.scopes, b.scopes) /\ (c.sets # None => b.scopes[z].wrote)
        /\ Suits(b, v) /\ (live => Good(b.scopes, z, v)) /\ (~live => v = value)
    <3>1. explicit \in BOOLEAN /\ IsCondition(c) /\ Minds(a) /\ Suits(a, value) /\ v \in Evaluated(c)
      BY <1>1, <1>7, <1>10
    <3> QED
      BY <1>15, <2>2, <3>1, EvaluatedOn
  <2> QED
    BY <2>1, <2>3
<1>17. Len(b.scopes) = n + 1 /\ Shadowed(b.scopes)
  BY <1>12, <1>13, <1>16, OnTopKeeps DEF OnTop
<1>18. PICK d : d = NarrowTop(b, c)
  OBVIOUS
<1>19. /\ Minds(d) /\ OnTop(b.scopes, d.scopes) /\ d.scopes[n + 1].wrote = b.scopes[n + 1].wrote
       /\ Suits(d, v)
       /\ Good(b.scopes, n + 1, v) /\ Satisfied(c, v) => Good(d.scopes, n + 1, v)
  BY <1>7, <1>16, <1>17, <1>18, NarrowOn
<1>20. Len(d.scopes) = n + 1
  BY <1>17, <1>19 DEF OnTop
<1>21. PICK w : w = Stepped(d, t, v)
  OBVIOUS
<1>22. /\ Minds(w) /\ OnTop(d.scopes, w.scopes) /\ (t # None => w.scopes[n + 1].wrote)
       /\ Suits(w, v)
       /\ Good(d.scopes, n + 1, v) => Good(w.scopes, n + 1, v)
  <2>1. PICK z : z = n + 1
    OBVIOUS
  <2>2. z = Len(d.scopes)
    BY <1>20, <2>1
  <2>3. /\ Minds(w) /\ OnTop(d.scopes, w.scopes) /\ (t # None => w.scopes[z].wrote)
        /\ Suits(d, v) => Suits(w, v)
        /\ Good(d.scopes, z, v) => Good(w.scopes, z, v)
    <3>1. explicit \in BOOLEAN /\ Flowing(t) /\ Minds(d)
      BY <1>7, <1>19
    <3>2. Minds(w) /\ OnTop(d.scopes, w.scopes) /\ (t # None => w.scopes[z].wrote)
      BY <1>21, <2>2, <3>1, SteppedOn
    <3>3. Suits(d, v) => Suits(w, v)
      BY <1>21, <2>2, <3>1, SteppedOn
    <3>4. Good(d.scopes, z, v) => Good(w.scopes, z, v)
      BY <1>21, <2>2, <3>1, SteppedOn
    <3> QED
      BY <3>2, <3>3, <3>4
  <2> QED
    BY <1>19, <2>1, <2>3
<1>23. PICK y : y = w.scopes
  OBVIOUS
<1>24. OnTop(a.scopes, y) /\ Typed(y)
  <2>1. OnTop(a.scopes, d.scopes)
    BY <1>16, <1>19, OnTopTwice
  <2> QED
    BY <1>22, <1>23, <2>1, OnTopTwice DEF Minds, Knows
<1>25. PICK e : e = y[n + 1]
  OBVIOUS
<1>26. /\ Len(y) = n + 1 /\ \A i \in 1..n : y[i] = scopes[i]
       /\ e.kind = "for" /\ e.cond = c /\ e.step = t /\ e.entered = live
       /\ e.held = (live /\ Satisfied(c, v))
  <2>1. Len(y) = n + 1 /\ (n + 1) - 1 = n /\ \A i \in 1..(n + 1) - 1 : y[i] = a.scopes[i]
    BY <1>7, <1>12, <1>24 DEF OnTop
  <2>2. \A f \in Static : e[f] = frame[f]
    BY <1>12, <1>24, <1>25 DEF OnTop
  <2>3. e.kind = frame.kind /\ e.cond = frame.cond /\ e.step = frame.step /\ e.entered = frame.entered
        /\ e.held = frame.held
    BY <2>2 DEF Static
  <2> QED
    BY <1>5, <1>12, <2>1, <2>3
<1>27. (t # None => e.wrote) /\ (c.sets # None => e.wrote)
  <2>1. d.scopes[n + 1].wrote => e.wrote
    BY <1>20, <1>22, <1>23, <1>25 DEF OnTop
  <2> QED
    BY <1>16, <1>19, <1>22, <1>23, <1>25, <2>1
<1>28. PICK s : s = Front(y)
  OBVIOUS
<1>29. Append(s, e) = y /\ Last(y) = e /\ Len(s) = n /\ \A i \in 1..n : s[i] = scopes[i]
  <2>1. Len(y) > 0 /\ Len(y) - 1 = n
    BY <1>7, <1>26
  <2>2. /\ Append(s, Last(y)) = y /\ Len(s) = n /\ \A i \in 1..n : s[i] = y[i]
    BY <1>24, <1>28, <2>1, FrontLast
  <2>3. Last(y) = e
    BY <1>25, <1>26 DEF Last
  <2> QED
    BY <1>26, <2>2, <2>3
<1>30. Topped(s, e, y)
  BY <1>7, <1>25, <1>26, <1>29 DEF Topped
<1>31. OnTop(scopes, s)
  <2>1. \A i \in 1..n - 1 : s[i] = scopes[i]
    BY <1>7, <1>29
  <2>2. n \in 1..n
    BY <1>7
  <2>3. s[n] = scopes[n]
    BY <1>29, <2>2
  <2> QED
    BY <1>6, <1>7, <1>29, <2>1, <2>3 DEF OnTop
<1>32. Topped(scopes, e, y)
  BY <1>6, <1>7, <1>25, <1>26 DEF Topped
<1>33. Shadowed(y) /\ Assigns(y)
  <2>1. Shadowed(y)
    BY <1>13, <1>24, OnTopKeeps
  <2>2. Assigns(y)
    BY <1>8, <1>26, <1>27, <1>32, ToppedAssigns
  <2> QED
    BY <2>1, <2>2
<1>34. PICK f : f = [w EXCEPT !.scopes = Front(@)]
  OBVIOUS
<1>35. PICK u : u = [f EXCEPT !.scopes = Append(@, e)]
  OBVIOUS
<1>36. Minds(u) /\ u.scopes = y /\ Suits(u, v)
  <2>1. {"typ", "scopes", "doubts"} \subseteq DOMAIN w
    BY <1>22 DEF Minds, Knows
  <2>2. {"typ", "scopes", "doubts"} \subseteq DOMAIN f /\ f.scopes = s /\ f.typ = w.typ /\ f.doubts = w.doubts
    BY <1>23, <1>28, <1>34, <2>1
  <2>3. {"typ", "scopes", "doubts"} \subseteq DOMAIN u /\ u.scopes = y /\ u.typ = w.typ /\ u.doubts = w.doubts
    BY <1>29, <1>35, <2>2
  <2>4. Knows(u)
    BY <1>22, <1>23, <2>3 DEF Minds, Knows
  <2> QED
    BY <1>22, <1>23, <2>3, <2>4 DEF Minds, Suits
<1>37. Enter(f, e)
  BY <1>1, <1>2, <1>3, <1>9, <1>15, <1>18, <1>21, <1>23, <1>29, <1>34
<1>38. Keep(u) /\ run' = (IF live /\ ~e.held THEN "past" ELSE run) /\ UNCHANGED <<explicit, documented>>
  BY <1>35, <1>37 DEF Enter, For, Step
<1>39. live /\ e.held => Good(y, n + 1, v)
  BY <1>16, <1>19, <1>22, <1>23, <1>26
<1>40. live => Good(y, n, v)
  <2>1. live => Good(b.scopes, n, v)
    BY <1>7, <1>16, GoodFewer
  <2>2. n < Len(b.scopes) /\ n < Len(d.scopes) /\ n \in Int
    BY <1>7, <1>17, <1>20
  <2>3. live => Good(d.scopes, n, v)
    BY <1>19, <2>1, <2>2, GoodBelow
  <2> QED
    BY <1>22, <1>23, <2>2, <2>3, GoodBelow
<1>41. live => Good(u.scopes, IF e.held THEN n + 1 ELSE IF e.kind = "while" THEN n - 1 ELSE n, v)
  BY <1>26, <1>36, <1>39, <1>40
<1>42. Topped(s, e, u.scopes) /\ Shadowed(u.scopes) /\ Assigns(u.scopes)
  BY <1>30, <1>33, <1>36
<1> QED
  BY <1>1, <1>6, <1>16, <1>26, <1>31, <1>36, <1>38, <1>41, <1>42, Entered

-----------------------------------------------------------------------------
(* A scope is left.                                                        *)

(* l is what exit_scope makes of s.                                        *)
Exits(s, l) ==
  /\ Len(s) \in Nat /\ Len(s) > 1 /\ Len(l) = Len(s) - 1
  /\ \A i \in 1..Len(s) - 1 :
       /\ \A f \in Static : l[i][f] = s[i][f]
       /\ l[i].flow = s[i].flow
       /\ IF s[Len(s)].wrote THEN l[i].wrote /\ (l[i].flow = None \/ l[i].why # {}) ELSE l[i] = s[i]

(* exit_scope does that.                                                   *)
LEMMA ExitIs ==
  ASSUME NEW s, Typed(s), Len(s) > 1, NEW l, l = ExitScope(Front(s), s[Len(s)].wrote)
  PROVE  Exits(s, l)
<1>1. PICK n : n = Len(s) - 1
  OBVIOUS
<1>2. n \in Nat /\ n > 0 /\ Len(s) = n + 1 /\ \A i \in 1..n : Sound(s[i])
  <2>1. Len(s) \in Nat /\ \A i \in 1..Len(s) : Sound(s[i])
    BY TypedLen
  <2>2. n \in Nat /\ n > 0 /\ Len(s) = n + 1 /\ \A i \in 1..n : i \in 1..Len(s)
    BY <1>1, <2>1
  <2> QED
    BY <2>1, <2>2
<1>3. PICK o : o = Front(s)
  OBVIOUS
<1>4. Len(o) = n /\ Typed(o) /\ \A i \in 1..n : o[i] = s[i]
  BY <1>1, <1>2, <1>3, FrontLast
<1>5. DOMAIN o = 1..n
  BY <1>4, TypedLen
<1>6. PICK wrote : wrote = s[Len(s)].wrote
  OBVIOUS
<1>7. Len(l) = n
  BY <1>3, <1>4, <1>6, TypedExit
<1>8. l = [i \in 1..n |-> IF wrote THEN [o[i] EXCEPT !.wrote = TRUE,
                                           !.why = IF o[i].flow = None THEN @ ELSE @ \cup {"left"}]
                          ELSE o[i]]
  BY <1>3, <1>5, <1>6 DEF ExitScope
<1>9. ASSUME NEW i \in 1..n
      PROVE  /\ \A f \in Static : l[i][f] = s[i][f]
             /\ l[i].flow = s[i].flow
             /\ IF wrote THEN l[i].wrote /\ (l[i].flow = None \/ l[i].why # {}) ELSE l[i] = s[i]
  <2>1. CASE wrote
    <3>1. PICK e : e = s[i]
      OBVIOUS
    <3>2. l[i] = [e EXCEPT !.wrote = TRUE, !.why = IF e.flow = None THEN @ ELSE @ \cup {"left"}]
      <4>1. o[i] = e
        BY <1>4, <3>1
      <4>2. l[i] = [o[i] EXCEPT !.wrote = TRUE, !.why = IF o[i].flow = None THEN @ ELSE @ \cup {"left"}]
        BY <1>8, <2>1
      <4> QED
        BY <4>1, <4>2
    <3>3. DOMAIN e = Fields
      BY <1>2, <3>1 DEF Sound
    <3>4. l[i].wrote /\ l[i].flow = e.flow /\ (e.flow # None => l[i].why # {})
      BY <3>2, <3>3 DEF Fields
    <3>5. \A f \in Static : l[i][f] = e[f]
      BY <3>2, <3>3 DEF Fields, Static
    <3> QED
      BY <2>1, <3>1, <3>4, <3>5
  <2>2. CASE ~wrote
    BY <1>4, <1>8, <2>2
  <2> QED
    BY <2>1, <2>2
<1> QED
  BY <1>1, <1>2, <1>6, <1>7, <1>9 DEF Exits

(* What relates the frames.                                                *)
LEMMA ExitKeeps ==
  ASSUME NEW s, NEW l, Exits(s, l)
  PROVE  /\ Shadowed(s) => Shadowed(l)
         /\ Assigns(s) => Assigns(l)
         /\ \A j : Came(s, j) => Came(l, IF j = Len(s) THEN j - 1 ELSE j)
<1>1. PICK n : n = Len(s) - 1
  OBVIOUS
<1>2. /\ n \in Nat /\ n > 0 /\ Len(s) = n + 1 /\ Len(l) = n
      /\ \A i \in 1..n : i \in 1..n + 1
  BY <1>1 DEF Exits
<1>3. \A i \in 1..n :
        /\ l[i].kind = s[i].kind /\ l[i].cond = s[i].cond /\ l[i].step = s[i].step
        /\ l[i].entered = s[i].entered /\ l[i].flow = s[i].flow
        /\ IF s[Len(s)].wrote THEN l[i].wrote /\ (l[i].flow = None \/ l[i].why # {}) ELSE l[i] = s[i]
  BY <1>1 DEF Exits, Static
<1>4. ASSUME Shadowed(s) PROVE Shadowed(l)
  <2> SUFFICES ASSUME NEW k \in 1..n, l[k].wrote, l[k].flow = None, NEW i \in 1..(k - 1)
               PROVE  l[i].flow = None \/ l[i].why # {}
    BY <1>2 DEF Shadowed
  <2>1. i \in 1..n
    BY <1>2
  <2>2. CASE s[Len(s)].wrote
    BY <1>3, <2>1, <2>2
  <2>3. CASE ~s[Len(s)].wrote
    <3>1. l[k] = s[k] /\ l[i] = s[i]
      BY <1>3, <2>1, <2>3
    <3> QED
      BY <1>2, <1>4, <3>1 DEF Shadowed
  <2> QED
    BY <2>2, <2>3
<1>5. ASSUME Assigns(s) PROVE Assigns(l)
  <2> SUFFICES ASSUME NEW k \in 1..n
               PROVE  /\ l[k].step # None => l[k].kind = "for" /\ l[k].wrote
                      /\ l[k].kind = "for" /\ l[k].cond.sets # None => l[k].wrote
                      /\ l[k].kind = "while" /\ l[k].cond.sets # None => k > 1 /\ l[k - 1].wrote
    BY <1>2 DEF Assigns
  <2>1. /\ s[k].step # None => s[k].kind = "for" /\ s[k].wrote
        /\ s[k].kind = "for" /\ s[k].cond.sets # None => s[k].wrote
        /\ s[k].kind = "while" /\ s[k].cond.sets # None => k > 1 /\ s[k - 1].wrote
    BY <1>2, <1>5 DEF Assigns
  <2>2. k > 1 => k - 1 \in 1..n
    BY <1>2
  <2>3. \A i \in 1..n : s[i].wrote => l[i].wrote
    BY <1>3
  <2> QED
    BY <1>3, <2>1, <2>2, <2>3
<1>6. ASSUME NEW j, Came(s, j) PROVE Came(l, IF j = n + 1 THEN j - 1 ELSE j)
  <2>1. j \in 1..n + 1 /\ \A k \in 1..n + 1 : s[k].entered <=> k <= j
    BY <1>2, <1>6 DEF Came
  <2>2. PICK h : h = IF j = n + 1 THEN j - 1 ELSE j
    OBVIOUS
  <2>3. h \in 1..n
    BY <1>2, <2>1, <2>2
  <2>4. ASSUME NEW k \in 1..n PROVE l[k].entered <=> k <= h
    <3>1. k <= h <=> k <= j
      BY <1>2, <2>1, <2>2
    <3> QED
      BY <1>2, <1>3, <2>1, <3>1
  <2> QED
    BY <1>2, <2>2, <2>3, <2>4 DEF Came
<1> QED
  BY <1>2, <1>4, <1>5, <1>6

(* What the frames tell.                                                   *)
LEMMA ExitGood ==
  ASSUME NEW s, NEW l, Exits(s, l), NEW m \in Int, m < Len(s), NEW v, Good(s, m, v) \/ s[Len(s)].wrote
  PROVE  Good(l, m, v)
<1>1. PICK n : n = Len(s) - 1
  OBVIOUS
<1>2. /\ n \in Nat /\ Len(s) = n + 1 /\ Len(l) = n
      /\ \A i \in 1..n : IF s[Len(s)].wrote THEN l[i].wrote /\ (l[i].flow = None \/ l[i].why # {})
                                           ELSE l[i] = s[i]
  BY <1>1 DEF Exits
<1>3. \A i \in 1..m : i \in 1..n
  BY <1>2
<1>4. CASE s[Len(s)].wrote
  BY <1>2, <1>3, <1>4 DEF Good, Fits, Tells
<1>5. CASE ~s[Len(s)].wrote
  <2> SUFFICES ASSUME NEW i \in 1..m PROVE Fits(l[i], v) \/ WroteIn(l, i)
    BY DEF Good
  <2>1. i \in 1..n /\ l[i] = s[i]
    BY <1>2, <1>3, <1>5
  <2>2. CASE WroteIn(s, i)
    <3>1. PICK k \in (i + 1)..(n + 1) : s[k].wrote
      BY <1>2, <2>2 DEF WroteIn
    <3>2. k # n + 1
      BY <1>2, <1>5, <3>1
    <3>3. k \in 1..n /\ k \in (i + 1)..n
      BY <1>2, <2>1, <3>1, <3>2
    <3> QED
      BY <1>2, <1>5, <3>1, <3>3 DEF WroteIn
  <2>3. CASE Fits(s[i], v)
    BY <2>1, <2>3
  <2> QED
    BY <1>5, <2>2, <2>3 DEF Good
<1> QED
  BY <1>4, <1>5

(* It adds no assignment.                                                  *)
LEMMA ExitWrote ==
  ASSUME NEW s, NEW l, Exits(s, l), Wrote(l)
  PROVE  Wrote(s)
<1>1. PICK n : n = Len(s) - 1
  OBVIOUS
<1>2. n \in Nat /\ Len(s) = n + 1 /\ Len(l) = n /\ Len(s) \in 1..n + 1
      /\ \A i \in 1..n : i \in 1..n + 1 /\ (~s[Len(s)].wrote => l[i] = s[i])
  BY <1>1 DEF Exits
<1> QED
  BY <1>2 DEF Wrote

(* What is left when the innermost scope ends.                             *)
LEMMA LeftOn ==
  ASSUME TInv, TrueInv, Len(scopes) > 1, NEW l, l = Left
  PROVE  /\ Minds(l) /\ Exits(scopes, l.scopes) /\ Shadowed(l.scopes) /\ Assigns(l.scopes)
         /\ Top = scopes[Len(scopes)] /\ Len(scopes) \in Nat /\ Suits(l, value)
<1>1. Typed(scopes) /\ Len(scopes) \in Nat
  BY WalkMinds
<1>2. Top = scopes[Len(scopes)]
  BY DEF Top, Last
<1>3. l = [Walk EXCEPT !.scopes = ExitScope(Front(scopes), Top.wrote)]
  BY DEF Left, Outer
<1>4. PICK x : x = ExitScope(Front(scopes), Top.wrote)
  OBVIOUS
<1>5. {"typ", "scopes", "doubts"} \subseteq DOMAIN l /\ l.scopes = x /\ l.typ = typ /\ l.doubts = doubts
  BY <1>3, <1>4 DEF Walk
<1>6. Exits(scopes, x)
  BY <1>1, <1>2, <1>4, ExitIs
<1>7. Typed(x) /\ Len(x) > 0
  <2>1. Typed(Front(scopes))
    BY <1>1, FrontLast
  <2>2. Typed(x)
    BY <1>4, <2>1, TypedExit
  <2> QED
    BY <1>6, <2>2 DEF Exits
<1>8. Minds(l)
  <2>1. Wrote(x) => Wrote(scopes)
    BY <1>6, ExitWrote
  <2> QED
    BY <1>5, <1>7, <2>1 DEF Minds, Knows, TInv, TrueInv, Settled
<1>9. Suits(l, value)
  BY <1>5 DEF Suits, Walk, TrueInv
<1> QED
  BY <1>1, <1>2, <1>5, <1>6, <1>8, <1>9, ExitKeeps DEF TrueInv

-----------------------------------------------------------------------------
(* The next part of a statement.                                           *)

(* The next part of a statement: what it starts with tells the value if    *)
(* the run comes into it.                                                  *)
LEMMA FollowTrue ==
  ASSUME TInv, TrueInv, Len(scopes) > 1, UNCHANGED <<explicit, documented>>,
         NEW kind \in {"else", "case", "catch"}, NEW f, Flowing(f.flow), NEW held, NEW runs,
         Follow(kind, f, held, runs), Top.kind # "while", NEW n, n = Len(scopes),
         Reached(scopes, n, run, value) /\ runs = "here" => Fits(f, value)
  PROVE  TrueInv'
<1>1. PICK l : l = Left
  OBVIOUS
<1>2. /\ Minds(l) /\ Exits(scopes, l.scopes) /\ Shadowed(l.scopes) /\ Assigns(l.scopes)
      /\ Top = scopes[n] /\ n \in Nat /\ n > 1 /\ Suits(l, value)
  BY <1>1, LeftOn
<1>3. PICK s : s = l.scopes
  OBVIOUS
<1>4. Len(s) = n - 1
  BY <1>2, <1>3 DEF Exits
<1>5. PICK e : e = [Frame(kind, Top.cond, f, Top.entered, held) EXCEPT !.saved = Top.saved]
  OBVIOUS
<1>6. /\ e.kind = kind /\ e.step = None /\ ~e.wrote /\ e.entered = Top.entered
      /\ (\A v : Fits(f, v) => Fits(e, v))
  <2>1. PICK bare : bare = Frame(kind, Top.cond, f, Top.entered, held)
    OBVIOUS
  <2>2. /\ bare.kind = kind /\ bare.step = None /\ ~bare.wrote /\ bare.entered = Top.entered
        /\ bare.flow = f.flow /\ bare.why = f.why /\ DOMAIN bare = Fields
    BY <2>1 DEF Frame, Fields
  <2>3. e = [bare EXCEPT !.saved = Top.saved]
    BY <1>5, <2>1
  <2>4. /\ e.kind = kind /\ e.step = None /\ ~e.wrote /\ e.entered = Top.entered
        /\ e.flow = f.flow /\ e.why = f.why
    BY <2>2, <2>3 DEF Fields
  <2> QED
    BY <2>4 DEF Fits, Tells
<1>7. Sound(e)
  <2>1. PICK bare : bare = Frame(kind, Top.cond, f, Top.entered, held)
    OBVIOUS
  <2>2. Sound(bare)
    BY <2>1, FrameSound
  <2>3. e = [bare EXCEPT !.saved = Top.saved]
    BY <1>5, <2>1
  <2> QED
    BY <2>2, <2>3 DEF Sound, Fields
<1>8. PICK u : u = [l EXCEPT !.scopes = Append(@, e)]
  OBVIOUS
<1>9. PICK y : y = u.scopes
  OBVIOUS
<1>10. Minds(u) /\ y = Append(s, e) /\ Suits(u, value)
  BY <1>2, <1>3, <1>6, <1>7, <1>8, <1>9, MindsPush
<1>11. Topped(s, e, y)
  BY <1>2, <1>3, <1>10, PushTops DEF Minds, Knows
<1>12. /\ Keep(u) /\ value' = value /\ run' = IF Top.entered THEN runs ELSE run
  BY <1>1, <1>5, <1>8 DEF Follow
<1>13. Shadowed(y)
  BY <1>2, <1>3, <1>6, <1>11, ToppedShadows
<1>14. Assigns(y)
  BY <1>2, <1>3, <1>6, <1>11, ToppedAssigns
<1>15. Len(y) = n /\ y[n] = e /\ Len(s) + 1 = n /\ \A i \in 1..n - 1 : y[i] = s[i]
  <2>1. Len(s) + 1 = n
    BY <1>2, <1>4
  <2> QED
    BY <1>4, <1>11, <2>1 DEF Topped
<1>16. PICK j : Reached(scopes, j, run, value)
  BY DEF TrueInv
<1>17. Came(scopes, j) /\ j \in 1..n
  BY <1>16 DEF Reached, Came
<1>18. Came(s, IF j = n THEN j - 1 ELSE j)
  BY <1>2, <1>3, <1>17, ExitKeeps
<1>19. Top.entered <=> j = n
  <2>1. Top.entered <=> n <= j
    BY <1>2, <1>17 DEF Came
  <2> QED
    BY <1>2, <1>17, <2>1
<1>20. \A m \in Int : m < n /\ Good(scopes, m, value) => Good(y, m, value)
  <2> SUFFICES ASSUME NEW m \in Int, m < n, Good(scopes, m, value) PROVE Good(y, m, value)
    OBVIOUS
  <2>1. Good(s, m, value)
    BY <1>2, <1>3, ExitGood
  <2>2. m <= Len(s)
    BY <1>2, <1>4
  <2> QED
    BY <1>11, <2>1, <2>2, ToppedGood
<1>21. CASE j = n
  <2>1. Came(y, n)
    BY <1>4, <1>6, <1>11, <1>15, <1>18, <1>19, <1>21, ToppedCame
  <2>2. run' = runs
    BY <1>12, <1>19, <1>21
  <2>3. Good(scopes, n - 1, value)
    <3>1. Told(scopes, n, run) \in {n - 1, n}
      BY <1>2 DEF Told
    <3>2. Good(scopes, n - 1, value) \/ Good(scopes, n, value)
      BY <1>16, <1>21, <3>1 DEF Reached
    <3> QED
      BY <1>2, <3>2, GoodFewer
  <2>4. Good(s, n - 1, value) /\ Good(y, n - 1, value)
    BY <1>2, <1>3, <1>20, <2>3, ExitGood
  <2>5. runs = "here" => Good(y, n, value)
    BY <1>4, <1>6, <1>11, <1>15, <1>16, <1>21, <2>4, ToppedGood
  <2>6. Told(y, n, runs) = IF runs = "here" THEN n ELSE n - 1
    BY <1>6, <1>15 DEF Told
  <2>7. Reached(y, n, run', value)
    BY <1>6, <1>15, <2>1, <2>2, <2>4, <2>5, <2>6 DEF Reached
  <2> QED
    BY <1>2, <1>9, <1>10, <1>12, <1>13, <1>14, <2>7, TrueNext
<1>22. CASE j # n
  <2>1. Came(y, j) /\ run' = run /\ run # "here" /\ j \in 1..n - 1
    <3>1. run' = run
      BY <1>12, <1>19, <1>22
    <3>2. run # "here"
      BY <1>16, <1>22 DEF Reached
    <3>3. Came(y, j)
      BY <1>6, <1>11, <1>18, <1>19, <1>22, ToppedCame
    <3> QED
      BY <1>2, <1>17, <1>22, <3>1, <3>2, <3>3
  <2>2. y[j].kind = scopes[j].kind /\ y[j].cond = scopes[j].cond
    BY <1>2, <1>3, <1>15, <2>1 DEF Exits, Static
  <2>3. PICK m : m = Told(scopes, j, run)
    OBVIOUS
  <2>4. m = Told(y, j, run) /\ m \in Int /\ m < n
    BY <1>2, <2>1, <2>2, <2>3 DEF Told
  <2>5. Good(y, m, value)
    BY <1>16, <1>20, <2>3, <2>4 DEF Reached
  <2>6. Reached(y, j, run', value)
    BY <1>16, <2>1, <2>2, <2>4, <2>5 DEF Reached
  <2> QED
    BY <1>2, <1>9, <1>10, <1>12, <1>13, <1>14, <2>6, TrueNext
<1> QED
  BY <1>21, <1>22

(* The other branch of an if.                                              *)
LEMMA ElseTrue == ASSUME TInv, TrueInv, Len(scopes) > 1, Else PROVE TrueInv'
<1>1. UNCHANGED <<explicit, documented>> /\ Top.kind = "then"
  BY DEF Else, Step
<1>2. PICK l : l = Left
  OBVIOUS
<1>3. PICK n : n = Len(scopes)
  OBVIOUS
<1>4. /\ Minds(l) /\ Exits(scopes, l.scopes) /\ Shadowed(l.scopes)
      /\ Top = scopes[n] /\ n \in Nat /\ n > 1 /\ Suits(l, value)
  BY <1>2, <1>3, LeftOn
<1>5. IsCondition(Top.cond) /\ explicit \in BOOLEAN
  BY <1>1, LeftTypes, WalkMinds DEF Sound, Fields
<1>6. PICK at : at = TypeIn(l)
  OBVIOUS
<1>7. PICK g : g = Guarded(Top.cond, FALSE, at, Unknown)
  OBVIOUS
<1>8. IsType(at.flow) /\ Flowing(g.flow)
  <2>1. IsType(at.flow)
    BY <1>4, <1>6, TypeInIsType DEF Minds
  <2> QED
    BY <1>5, <1>7, <2>1, GuardedIsType, UnknownFlows
<1>9. PICK runs : runs = CASE run = "past" -> "here" [] run = "here" -> "past" [] OTHER -> run
  OBVIOUS
<1>10. Follow("else", g, Top.held, runs)
  BY <1>2, <1>6, <1>7, <1>9 DEF Else
<1>11. runs = "here" => run = "past"
  BY <1>9
<1>12. ASSUME Reached(scopes, n, run, value), runs = "here" PROVE Fits(g, value)
  <2>1. run = "past" /\ scopes[n].kind = "then"
    BY <1>1, <1>4, <1>11, <1>12
  <2>2. ~Satisfied(Top.cond, value)
    BY <1>4, <1>12, <2>1 DEF Reached
  <2>3. Satisfied(Top.cond, value) = FALSE
    BY <1>5, <2>2 DEF Satisfied, IsCondition
  <2>4. Good(scopes, n - 1, value)
    BY <1>12, <2>1 DEF Reached, Told
  <2>5. Len(l.scopes) = n - 1
    BY <1>3, <1>4 DEF Exits
  <2>6. Good(l.scopes, n - 1, value)
    BY <1>3, <1>4, <2>4, ExitGood
  <2>7. IsValue(value)
    BY <1>4 DEF Suits
  <2>8. Tells(at, value)
    BY <1>4, <1>5, <1>6, <2>5, <2>6, <2>7, TypeInTells
  <2> QED
    BY <1>5, <1>7, <1>8, <2>3, <2>7, <2>8, UnknownFits, UnknownFlows, GuardedTells
<1> QED
  BY <1>1, <1>3, <1>8, <1>10, <1>12, FollowTrue

(* The next clause of a switch.                                            *)
LEMMA CaseTrue == ASSUME TInv, TrueInv, Len(scopes) > 1, Case PROVE TrueInv'
<1>1. UNCHANGED <<explicit, documented>> /\ Top.kind = "case"
  BY DEF Case, Step
<1>2. PICK held \in BOOLEAN :
        Follow("case", Unknown, Top.held \/ (Top.entered /\ held),
               IF run = "past" /\ held THEN "here" ELSE run)
  BY DEF Case
<1> QED
  BY <1>1, <1>2, UnknownFits, UnknownFlows, FollowTrue

(* The handler of a try.                                                   *)
LEMMA CatchTrue == ASSUME TInv, TrueInv, Len(scopes) > 1, Catch PROVE TrueInv'
<1>1. UNCHANGED <<explicit, documented>> /\ Top.kind = "try"
  BY DEF Catch, Step
<1>2. PICK runs : Follow("catch", Unknown, Top.held, runs)
  BY DEF Catch
<1> QED
  BY <1>1, <1>2, UnknownFits, UnknownFlows, FollowTrue

-----------------------------------------------------------------------------
(* A statement ends, and the flow types tell the value or a cause is known. *)

(* The innermost frame tells at least what it told.                        *)
LEMMA GoodFits ==
  ASSUME NEW s, NEW x, OnTop(s, x), NEW n, n = Len(s), NEW v,
         Fits(s[n], v) => Fits(x[n], v), Good(s, n, v)
  PROVE  Good(x, n, v)
<1>1. n \in Nat /\ n \in 1..n
  BY DEF OnTop
<1>2. Good(s, n - 1, v)
  BY <1>1, GoodFewer
<1>3. ~WroteIn(s, n)
  BY <1>1 DEF WroteIn
<1>4. Fits(s[n], v)
  BY <1>1, <1>3 DEF Good
<1> QED
  BY <1>2, <1>4, GoodOnTop

(* The end of a while: what its condition narrowed may be wrong.           *)
LEMMA LoopOn ==
  ASSUME TInv, TrueInv, Len(scopes) > 1, NEW l, l = Left, NEW k, k = Len(scopes) - 1,
         NEW x, x = [l EXCEPT !.scopes[Len(Outer)].why =
                       IF Top.kind = "while" /\ Outer[Len(Outer)].flow # None THEN @ \cup {"loop"} ELSE @]
  PROVE  /\ Minds(x) /\ OnTop(l.scopes, x.scopes) /\ Len(l.scopes) = k
         /\ Suits(x, value)
         /\ \A v : Fits(l.scopes[k], v) => Fits(x.scopes[k], v)
         /\ Top.kind = "while" => \A v : Fits(x.scopes[k], v)
<1>1. /\ Minds(l) /\ Exits(scopes, l.scopes) /\ Len(scopes) \in Nat /\ Suits(l, value)
  BY LeftOn
<1>2. Len(l.scopes) = k /\ k \in Nat /\ k > 0 /\ k \in 1..Len(scopes) - 1 /\ l.scopes[k].flow = scopes[k].flow
  BY <1>1 DEF Exits
<1>3. Len(Outer) = k /\ Outer[k] = scopes[k]
  BY <1>2, WalkMinds, FrontLast DEF Outer
<1>4. PICK top : top = l.scopes[k]
  OBVIOUS
<1>5. PICK e : e = [top EXCEPT !.why = IF Top.kind = "while" /\ top.flow # None THEN @ \cup {"loop"} ELSE @]
  OBVIOUS
<1>6. Knows(l) /\ Typed(l.scopes) /\ Sound(top)
  BY <1>1, <1>2, <1>4, TopSound DEF Minds, Knows
<1>7. /\ e.flow = top.flow /\ e.wrote = top.wrote /\ e.kind = top.kind /\ e.cond = top.cond
      /\ \A f \in Static : e[f] = top[f]
      /\ e.why = top.why \/ e.why # {}
      /\ Top.kind = "while" /\ top.flow # None => e.why # {}
      /\ DOMAIN e = DOMAIN top
  BY <1>5, <1>6 DEF Sound, Fields, Static
<1>8. x = [l EXCEPT !.scopes[k].why =
             IF Top.kind = "while" /\ top.flow # None THEN @ \cup {"loop"} ELSE @]
  BY <1>2, <1>3, <1>4
<1>9. /\ {"typ", "scopes"} \subseteq DOMAIN x /\ "doubts" \in DOMAIN x /\ x.typ = l.typ /\ x.doubts = l.doubts
      /\ x.scopes = [l.scopes EXCEPT ![k] = e]
  BY <1>1, <1>4, <1>5, <1>8 DEF Minds, Knows
<1>10. OnTop(l.scopes, x.scopes) /\ x.scopes[k] = e
  BY <1>2, <1>4, <1>6, <1>7, <1>9, TopSet
<1>11. Knows(x)
  <2>1. Sound(e)
    BY <1>6, <1>7, SoundChange DEF Sound
  <2>2. k \in 1..Len(l.scopes)
    BY <1>2
  <2>3. Typed(x.scopes) /\ Len(x.scopes) = k
    BY <1>2, <1>6, <1>9, <2>1, <2>2, TypedReplace
  <2> QED
    BY <1>2, <1>6, <1>9, <2>3 DEF Knows
<1>12. Minds(x)
  <2>1. k \in 1..Len(l.scopes) /\ (x.scopes[k].wrote => l.scopes[k].wrote)
    BY <1>2, <1>4, <1>7, <1>10
  <2>2. Wrote(x.scopes) => Wrote(l.scopes)
    BY <1>2, <1>10, <2>1, OnTopWrote DEF Wrote
  <2> QED
    BY <1>1, <1>9, <1>11, <2>2 DEF Minds
<1>13. Suits(x, value)
  BY <1>1, <1>9 DEF Suits
<1> QED
  BY <1>2, <1>4, <1>7, <1>10, <1>12, <1>13 DEF Fits, Tells

(* The end of a do: its condition is collected, whether the run comes to   *)
(* it or not.                                                              *)
LEMMA DoneOn ==
  ASSUME explicit \in BOOLEAN, NEW w, Minds(w), NEW c, IsCondition(c), NEW u,
         NEW x, x = Skipped(Collected(w, c, u), c), NEW k, k = Len(w.scopes)
  PROVE  /\ Minds(x) /\ OnTop(w.scopes, x.scopes)
         /\ \A v : Suits(w, v) => Suits(x, v)
         /\ \A v : Suits(w, v) /\ Good(w.scopes, k, v) =>
              IF Rounds THEN u \in After(c.sets, {v}) => Suits(x, u) /\ Good(x.scopes, k, u)
              ELSE Good(x.scopes, k, v)
<1>1. PICK b : b = Collected(w, c, u)
  OBVIOUS
<1>2. /\ Minds(b) /\ OnTop(w.scopes, b.scopes) /\ (c.sets = None => b = w)
      /\ \A v : Suits(w, v) => Suits(b, v)
      /\ \A v : Suits(w, v) /\ Good(w.scopes, k, v) /\ u \in After(c.sets, {v})
           => Suits(b, u) /\ Good(b.scopes, k, u)
  BY <1>1, CollectedOn
<1>3. Len(b.scopes) = k /\ k \in Nat /\ k > 0
  BY <1>2 DEF OnTop
<1>4. /\ Minds(x) /\ OnTop(b.scopes, x.scopes)
      /\ \A v : Suits(b, v) => Suits(x, v)
      /\ \A v : Fits(b.scopes[k], v) => Fits(x.scopes[k], v)
      /\ ~Rounds /\ c.sets # None => \A v : Fits(x.scopes[k], v)
  <2>1. x = Skipped(b, c)
    BY <1>1
  <2>2. PICK n : n = Len(b.scopes)
    OBVIOUS
  <2>3. Minds(b)
    BY <1>2
  <2>4. Doubting(b, x, c, n)
    BY <2>1, <2>2, <2>3, SkippedOn
  <2> QED
    BY <1>3, <2>2, <2>4 DEF Doubting
<1>5. \A v : Good(b.scopes, k, v) => Good(x.scopes, k, v)
  BY <1>3, <1>4, GoodFits
<1>6. ASSUME NEW v, Suits(w, v), Good(w.scopes, k, v)
      PROVE  IF Rounds THEN u \in After(c.sets, {v}) => Suits(x, u) /\ Good(x.scopes, k, u)
             ELSE Good(x.scopes, k, v)
  <2>1. CASE Rounds
    BY <1>2, <1>4, <1>5, <1>6, <2>1
  <2>2. CASE ~Rounds /\ c.sets = None
    BY <1>2, <1>5, <1>6, <2>2
  <2>3. CASE ~Rounds /\ c.sets # None
    <3>1. Good(w.scopes, k - 1, v)
      BY <1>3, <1>6, GoodFewer
    <3>2. Good(b.scopes, k - 1, v)
      BY <1>2, <1>3, <3>1, GoodBelow
    <3>3. Fits(x.scopes[k], v)
      BY <1>4, <2>3
    <3> QED
      BY <1>3, <1>4, <2>3, <3>2, <3>3, GoodOnTop
  <2> QED
    BY <2>1, <2>2, <2>3
<1>7. OnTop(w.scopes, x.scopes)
  BY <1>2, <1>4, OnTopTwice
<1>8. \A v : Suits(w, v) => Suits(x, v)
  BY <1>2, <1>4
<1> QED
  BY <1>4, <1>6, <1>7, <1>8

(* Where the run is after a statement.                                     *)
LEMMA PassedIs ==
  ASSUME NEW v
  PROVE  /\ Top.entered => Passed(v) # "past"
         /\ ~Top.entered => Passed(v) = run
<1>1. CASE Rounds
  BY <1>1 DEF Passed, Rounds
<1>2. CASE ~Rounds
  <2>1. PICK back : back = (Top.entered /\ (run = "past" \/ (run = "break" /\ Top.kind \in Loops \cup {"case"})))
    OBVIOUS
  <2>2. Passed(v) = IF back THEN "here" ELSE run
    <3>1. CASE back
      BY <1>2, <2>1, <3>1 DEF Passed
    <3>2. CASE ~back
      BY <1>2, <2>1, <3>2 DEF Passed
    <3> QED
      BY <2>1, <3>1, <3>2
  <2> QED
    BY <2>1, <2>2
<1> QED
  BY <1>1, <1>2

(* What a statement that the run came to leaves tells the value, whatever  *)
(* the run did in it.                                                      *)
LEMMA LeaveGood ==
  ASSUME TInv, TrueInv, Len(scopes) > 1, NEW n, n = Len(scopes), Reached(scopes, n, run, value),
         NEW l, l = Left,
         NEW w, Minds(w), OnTop(l.scopes, w.scopes),
         \A u : Fits(l.scopes[n - 1], u) => Fits(w.scopes[n - 1], u),
         Top.kind = "while" => \A u : Fits(w.scopes[n - 1], u),
         Suits(w, value),
         NEW v, v \in LET step == IF Rounds THEN After(Top.step, {value}) ELSE {value} IN
                      IF Rounds /\ Top.kind # "foreach" THEN After(Top.cond.sets, step) ELSE step,
         NEW x, x = IF Top.kind = "do" THEN Skipped(Collected(w, Top.cond, v), Top.cond) ELSE w
  PROVE  Suits(x, v) /\ Good(x.scopes, n - 1, v)
<1>1. /\ Minds(l) /\ Exits(scopes, l.scopes) /\ Assigns(scopes) /\ Top = scopes[n] /\ n \in Nat /\ n > 1
      /\ Len(l.scopes) = n - 1 /\ explicit \in BOOLEAN /\ Sound(Top)
  <2>1. Minds(l) /\ Exits(scopes, l.scopes) /\ Top = scopes[n] /\ n \in Nat
    BY LeftOn
  <2> QED
    BY <2>1, WalkMinds, LeftTypes DEF Exits, TrueInv
<1>2. PICK k : k = n - 1
  OBVIOUS
<1>3. k \in Nat /\ k > 0 /\ k < n /\ Len(w.scopes) = k /\ Len(l.scopes) = k
  BY <1>1, <1>2 DEF OnTop
<1>4. Top.entered
  BY <1>1 DEF Reached, Came
<1>5. Top.step # None => Top.kind = "for" /\ Top.wrote
  BY <1>1 DEF Assigns
<1>6. \A t : t # None => \A z : \A u \in After(t, z) : IsValue(u)
  BY ValuesAre DEF After, Outcomes
<1>a. ASSUME IsValue(v), w.scopes[k].wrote PROVE Suits(w, v)
  <2>1. Wrote(w.scopes)
    BY <1>a, <1>3 DEF Wrote
  <2> QED
    BY <1>a, <1>1, <2>1, MindsSuit DEF Minds
<1>7. \A u : Good(l.scopes, k, u) => Good(w.scopes, k, u)
  BY <1>2, <1>3, GoodFits
<1>8. \A u : Good(scopes, k, u) => Good(w.scopes, k, u)
  BY <1>1, <1>3, <1>7, ExitGood
<1>9. PICK step : step = IF Rounds THEN After(Top.step, {value}) ELSE {value}
  OBVIOUS
<1>10. v \in IF Rounds /\ Top.kind # "foreach" THEN After(Top.cond.sets, step) ELSE step
  BY <1>9
<1>11. Top.kind # "for" => step = {value}
  BY <1>5, <1>9 DEF After
<1>12. Top.kind # "while" => Good(scopes, k, value)
  <2>1. Top.kind # "while" => Told(scopes, n, run) \in {k, n}
    BY <1>1, <1>2 DEF Told
  <2>2. Top.kind # "while" => Good(scopes, k, value) \/ Good(scopes, n, value)
    BY <2>1 DEF Reached
  <2> QED
    BY <1>1, <1>3, <2>2, GoodFewer
<1>13. CASE Top.kind = "while"
  <2>1. x = w /\ step = {value}
    BY <1>11, <1>13
  <2>2. Good(scopes, k - 1, value)
    <3>1. Told(scopes, n, run) \in {k - 1, k, n}
      BY <1>1, <1>2 DEF Told
    <3>2. Good(scopes, k - 1, value) \/ Good(scopes, k, value) \/ Good(scopes, n, value)
      BY <3>1 DEF Reached
    <3> QED
      BY <1>1, <1>3, <3>2, GoodFewer
  <2>3. Good(l.scopes, k - 1, value)
    BY <1>1, <1>3, <2>2, ExitGood
  <2>4. \A u : Fits(w.scopes[k], u)
    BY <1>2, <1>13
  <2>5. Good(w.scopes, k, value)
    BY <1>3, <2>3, <2>4, GoodOnTop
  <2>6. CASE Rounds /\ Top.cond.sets # None
    <3>1. v \in After(Top.cond.sets, step)
      BY <1>10, <1>13, <2>6
    <3>2. scopes[k].wrote
      BY <1>1, <1>2, <1>13, <2>6 DEF Assigns
    <3>3. l.scopes[k].wrote
      <4>1. k \in 1..Len(scopes) - 1
        BY <1>1, <1>2, <1>3
      <4> QED
        BY <1>1, <3>2, <4>1 DEF Exits
    <3>4. w.scopes[k].wrote
      BY <1>3, <3>3 DEF OnTop
    <3>5. Good(w.scopes, k, v)
      BY <1>3, <2>4, <3>4, GoodOnTop
    <3> QED
      BY <1>a, <1>2, <1>6, <2>1, <2>6, <3>1, <3>4, <3>5
  <2>7. CASE ~(Rounds /\ Top.cond.sets # None)
    <3>1. v = value
      BY <1>10, <2>1, <2>7 DEF After
    <3> QED
      BY <1>1, <1>2, <2>1, <2>5, <3>1
  <2> QED
    BY <2>6, <2>7
<1>14. CASE Top.kind = "do"
  <2>1. IsCondition(Top.cond) /\ step = {value} /\ Good(w.scopes, k, value)
    BY <1>1, <1>8, <1>11, <1>12, <1>14 DEF Sound
  <2>2. PICK c : c = Top.cond
    OBVIOUS
  <2>3. x = Skipped(Collected(w, c, v), c)
    BY <1>14, <2>2
  <2>4. /\ Suits(x, value)
        /\ IF Rounds THEN v \in After(c.sets, {value}) => Suits(x, v) /\ Good(x.scopes, k, v)
           ELSE Good(x.scopes, k, value)
    BY <1>1, <1>3, <2>1, <2>2, <2>3, DoneOn
  <2>5. CASE Rounds
    <3>1. v \in After(c.sets, {value})
      BY <1>10, <1>14, <2>1, <2>2, <2>5
    <3> QED
      BY <1>2, <2>4, <2>5, <3>1
  <2>6. CASE ~Rounds
    <3>1. v = value
      BY <1>10, <2>1, <2>6
    <3> QED
      BY <1>1, <1>2, <2>4, <2>6, <3>1
  <2> QED
    BY <2>5, <2>6
<1>15. CASE Top.kind = "for"
  <2>1. x = w /\ Good(w.scopes, k, value)
    BY <1>8, <1>12, <1>15
  <2>2. CASE v = value
    BY <1>1, <1>2, <2>1, <2>2
  <2>3. CASE v # value
    <3>1. Rounds /\ v \in After(Top.cond.sets, After(Top.step, {value}))
      BY <1>9, <1>10, <1>15, <2>3
    <3>2. Top.cond.sets # None \/ Top.step # None
      BY <2>3, <3>1 DEF After
    <3>3. IsValue(v)
      <4>1. CASE Top.cond.sets # None
        BY <1>6, <3>1, <4>1
      <4>2. CASE Top.cond.sets = None
        <5>1. v \in After(Top.step, {value})
          BY <3>1, <4>2 DEF After
        <5> QED
          BY <1>6, <3>2, <4>2, <5>1
      <4> QED
        BY <4>1, <4>2
    <3>4. Top.wrote
      BY <1>1, <1>5, <1>15, <3>2 DEF Assigns
    <3>5. Good(l.scopes, k, v)
      BY <1>1, <1>3, <3>4, ExitGood
    <3>6. w.scopes[k].wrote
      <4>1. k \in 1..Len(scopes) - 1
        BY <1>1, <1>2, <1>3
      <4>2. l.scopes[k].wrote
        BY <1>1, <3>4, <4>1 DEF Exits
      <4> QED
        BY <1>3, <4>2 DEF OnTop
    <3> QED
      BY <1>a, <1>2, <1>7, <2>1, <3>3, <3>5, <3>6
  <2> QED
    BY <2>2, <2>3
<1>16. CASE Top.kind \notin {"while", "do", "for"}
  <2>1. x = w /\ step = {value} /\ Good(w.scopes, k, value)
    BY <1>8, <1>11, <1>12, <1>16
  <2>2. Rounds => Top.kind = "foreach"
    BY <1>16 DEF Rounds, Loops
  <2>3. v = value
    BY <1>10, <2>1, <2>2
  <2> QED
    BY <1>1, <1>2, <2>1, <2>3
<1> QED
  BY <1>13, <1>14, <1>15, <1>16

(* The end of a statement.                                                 *)
LEMMA LeaveTrue == ASSUME TInv, TrueInv, Leave PROVE TrueInv'
<1>1. Len(scopes) > 1 /\ UNCHANGED <<explicit, documented>>
  BY DEF Leave
<1>2. PICK n : n = Len(scopes)
  OBVIOUS
<1>3. PICK l : l = Left
  OBVIOUS
<1>4. /\ Minds(l) /\ Exits(scopes, l.scopes) /\ Shadowed(l.scopes) /\ Assigns(l.scopes)
      /\ Top = scopes[n] /\ n \in Nat /\ n > 1
  BY <1>1, <1>2, <1>3, LeftOn
<1>a. PICK v :
         /\ v = value' /\ run' = Passed(v)
         /\ v \in LET step == IF Rounds THEN After(Top.step, {value}) ELSE {value} IN
                  IF Rounds /\ Top.kind # "foreach" THEN After(Top.cond.sets, step) ELSE step
         /\ LET known == [Left EXCEPT !.scopes[Len(Outer)].why =
                           IF Top.kind = "while" /\ Outer[Len(Outer)].flow # None
                           THEN @ \cup {"loop"} ELSE @] IN
            Keep(IF Top.kind = "do" THEN Skipped(Collected(known, Top.cond, v), Top.cond) ELSE known)
  BY DEF Leave
<1>5. PICK w : w = [l EXCEPT !.scopes[Len(Outer)].why =
                     IF Top.kind = "while" /\ Outer[Len(Outer)].flow # None THEN @ \cup {"loop"} ELSE @]
  OBVIOUS
<1>6. PICK k : k = n - 1
  OBVIOUS
<1>7. /\ Minds(w) /\ OnTop(l.scopes, w.scopes) /\ Len(l.scopes) = k /\ Suits(w, value)
      /\ \A u : Fits(l.scopes[k], u) => Fits(w.scopes[k], u)
      /\ Top.kind = "while" => \A u : Fits(w.scopes[k], u)
  BY <1>1, <1>2, <1>3, <1>5, <1>6, LoopOn
<1>8. PICK x : x = IF Top.kind = "do" THEN Skipped(Collected(w, Top.cond, v), Top.cond) ELSE w
  OBVIOUS
<1>9. Minds(x) /\ OnTop(w.scopes, x.scopes) /\ Suits(x, value)
  <2>1. CASE Top.kind = "do"
    <3>1. IsCondition(Top.cond) /\ explicit \in BOOLEAN
      BY <2>1, LeftTypes, WalkMinds DEF Sound
    <3>2. PICK c : c = Top.cond
      OBVIOUS
    <3>3. x = Skipped(Collected(w, c, v), c)
      BY <1>8, <2>1, <3>2
    <3>4. Minds(x) /\ OnTop(w.scopes, x.scopes) /\ \A u : Suits(w, u) => Suits(x, u)
      BY <1>7, <3>1, <3>2, <3>3, DoneOn
    <3> QED
      BY <1>7, <3>4
  <2>2. CASE Top.kind # "do"
    <3>1. x = w
      BY <1>8, <2>2
    <3>2. OnTop(w.scopes, w.scopes)
      BY <1>7, TypedLen DEF OnTop, Minds, Knows
    <3> QED
      BY <1>7, <3>1, <3>2
  <2> QED
    BY <2>1, <2>2
<1>10. OnTop(l.scopes, x.scopes)
  BY <1>7, <1>9, OnTopTwice
<1>11. Shadowed(x.scopes) /\ Assigns(x.scopes)
  BY <1>4, <1>10, OnTopKeeps
<1>13. v \in LET step == IF Rounds THEN After(Top.step, {value}) ELSE {value} IN
             IF Rounds /\ Top.kind # "foreach" THEN After(Top.cond.sets, step) ELSE step
  BY <1>a
<1>14. Keep(x) /\ run' = Passed(v)
  BY <1>3, <1>5, <1>8, <1>a
<1>15. PICK j : Reached(scopes, j, run, value)
  BY DEF TrueInv
<1>16. Came(scopes, j) /\ j \in 1..n
  BY <1>2, <1>15 DEF Reached, Came
<1>17. Top.entered <=> j = n
  <2>1. Top.entered <=> n <= j
    BY <1>2, <1>4, <1>16 DEF Came
  <2> QED
    BY <1>4, <1>16, <2>1
<1>18. Came(x.scopes, IF j = n THEN j - 1 ELSE j)
  <2>1. Came(l.scopes, IF j = n THEN j - 1 ELSE j)
    BY <1>2, <1>4, <1>16, ExitKeeps
  <2> QED
    BY <1>10, <2>1, OnTopKeeps
<1>19. CASE j = n
  <2>1. Suits(x, v) /\ Good(x.scopes, k, v)
    <3>1. Reached(scopes, n, run, value)
      BY <1>15, <1>19
    <3>2. /\ \A u : Fits(l.scopes[n - 1], u) => Fits(w.scopes[n - 1], u)
          /\ Top.kind = "while" => \A u : Fits(w.scopes[n - 1], u)
      BY <1>6, <1>7
    <3>3. Suits(x, v) /\ Good(x.scopes, n - 1, v)
      BY <1>1, <1>2, <1>3, <1>7, <1>8, <1>13, <3>1, <3>2, LeaveGood
    <3> QED
      BY <1>6, <3>3
  <2>2. Came(x.scopes, k) /\ Len(x.scopes) = k /\ run' # "past"
    BY <1>6, <1>7, <1>10, <1>14, <1>17, <1>18, <1>19, PassedIs DEF OnTop
  <2>3. Told(x.scopes, k, run') = IF run' = "here" THEN k ELSE k - 1
    BY <2>2 DEF Told
  <2>4. k \in Int /\ Good(x.scopes, k - 1, v)
    <3>1. k \in Int /\ k - 1 \in Int /\ k - 1 <= k
      BY <1>4, <1>6
    <3> QED
      BY <2>1, <3>1, GoodFewer
  <2>5. Reached(x.scopes, k, run', v)
    BY <2>1, <2>2, <2>3, <2>4 DEF Reached
  <2> QED
    BY <1>1, <1>9, <1>11, <1>a, <1>14, <2>1, <2>5, TrueNext
<1>20. CASE j # n
  <2>1. run' = run /\ run # "here" /\ Came(x.scopes, j) /\ j \in 1..k
    <3>1. run' = run
      BY <1>14, <1>17, <1>20, PassedIs
    <3>2. run # "here"
      BY <1>2, <1>15, <1>20 DEF Reached
    <3>3. Came(x.scopes, j)
      BY <1>18, <1>20
    <3> QED
      BY <1>4, <1>6, <1>16, <1>20, <3>1, <3>2, <3>3
  <2>2. v = value
    <3>1. ~Rounds
      BY <1>17, <1>20 DEF Rounds
    <3> QED
      BY <1>13, <3>1
  <2>3. PICK m : m = Told(scopes, j, run)
    OBVIOUS
  <2>4. m = Told(l.scopes, j, run) /\ l.scopes[j].kind = scopes[j].kind /\ l.scopes[j].cond = scopes[j].cond
    <3>1. l.scopes[j].kind = scopes[j].kind /\ l.scopes[j].cond = scopes[j].cond
      BY <1>2, <1>4, <1>6, <2>1 DEF Exits, Static
    <3> QED
      BY <2>3, <3>1 DEF Told
  <2>5. m \in Int /\ m < n
    BY <1>4, <1>16, <2>1, <2>3 DEF Told
  <2>6. Good(l.scopes, m, value)
    BY <1>2, <1>4, <1>15, <2>3, <2>5, ExitGood DEF Reached
  <2>7. Came(l.scopes, j)
    <3>1. Came(l.scopes, IF j = n THEN j - 1 ELSE j)
      BY <1>2, <1>4, <1>16, ExitKeeps
    <3> QED
      BY <1>20, <3>1
  <2>8. Reached(l.scopes, j, run, value)
    BY <1>15, <2>1, <2>3, <2>4, <2>6, <2>7 DEF Reached
  <2>9. Reached(x.scopes, j, run', v)
    BY <1>10, <2>1, <2>2, <2>8, ReachedOnTop
  <2> QED
    BY <1>1, <1>9, <1>11, <1>a, <1>14, <2>2, <2>9, TrueNext
<1> QED
  BY <1>19, <1>20

(* In every body, on every way through it, the frames tell what the run    *)
(* may hold, or why they may not.                                          *)
THEOREM Truth == Spec => []TrueInv
<1>1. ASSUME IInv, TInv, TrueInv, [Next]_vars PROVE TrueInv'
  <2>1. CASE UNCHANGED vars
    <3>1. UNCHANGED <<explicit, documented, typ, scopes, run, value, doubts>>
      BY <2>1 DEF vars
    <3>2. Settled' /\ Suits(Walk, value)' /\ Shadowed(scopes)' /\ Assigns(scopes)'
      BY <1>1, <3>1 DEF TrueInv, Settled, Suits, Walk
    <3>3. (\E j : Reached(scopes, j, run, value))'
      BY <1>1, <3>1 DEF TrueInv
    <3> QED
      BY <3>2, <3>3 DEF TrueInv
  <2>2. CASE Next
    <3>1. ASSUME NEW t \in family.assigned, Assign(t) PROVE TrueInv'
      BY <1>1, <3>1, AssignTrue
    <3>2. ASSUME NEW c \in family.conditions, Then(c) \/ While(c) \/ Do(c) PROVE TrueInv'
      BY <1>1, <3>2, ThenTrue, WhileTrue, DoTrue
    <3>3. ASSUME NEW c \in family.conditions, NEW t \in family.assigned \cup {None}, For(c, t)
          PROVE  TrueInv'
      BY <1>1, <3>3, ForTrue
    <3>4. ASSUME NEW kind \in {"block", "try"}, Block(kind) PROVE TrueInv'
      BY <1>1, <3>4, BlockTrue
    <3>5. ASSUME NEW to \in {"break", "continue", "out", "throw"}, Jump(to) PROVE TrueInv'
      BY <1>1, <3>5, JumpTrue
    <3>6. ASSUME Else \/ Case \/ Catch PROVE TrueInv'
      <4>1. Len(scopes) > 1
        BY <1>1, <3>6, TopFacts DEF Else, Case, Catch
      <4> QED
        BY <1>1, <3>6, <4>1, ElseTrue, CaseTrue, CatchTrue
    <3>7. CASE ForEach \/ Switch \/ Leave
      BY <1>1, <3>7, ForEachTrue, SwitchTrue, LeaveTrue
    <3> QED
      BY <2>2, <3>1, <3>2, <3>3, <3>4, <3>5, <3>6, <3>7, Zenon DEF Next
  <2> QED
    BY <1>1, <2>1, <2>2
<1> QED
  BY <1>1, InitTrue, Invariance, Typing, PTL DEF Spec

(* Wherever the run comes, the type there stands for the value it has, or  *)
(* one of the causes is known (WrongHasCause): declarations, assignments   *)
(* and narrowing in branches, loops, switches, jumps and exceptions.       *)
THEOREM WrongHasCauseHolds == Spec => []WrongHasCause
<1>1. TInv /\ TrueInv => WrongHasCause
  <2> SUFFICES ASSUME TInv, TrueInv, live PROVE Denotes(Here.flow, value) \/ Here.why # {}
    BY DEF WrongHasCause
  <2>1. Good(scopes, Len(scopes), value) /\ Shadowed(scopes) /\ Suits(Walk, value)
    BY LiveGood DEF TrueInv
  <2>2. PICK h : h = TypeIn(Walk)
    OBVIOUS
  <2>3. Tells(h, value)
    BY <2>1, <2>2, WalkMinds, TypeInTells
  <2> QED
    BY <2>2, <2>3 DEF Here, Tells
<1> QED
  BY <1>1, Typing, Truth, PTL
=============================================================================
