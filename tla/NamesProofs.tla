---------------------------- MODULE NamesProofs -----------------------------
(***************************************************************************)
(* Proofs about Names, for any finite set of scripts and any programs, of  *)
(* any length, that include each other in any way and delegate as they     *)
(* like: what resolving finds at a place is what the handlers find there   *)
(* later, and resolving fails only for a reason in the scripts.            *)
(***************************************************************************)
EXTENDS Names, SequenceTheorems, FiniteSetTheorems, WellFoundedInduction, TLAPS


(* The records of the model, and its type invariant.                       *)
Frames == [file : Scripts, waits : Statements \cup {None}, read : BOOLEAN, todo : SUBSET (Nat \ {0})]
Symbols == [file : Scripts, at : Nat] \cup {None}
Answers == [file : Scripts, at : Nat \ {0}, late : BOOLEAN, in : Tables, symbol : Symbols]

TypeOK ==
  /\ text \in [Scripts -> Seq(Statements)]
  /\ stack \in Seq(Frames)
  /\ known \in SUBSET Scripts
  /\ members \in [Scripts -> [Places -> Seq(Nat)]]
  /\ delegate \in [Scripts -> [Tables -> Tables \cup {None}]]
  /\ imports \in [Scripts -> [Tables -> Seq(Scripts)]]
  /\ family \in Families
  /\ answers \in Seq(Answers)
  /\ failed \in {"none", "cycle", "overflow"}

(* The scripts on the stack are different, none of them is resolved yet,   *)
(* and each is there because the one below it reaches it.                  *)
Stacked ==
  /\ \A m, n \in DOMAIN stack : stack[m].file = stack[n].file => m = n
  /\ Asking \cap known = {}
  /\ \A n \in DOMAIN stack : n > 1 => stack[n].file \in Reached(Needs(stack[n - 1].file))
  /\ \A n \in DOMAIN stack : ~ stack[n].read => stack[n].todo = {}

(* What is recorded of a script is what its statements say.                *)
Recorded ==
  /\ \A f \in Scripts, t \in Tables : ToSet(imports[f][t]) \subseteq Needs(f)
  /\ \A f \in Scripts, t \in Tables : delegate[f][t] = LastDelegate(f, t)

Same(a) ==
  LET r == ResolveName(a.file, a.at, a.late) IN ~ Stopped(r) /\ r.symbol = a.symbol
Finished(f) == f \in known \/ \E n \in DOMAIN stack : stack[n].file = f /\ stack[n].read
(* An answer about a name stays what it was, or its script has changed     *)
(* what is before it.                                                      *)
Settled(a) ==
  /\ a.late => Finished(a.file)
  /\ ~ a.late => a.at <= Len(text[a.file])
  /\ Same(a) \/ (~ a.late /\ Unsettled(a))
Kept == \A n \in DOMAIN answers : answers[n].in = "this" => Settled(answers[n])

IInv == TypeOK /\ Stacked /\ Recorded /\ Kept /\ CrashHasCause

(* A set of naturals that is not empty has a least element.                *)
LEMMA Least ==
  ASSUME NEW T, T \subseteq Nat, T # {}
  PROVE  \E n \in T : \A m \in T : n <= m
<1>1. IsWellFoundedOn(OpToRel(<, Nat), Nat)
  BY NatLessThanWellFounded
<1> DEFINE R == {ss \in Nat \X Nat : ss[1] < ss[2]}
<1>2. IsWellFoundedOn(R, Nat)
  BY <1>1 DEF OpToRel
<1> HIDE DEF R
<1>3. PICK n \in T : \A m \in T : <<m, n>> \notin R
  BY <1>2, WFMin, Zenon
<1>4. ASSUME NEW m \in T, m < n
      PROVE  FALSE
  <2>1. <<m, n>> \in Nat \X Nat
    OBVIOUS
  <2>2. <<m, n>>[1] = m /\ <<m, n>>[2] = n
    OBVIOUS
  <2>3. <<m, n>>[1] < <<m, n>>[2]
    BY <1>4, <2>2, Zenon
  <2>4. <<m, n>> \in R
    BY <2>1, <2>3, Zenon DEF R
  <2> QED
    BY <1>3, <2>4, Zenon
<1> QED
  BY <1>4

(* A set that holds 0, and with a number the next one, holds all of them.  *)
LEMMA SetInduction ==
  ASSUME NEW T, 0 \in T, \A n \in Nat : n \in T => n + 1 \in T
  PROVE  Nat \subseteq T
<1> SUFFICES ASSUME Nat \ T # {} PROVE FALSE
  OBVIOUS
<1>1. PICK n \in Nat \ T : \A m \in Nat \ T : n <= m
  BY Least
<1>2. n - 1 \in Nat \ T /\ n - 1 < n
  BY <1>1
<1> QED
  BY <1>1, <1>2

Items == [file : Scripts, how : Hows]

(* A step of a gathering that is not done makes it one of fewer scripts    *)
(* not seen, or of less to look at, or done.                               *)
Less(b, a) ==
  \/ Gathered(b)
  \/ Cardinality(Scripts \ b.seen) < Cardinality(Scripts \ a.seen)
  \/ b.seen = a.seen /\ Len(b.todo) < Len(a.todo)
Falls(N) == \A a \in Gatherings : ~ Gathered(a) => N[a] \in Gatherings /\ Less(N[a], a)

(* F repeats the steps N until a gathering is done.                        *)
Repeats(N, F) == F = [a \in Gatherings |-> IF Gathered(a) THEN a ELSE F[N[a]]]

(* The fields of a gathering, and the measures of what is left of it.      *)
LEMMA GatheringFacts ==
  ASSUME NEW a \in Gatherings
  PROVE  /\ a.got \in Seq([file : Scripts, how : Hows]) /\ a.seen \subseteq Scripts
         /\ a.missing \in Scripts \cup {None} /\ a.todo \in Seq([file : Scripts, how : Hows])
         /\ Len(a.todo) \in Nat /\ Cardinality(Scripts \ a.seen) \in Nat
<1>1. /\ a.got \in Seq([file : Scripts, how : Hows]) /\ a.seen \subseteq Scripts
      /\ a.missing \in Scripts \cup {None} /\ a.todo \in Seq([file : Scripts, how : Hows])
  BY DEF Gatherings
<1>2. IsFiniteSet(Scripts \ a.seen)
  BY NamesAssumption, FS_Difference
<1> QED
  BY <1>1, <1>2, FS_CardinalityType, LenProperties

(* Induction over gatherings: what holds of those that are done, and of    *)
(* one when it holds of the next, holds of all.                            *)
LEMMA GatherInduction ==
  ASSUME NEW N, Falls(N), NEW Q,
         \A a \in Gatherings : Gathered(a) \/ N[a] \in Q => a \in Q
  PROVE  Gatherings \subseteq Q
<1> DEFINE Unseen(a) == Cardinality(Scripts \ a.seen)
           T == {n \in Nat : \A a \in Gatherings : Unseen(a) < n => a \in Q}
<1>1. \A a \in Gatherings : Unseen(a) \in Nat /\ Len(a.todo) \in Nat
  BY GatheringFacts
<1>2. 0 \in T
  BY <1>1
<1>3. ASSUME NEW n \in Nat, n \in T
      PROVE  n + 1 \in T
  <2> DEFINE U == {m \in Nat : \A a \in Gatherings : Unseen(a) <= n /\ Len(a.todo) < m => a \in Q}
  <2>1. 0 \in U
    BY <1>1
  <2>2. ASSUME NEW m \in Nat, m \in U
        PROVE  m + 1 \in U
    <3> SUFFICES ASSUME NEW a \in Gatherings, Unseen(a) <= n, Len(a.todo) < m + 1
                 PROVE  a \in Q
      OBVIOUS
    <3> HIDE DEF Unseen
    <3>1. CASE Gathered(a)
      BY <3>1
    <3>2. CASE ~ Gathered(a)
      <4>1. PICK b : b = N[a]
        OBVIOUS
      <4>2. b \in Gatherings /\ (Gathered(b) \/ Unseen(b) < Unseen(a)
                                  \/ (Unseen(b) = Unseen(a) /\ Len(b.todo) < Len(a.todo)))
        <5>1. b \in Gatherings /\ Less(b, a)
          BY <3>2, <4>1 DEF Falls
        <5>2. b.seen = a.seen => Unseen(b) = Unseen(a)
          BY DEF Unseen
        <5>3. Unseen(b) = Cardinality(Scripts \ b.seen) /\ Unseen(a) = Cardinality(Scripts \ a.seen)
          BY DEF Unseen
        <5>4. Gathered(b) \/ Unseen(b) < Unseen(a) \/ (b.seen = a.seen /\ Len(b.todo) < Len(a.todo))
          BY <5>1, <5>3, Zenon DEF Less
        <5> QED
          BY <5>1, <5>2, <5>4, Zenon
      <4>3. Unseen(b) \in Nat /\ Unseen(a) \in Nat /\ Len(b.todo) \in Nat /\ Len(a.todo) \in Nat
        BY <1>1, <4>2
      <4>4. Unseen(b) < n => b \in Q
        BY <1>3, <4>2
      <4>5. Unseen(b) <= n /\ Len(b.todo) < m => b \in Q
        BY <2>2, <4>2
      <4>6. b \in Q
        BY <4>2, <4>3, <4>4, <4>5
      <4> QED
        BY <4>1, <4>6
    <3> QED
      BY <3>1, <3>2
  <2>3. Nat \subseteq U
    <3> HIDE DEF U
    <3> QED
      BY <2>1, <2>2, SetInduction
  <2>4. ASSUME NEW a \in Gatherings, Unseen(a) < n + 1
        PROVE  a \in Q
    <3> HIDE DEF Unseen
    <3>1. Len(a.todo) + 1 \in U /\ Unseen(a) <= n /\ Len(a.todo) < Len(a.todo) + 1
      BY <1>1, <2>3, <2>4
    <3> QED
      BY <3>1
  <2> QED
    BY <2>4
<1>4. Nat \subseteq T
  <2> HIDE DEF T
  <2> QED
    BY <1>2, <1>3, SetInduction
<1>5. ASSUME NEW a \in Gatherings
      PROVE  a \in Q
  <2> HIDE DEF Unseen
  <2>1. Unseen(a) + 1 \in T /\ Unseen(a) < Unseen(a) + 1
    BY <1>1, <1>4
  <2> QED
    BY <2>1
<1> QED
  BY <1>5

(* What the steps keep holds of the gathering that is done.                *)
LEMMA GatherInvariant ==
  ASSUME NEW N, Falls(N), NEW F, Repeats(N, F), NEW Q,
         \A b \in Gatherings \cap Q : ~ Gathered(b) => N[b] \in Q,
         NEW a \in Gatherings \cap Q
  PROVE  F[a] \in Gatherings \cap Q /\ Gathered(F[a])
<1> DEFINE P == {b \in Gatherings : b \in Q => F[b] \in Gatherings \cap Q /\ Gathered(F[b])}
<1>1. \A b \in Gatherings : F[b] = IF Gathered(b) THEN b ELSE F[N[b]]
  BY DEF Repeats
<1>2. ASSUME NEW b \in Gatherings, Gathered(b) \/ N[b] \in P
      PROVE  b \in P
  <2>1. CASE Gathered(b)
    BY <1>1, <2>1
  <2>2. CASE ~ Gathered(b)
    <3>1. b \in Q => N[b] \in Q
      BY <2>2
    <3> QED
      BY <1>1, <1>2, <2>2, <3>1
  <2> QED
    BY <2>1, <2>2
<1>3. Gatherings \subseteq P
  <2> HIDE DEF P
  <2> QED
    BY <1>2, GatherInduction
<1> QED
  BY <1>3

(* Steps that differ only where a script is missing gather the same where  *)
(* none is.                                                                *)
LEMMA GatherSame ==
  ASSUME NEW N, Falls(N), NEW F, Repeats(N, F), NEW M, NEW G, Repeats(M, G),
         \A b \in Gatherings : ~ Gathered(b) => N[b].missing # None \/ M[b] = N[b],
         NEW a \in Gatherings, F[a].missing = None
  PROVE  G[a] = F[a]
<1> DEFINE P == {b \in Gatherings : F[b].missing = None => G[b] = F[b]}
<1>1. \A b \in Gatherings : F[b] = IF Gathered(b) THEN b ELSE F[N[b]]
  BY DEF Repeats
<1>2. \A b \in Gatherings : G[b] = IF Gathered(b) THEN b ELSE G[M[b]]
  BY DEF Repeats
<1>3. ASSUME NEW b \in Gatherings, Gathered(b) \/ N[b] \in P
      PROVE  b \in P
  <2>1. CASE Gathered(b)
    BY <1>1, <1>2, <2>1
  <2>2. CASE ~ Gathered(b) /\ N[b].missing # None
    <3>1. N[b] \in Gatherings /\ Gathered(N[b])
      BY <2>2 DEF Falls, Gathered
    <3>2. F[b].missing # None
      BY <1>1, <2>2, <3>1
    <3> QED
      BY <3>2
  <2>3. CASE ~ Gathered(b) /\ M[b] = N[b]
    BY <1>1, <1>2, <1>3, <2>3
  <2> QED
    BY <2>1, <2>2, <2>3
<1>4. Gatherings \subseteq P
  <2> HIDE DEF P
  <2> QED
    BY <1>3, GatherInduction
<1> QED
  BY <1>4

(* A gathering and all that its steps lead to.                             *)
Orbit(N, a) ==
  {b \in Gatherings : \A Q \in SUBSET Gatherings :
     a \in Q /\ (\A c \in Q : ~ Gathered(c) => N[c] \in Q) => b \in Q}

(* The steps can be repeated: there is a function that does it.            *)
LEMMA RepeatsExist ==
  ASSUME NEW N, Falls(N)
  PROVE  \E F : Repeats(N, F)
<1>1. PICK F : F = [a \in Gatherings |-> CHOOSE b \in Orbit(N, a) : Gathered(b)]
  OBVIOUS
<1>2. \A a \in Gatherings : a \in Orbit(N, a)
  BY DEF Orbit
<1>3. ASSUME NEW a \in Gatherings, Gathered(a)
      PROVE  Orbit(N, a) = {a}
  <2>1. {a} \in SUBSET Gatherings /\ \A c \in {a} : Gathered(c)
    BY <1>3
  <2>2. \A b \in Orbit(N, a) : b \in {a}
    BY <2>1 DEF Orbit
  <2> QED
    BY <1>2, <2>2
<1>4. ASSUME NEW a \in Gatherings, ~ Gathered(a)
      PROVE  Orbit(N, a) = {a} \cup Orbit(N, N[a])
  <2>1. N[a] \in Gatherings
    BY <1>4 DEF Falls
  <2>2. Orbit(N, N[a]) \subseteq Orbit(N, a)
    BY <1>4 DEF Orbit
  <2>3. ASSUME NEW b \in Orbit(N, a), b # a
        PROVE  b \in Orbit(N, N[a])
    <3>1. ASSUME NEW Q \in SUBSET Gatherings, N[a] \in Q, \A c \in Q : ~ Gathered(c) => N[c] \in Q
          PROVE  b \in Q
      <4>1. PICK R : R = Q \cup {a}
        OBVIOUS
      <4>2. R \in SUBSET Gatherings /\ a \in R /\ \A c \in R : ~ Gathered(c) => N[c] \in R
        BY <3>1, <4>1
      <4>3. b \in R
        BY <2>3, <4>2 DEF Orbit
      <4> QED
        BY <2>3, <4>1, <4>3
    <3> QED
      BY <2>3, <3>1 DEF Orbit
  <2> QED
    BY <1>2, <2>2, <2>3
<1>5. ASSUME NEW a \in Gatherings
      PROVE  F[a] = IF Gathered(a) THEN a ELSE F[N[a]]
  <2>1. CASE Gathered(a)
    BY <1>1, <1>3, <2>1
  <2>2. CASE ~ Gathered(a)
    <3>1. N[a] \in Gatherings
      BY <2>2 DEF Falls
    <3>2. \A b : b \in Orbit(N, a) /\ Gathered(b) <=> b \in Orbit(N, N[a]) /\ Gathered(b)
      BY <1>4, <2>2
    <3>3. {b \in Orbit(N, a) : Gathered(b)} = {b \in Orbit(N, N[a]) : Gathered(b)}
      BY <3>2
    <3>4. \A b : (CHOOSE c \in Orbit(N, b) : Gathered(c))
                   = (CHOOSE c : c \in {d \in Orbit(N, b) : Gathered(d)})
      OBVIOUS
    <3>5. F[a] = F[N[a]]
      BY <1>1, <3>1, <3>3, <3>4
    <3> QED
      BY <2>2, <3>5
  <2> QED
    BY <2>1, <2>2
<1>6. F = [a \in Gatherings |-> F[a]]
  BY <1>1
<1> QED
  BY <1>5, <1>6 DEF Repeats

Steps == [a \in Gatherings |-> ImportNext(a)]

(* The files of a list of items.                                           *)
Files(list) == {list[n].file : n \in DOMAIN list}

(* A gathering that began with the scripts "base" stays within R.          *)
Within(a, base, R) ==
  /\ base \subseteq a.seen
  /\ Files(a.got) \subseteq R \cap known
  /\ Files(a.todo) \subseteq R
  /\ a.missing # None => a.missing \in (R \ known) \ a.seen

(* Items of a list of scripts are of these scripts.                        *)
LEMMA AsFacts ==
  ASSUME NEW list \in Seq(Scripts), NEW how \in Hows
  PROVE  As(how, list) \in Seq(Items) /\ Files(As(how, list)) = ToSet(list)
<1>1. PICK s : s = As(how, list)
  OBVIOUS
<1>2. Len(list) \in Nat /\ DOMAIN list = 1..Len(list) /\ \A n \in DOMAIN list : list[n] \in Scripts
  BY LenProperties, ElementOfSeq
<1>3. s = [n \in 1..Len(list) |-> [file |-> list[n], how |-> how]]
  BY <1>1, <1>2 DEF As
<1>4. \A n \in 1..Len(list) : [file |-> list[n], how |-> how] \in Items
  BY <1>2 DEF Items
<1>5. s \in Seq(Items)
  BY <1>2, <1>3, <1>4, IsASeq
<1>6. DOMAIN s = DOMAIN list /\ \A n \in DOMAIN list : s[n].file = list[n]
  BY <1>2, <1>3
<1>7. Files(s) = ToSet(list)
  BY <1>6 DEF Files, ToSet
<1> QED
  BY <1>1, <1>5, <1>7

(* The files of a list that is made of two.                                *)
LEMMA FilesOfBoth ==
  ASSUME NEW s \in Seq(Items), NEW u \in Seq(Items)
  PROVE  s \o u \in Seq(Items) /\ Files(s \o u) = Files(s) \cup Files(u)
<1>1. /\ s \o u \in Seq(Items) /\ Len(s \o u) = Len(s) + Len(u)
      /\ \A i \in 1..Len(s) + Len(u) : (s \o u)[i] = IF i <= Len(s) THEN s[i] ELSE u[i - Len(s)]
  BY ConcatProperties
<1>2. PICK v : v = s \o u
  OBVIOUS
<1>3. /\ Len(s) \in Nat /\ Len(u) \in Nat /\ DOMAIN s = 1..Len(s) /\ DOMAIN u = 1..Len(u)
      /\ DOMAIN v = 1..Len(s) + Len(u)
  BY <1>1, <1>2, LenProperties
<1>4. \A i \in DOMAIN v : v[i] = IF i <= Len(s) THEN s[i] ELSE u[i - Len(s)]
  BY <1>1, <1>2, <1>3
<1>5. ASSUME NEW i \in DOMAIN v
      PROVE  v[i].file \in Files(s) \cup Files(u)
  <2>1. CASE i <= Len(s)
    <3>1. i \in DOMAIN s /\ v[i] = s[i]
      BY <1>3, <1>4, <2>1
    <3> QED
      BY <3>1 DEF Files
  <2>2. CASE ~ i <= Len(s)
    <3>1. i - Len(s) \in DOMAIN u /\ v[i] = u[i - Len(s)]
      BY <1>3, <1>4, <2>2
    <3> QED
      BY <3>1 DEF Files
  <2> QED
    BY <2>1, <2>2
<1>6. ASSUME NEW i \in DOMAIN s
      PROVE  s[i].file \in Files(v)
  <2>1. i \in DOMAIN v /\ i <= Len(s)
    BY <1>3
  <2>2. v[i] = s[i]
    BY <1>4, <2>1
  <2> QED
    BY <2>1, <2>2 DEF Files
<1>7. ASSUME NEW i \in DOMAIN u
      PROVE  u[i].file \in Files(v)
  <2>1. i + Len(s) \in DOMAIN v /\ ~ i + Len(s) <= Len(s) /\ (i + Len(s)) - Len(s) = i
    BY <1>3
  <2>2. v[i + Len(s)] = u[i]
    BY <1>4, <2>1
  <2> QED
    BY <2>1, <2>2 DEF Files
<1>8. Files(v) = Files(s) \cup Files(u)
  BY <1>5, <1>6, <1>7 DEF Files
<1> QED
  BY <1>1, <1>2, <1>8

(* The members of a list that is made of two.                              *)
LEMMA MembersOfBoth ==
  ASSUME NEW s \in Seq(Scripts), NEW u \in Seq(Scripts)
  PROVE  s \o u \in Seq(Scripts) /\ ToSet(s \o u) \subseteq ToSet(s) \cup ToSet(u)
<1>1. /\ s \o u \in Seq(Scripts) /\ Len(s \o u) = Len(s) + Len(u)
      /\ \A i \in 1..Len(s) + Len(u) : (s \o u)[i] = IF i <= Len(s) THEN s[i] ELSE u[i - Len(s)]
  BY ConcatProperties
<1>2. PICK v : v = s \o u
  OBVIOUS
<1>3. /\ Len(s) \in Nat /\ Len(u) \in Nat /\ DOMAIN s = 1..Len(s) /\ DOMAIN u = 1..Len(u)
      /\ DOMAIN v = 1..Len(s) + Len(u)
  BY <1>1, <1>2, LenProperties
<1>4. \A i \in DOMAIN v : v[i] = IF i <= Len(s) THEN s[i] ELSE u[i - Len(s)]
  BY <1>1, <1>2, <1>3
<1>5. ASSUME NEW i \in DOMAIN v
      PROVE  v[i] \in ToSet(s) \cup ToSet(u)
  <2>1. CASE i <= Len(s)
    <3>1. i \in DOMAIN s /\ v[i] = s[i]
      BY <1>3, <1>4, <2>1
    <3> QED
      BY <3>1 DEF ToSet
  <2>2. CASE ~ i <= Len(s)
    <3>1. i - Len(s) \in DOMAIN u /\ v[i] = u[i - Len(s)]
      BY <1>3, <1>4, <2>2
    <3> QED
      BY <3>1 DEF ToSet
  <2> QED
    BY <2>1, <2>2
<1> QED
  BY <1>1, <1>2, <1>5 DEF ToSet

(* The files of all but the first item, and of the item itself.            *)
LEMMA FilesOfTail ==
  ASSUME NEW s \in Seq(Items), s # <<>>
  PROVE  /\ Head(s) \in Items /\ Head(s).file \in Files(s) /\ Tail(s) \in Seq(Items)
         /\ Files(Tail(s)) \subseteq Files(s) /\ Len(Tail(s)) < Len(s)
<1>1. /\ Tail(s) \in Seq(Items) /\ Len(Tail(s)) = Len(s) - 1 /\ Head(s) = s[1]
      /\ \A i \in 1..Len(Tail(s)) : Tail(s)[i] = s[i + 1]
  BY HeadTailProperties
<1>2. /\ Len(s) \in Nat /\ Len(s) > 0 /\ DOMAIN s = 1..Len(s) /\ DOMAIN Tail(s) = 1..Len(Tail(s))
  BY <1>1, LenProperties, EmptySeq
<1>3. 1 \in DOMAIN s /\ s[1] \in Items
  BY <1>2, ElementOfSeq
<1>4. ASSUME NEW i \in DOMAIN Tail(s)
      PROVE  Tail(s)[i].file \in Files(s)
  <2>1. i + 1 \in DOMAIN s /\ Tail(s)[i] = s[i + 1]
    BY <1>1, <1>2
  <2> QED
    BY <2>1 DEF Files
<1>5. Files(Tail(s)) \subseteq Files(s) /\ s[1].file \in Files(s)
  BY <1>3, <1>4 DEF Files
<1> QED
  BY <1>1, <1>2, <1>3, <1>5

(* All that a script includes is included into one of its tables.          *)
LEMMA ImportsOfFacts ==
  TypeOK => \A f \in Scripts :
    /\ ImportsOf(f) \in Seq(Scripts)
    /\ ToSet(ImportsOf(f)) \subseteq UNION {ToSet(imports[f][t]) : t \in Tables}
<1> SUFFICES ASSUME TypeOK, NEW f \in Scripts
             PROVE  /\ ImportsOf(f) \in Seq(Scripts)
                    /\ ToSet(ImportsOf(f)) \subseteq UNION {ToSet(imports[f][t]) : t \in Tables}
  OBVIOUS
<1>1. family.order \in [1..4 -> Tables] /\ imports[f] \in [Tables -> Seq(Scripts)]
  BY NamesAssumption DEF TypeOK
<1> DEFINE Of(n) == imports[f][family.order[n]]
<1>2. PICK U : U = UNION {ToSet(imports[f][t]) : t \in Tables}
  OBVIOUS
<1>3. \A n \in 1..4 : Of(n) \in Seq(Scripts) /\ ToSet(Of(n)) \subseteq U
  BY <1>1, <1>2
<1>4. PICK p, q, r, s : p = Of(1) /\ q = Of(2) /\ r = Of(3) /\ s = Of(4)
  OBVIOUS
<1>5. ImportsOf(f) = ((p \o q) \o r) \o s
  BY <1>4 DEF ImportsOf
<1>6. /\ p \in Seq(Scripts) /\ q \in Seq(Scripts) /\ r \in Seq(Scripts) /\ s \in Seq(Scripts)
      /\ ToSet(p) \subseteq U /\ ToSet(q) \subseteq U /\ ToSet(r) \subseteq U /\ ToSet(s) \subseteq U
  BY <1>3, <1>4
<1> HIDE DEF Of
<1>7. p \o q \in Seq(Scripts) /\ ToSet(p \o q) \subseteq U
  BY <1>6, MembersOfBoth
<1>8. PICK pq : pq = p \o q
  OBVIOUS
<1>9. pq \o r \in Seq(Scripts) /\ ToSet(pq \o r) \subseteq U
  BY <1>6, <1>7, <1>8, MembersOfBoth
<1>10. PICK pqr : pqr = pq \o r
  OBVIOUS
<1>11. pqr \o s \in Seq(Scripts) /\ ToSet(pqr \o s) \subseteq U
  BY <1>6, <1>9, <1>10, MembersOfBoth
<1> QED
  BY <1>2, <1>5, <1>8, <1>10, <1>11

(* What a step of a gathering does to one that is not done.                *)
LEMMA StepFacts ==
  TypeOK => \A a \in Gatherings : ~ Gathered(a) =>
    LET g == Head(a.todo) IN
    /\ Nested(g) \in Seq(Items) /\ Nested(g) \o Tail(a.todo) \in Seq(Items)
    /\ ImportNext(a) \in Gatherings
    /\ \/ g.file \in a.seen /\ ImportNext(a) = [a EXCEPT !.todo = Tail(@)]
       \/ g.file \notin a.seen /\ g.file \notin known /\ ImportNext(a) = [a EXCEPT !.missing = g.file]
       \/ /\ g.file \notin a.seen /\ g.file \in known
          /\ ImportNext(a) = [a EXCEPT !.seen = @ \cup {g.file}, !.got = Append(@, g),
                                       !.todo = Nested(g) \o Tail(@)]
<1> SUFFICES ASSUME TypeOK, NEW a \in Gatherings, ~ Gathered(a)
             PROVE  LET g == Head(a.todo) IN
                    /\ Nested(g) \in Seq(Items) /\ Nested(g) \o Tail(a.todo) \in Seq(Items)
                    /\ ImportNext(a) \in Gatherings
                    /\ \/ g.file \in a.seen /\ ImportNext(a) = [a EXCEPT !.todo = Tail(@)]
                       \/ g.file \notin a.seen /\ g.file \notin known /\ ImportNext(a) = [a EXCEPT !.missing = g.file]
                       \/ /\ g.file \notin a.seen /\ g.file \in known
                          /\ ImportNext(a) = [a EXCEPT !.seen = @ \cup {g.file}, !.got = Append(@, g),
                                                       !.todo = Nested(g) \o Tail(@)]
  OBVIOUS
<1>1. PICK g : g = Head(a.todo)
  OBVIOUS
<1>2. /\ a \in [got : Seq(Items), seen : SUBSET Scripts, missing : Scripts \cup {None}, todo : Seq(Items)]
      /\ a.todo # <<>>
  BY DEF Gatherings, Items, Gathered
<1>3. g \in Items /\ g.file \in Scripts /\ g.how \in Hows /\ Tail(a.todo) \in Seq(Items)
  BY <1>1, <1>2, FilesOfTail DEF Items
<1>4. Nested(g) \in Seq(Items)
  <2>1. As(g.how, ImportsOf(g.file)) \in Seq(Items)
    BY <1>3, ImportsOfFacts, AsFacts
  <2>2. <<>> \in Seq(Items)
    BY EmptySeq
  <2> QED
    BY <2>1, <2>2 DEF Nested
<1>5. Nested(g) \o Tail(a.todo) \in Seq(Items) /\ Append(a.got, g) \in Seq(Items)
  BY <1>2, <1>3, <1>4, FilesOfBoth, AppendProperties
<1>6. CASE g.file \in a.seen
  <2>1. ImportNext(a) = [a EXCEPT !.todo = Tail(@)]
    BY <1>1, <1>6 DEF ImportNext
  <2>2. ImportNext(a) \in Gatherings
    BY <1>2, <1>3, <2>1 DEF Gatherings, Items
  <2> QED
    BY <1>1, <1>4, <1>5, <1>6, <2>1, <2>2
<1>7. CASE g.file \notin a.seen /\ g.file \notin known
  <2>1. ImportNext(a) = [a EXCEPT !.missing = g.file]
    BY <1>1, <1>7 DEF ImportNext
  <2>2. ImportNext(a) \in Gatherings
    BY <1>2, <1>3, <2>1 DEF Gatherings, Items
  <2> QED
    BY <1>1, <1>4, <1>5, <1>7, <2>1, <2>2
<1>8. CASE g.file \notin a.seen /\ g.file \in known
  <2>1. ImportNext(a) = [a EXCEPT !.seen = @ \cup {g.file}, !.got = Append(@, g),
                                  !.todo = Nested(g) \o Tail(@)]
    BY <1>1, <1>8 DEF ImportNext
  <2>2. ImportNext(a) \in Gatherings
    BY <1>2, <1>3, <1>5, <2>1 DEF Gatherings, Items
  <2> QED
    BY <1>1, <1>4, <1>5, <1>8, <2>1, <2>2
<1> QED
  BY <1>6, <1>7, <1>8

(* Every step leaves less to do.                                           *)
LEMMA StepsFall == TypeOK => Falls(Steps)
<1> SUFFICES ASSUME TypeOK, NEW a \in Gatherings, ~ Gathered(a)
             PROVE  Steps[a] \in Gatherings /\ Less(Steps[a], a)
  BY DEF Falls
<1>1. PICK b : b = ImportNext(a)
  OBVIOUS
<1>2. PICK g : g = Head(a.todo)
  OBVIOUS
<1>3. /\ b \in Gatherings
      /\ \/ g.file \in a.seen /\ b = [a EXCEPT !.todo = Tail(@)]
         \/ g.file \notin a.seen /\ b = [a EXCEPT !.missing = g.file]
         \/ /\ g.file \notin a.seen
            /\ b = [a EXCEPT !.seen = @ \cup {g.file}, !.got = Append(@, g), !.todo = Nested(g) \o Tail(@)]
  BY <1>1, <1>2, StepFacts
<1>4. /\ a \in [got : Seq(Items), seen : SUBSET Scripts, missing : Scripts \cup {None}, todo : Seq(Items)]
      /\ a.todo # <<>>
  BY DEF Gatherings, Items, Gathered
<1>5. g.file \in Scripts /\ Len(Tail(a.todo)) < Len(a.todo)
  BY <1>2, <1>4, FilesOfTail DEF Items
<1>6. ASSUME g.file \in a.seen, b = [a EXCEPT !.todo = Tail(@)]
      PROVE  Less(b, a)
  <2>1. b.seen = a.seen /\ b.todo = Tail(a.todo)
    BY <1>4, <1>6
  <2> QED
    BY <1>5, <2>1, Zenon DEF Less
<1>7. ASSUME g.file \notin a.seen, b = [a EXCEPT !.missing = g.file]
      PROVE  Less(b, a)
  <2>1. b.missing # None
    BY <1>4, <1>5, <1>7, NamesAssumption
  <2> QED
    BY <2>1, Zenon DEF Less, Gathered
<1>8. ASSUME g.file \notin a.seen,
             b = [a EXCEPT !.seen = @ \cup {g.file}, !.got = Append(@, g), !.todo = Nested(g) \o Tail(@)]
      PROVE  Less(b, a)
  <2>1. b.seen = a.seen \cup {g.file}
    BY <1>4, <1>8
  <2>2. Scripts \ b.seen \subseteq Scripts \ a.seen /\ Scripts \ b.seen # Scripts \ a.seen
    BY <1>5, <1>8, <2>1
  <2>3. IsFiniteSet(Scripts \ a.seen)
    BY NamesAssumption, FS_Difference
  <2>4. /\ Cardinality(Scripts \ b.seen) <= Cardinality(Scripts \ a.seen)
        /\ Cardinality(Scripts \ b.seen) # Cardinality(Scripts \ a.seen)
        /\ Cardinality(Scripts \ b.seen) \in Nat /\ Cardinality(Scripts \ a.seen) \in Nat
    <3>1. IsFiniteSet(Scripts \ b.seen)
      BY NamesAssumption, FS_Difference
    <3> QED
      BY <2>2, <2>3, <3>1, FS_Subset, FS_CardinalityType
  <2>5. Cardinality(Scripts \ b.seen) < Cardinality(Scripts \ a.seen)
    BY <2>4
  <2> QED
    BY <2>5, Zenon DEF Less
<1>9. b = Steps[a]
  BY <1>1 DEF Steps
<1> QED
  BY <1>3, <1>6, <1>7, <1>8, <1>9

(* import_members_inner repeats these steps until it is done.              *)
LEMMA InnerRepeats == TypeOK => Repeats(Steps, ImportMembersInner)
<1> SUFFICES ASSUME TypeOK PROVE Repeats(Steps, ImportMembersInner)
  OBVIOUS
<1>1. PICK F : Repeats(Steps, F)
  BY StepsFall, RepeatsExist
<1>2. F = [a \in Gatherings |-> IF Gathered(a) THEN a ELSE F[ImportNext(a)]]
  BY <1>1 DEF Repeats, Steps
<1>3. ImportMembersInner = CHOOSE G : G = [a \in Gatherings |-> IF Gathered(a) THEN a ELSE G[ImportNext(a)]]
  BY DEF ImportMembersInner
<1>4. ImportMembersInner = [a \in Gatherings |-> IF Gathered(a) THEN a ELSE ImportMembersInner[ImportNext(a)]]
  BY <1>2, <1>3
<1> QED
  BY <1>4 DEF Repeats, Steps

(* What the statements of the model hold.                                  *)
LEMMA StatementFacts ==
  ASSUME NEW s \in Statements
  PROVE  /\ s.op \in {"slot", "declare", "function", "include", "delegate"}
         /\ s.op = "slot" => s.in \in Tables
         /\ s.op = "declare" => s.in \in {"const", "local"}
         /\ s.op = "include" => s.of \in Scripts /\ s.in \in Tables
         /\ s.op = "delegate" => s.of \in Tables /\ s.in \in Tables
<1>1. CASE s \in {Slot(t) : t \in Tables}
  BY <1>1 DEF Slot
<1>2. CASE s \in {Declare(place) : place \in {"const", "local"}}
  BY <1>2 DEF Declare
<1>3. CASE s = Function
  BY <1>3 DEF Function
<1>4. CASE s \in {Include(g, t) : g \in Scripts, t \in Tables}
  BY <1>4 DEF Include
<1>5. CASE s \in {SetDelegate(t, u) : t, u \in Tables}
  BY <1>5 DEF SetDelegate
<1> QED
  BY <1>1, <1>2, <1>3, <1>4, <1>5 DEF Statements

(* The libraries that a script includes are scripts.                       *)
LEMMA LibsFacts ==
  ASSUME NEW f \in Scripts
  PROVE  LibsOf(f) \in Seq(Scripts) /\ ToSet(LibsOf(f)) \subseteq Scripts
<1>1. LibsOf(f) \in Seq(Scripts)
  <2>1. PICK own : own = {n \in DOMAIN Libs : Libs[n] = f}
    OBVIOUS
  <2>2. Libs \in Seq(Scripts) /\ DOMAIN Libs = 1..Len(Libs) /\ Len(Libs) \in Nat
    BY NamesAssumption, LenProperties
  <2>3. CASE own = {}
    BY <2>1, <2>2, <2>3 DEF LibsOf
  <2>4. CASE own # {}
    <3>1. PICK k : k = CHOOSE n \in own : TRUE
      OBVIOUS
    <3>2. k \in 1..Len(Libs)
      BY <2>1, <2>2, <2>4, <3>1
    <3>3. \A n \in 1..k - 1 : Libs[n] \in Scripts
      BY <2>2, <3>2, ElementOfSeq
    <3>4. SubSeq(Libs, 1, k - 1) \in Seq(Scripts)
      BY <2>2, <3>2, <3>3, SubSeqProperties
    <3> QED
      BY <2>1, <2>4, <3>1, <3>4 DEF LibsOf
  <2> QED
    BY <2>3, <2>4
<1>2. \A n \in DOMAIN LibsOf(f) : LibsOf(f)[n] \in Scripts
  BY <1>1, LenProperties, ElementOfSeq
<1> QED
  BY <1>1, <1>2 DEF ToSet

(* What a script asks for are scripts.                                     *)
LEMMA NeedsFacts == TypeOK => \A f \in Scripts : Needs(f) \subseteq Scripts
<1> SUFFICES ASSUME TypeOK, NEW f \in Scripts PROVE Needs(f) \subseteq Scripts
  OBVIOUS
<1>1. \A n \in DOMAIN text[f] : text[f][n] \in Statements
  BY LenProperties, ElementOfSeq DEF TypeOK
<1>2. Including(f) \subseteq Scripts
  BY <1>1, StatementFacts DEF Including, IncludesOf
<1> QED
  BY <1>2, LibsFacts DEF Needs

(* The scripts that are reached from some are the least set with these     *)
(* that is closed under asking.                                            *)
LEMMA ReachedFacts ==
  TypeOK => \A S \in SUBSET Scripts :
    /\ Reached(S) \in SUBSET Scripts /\ S \subseteq Reached(S)
    /\ \A g \in Reached(S) : Needs(g) \subseteq Reached(S)
<1> SUFFICES ASSUME TypeOK, NEW S \in SUBSET Scripts
             PROVE  /\ Reached(S) \in SUBSET Scripts /\ S \subseteq Reached(S)
                    /\ \A g \in Reached(S) : Needs(g) \subseteq Reached(S)
  OBVIOUS
<1>1. Reached(S) \in SUBSET Scripts /\ S \subseteq Reached(S)
  BY DEF Reached
<1>2. ASSUME NEW g \in Reached(S), NEW h \in Needs(g)
      PROVE  h \in Reached(S)
  <2>1. h \in Scripts
    BY <1>1, <1>2, NeedsFacts
  <2>2. ASSUME NEW R \in SUBSET Scripts, S \subseteq R, \A k \in R : Needs(k) \subseteq R
        PROVE  h \in R
    <3>1. g \in R
      BY <1>2, <2>2 DEF Reached
    <3> QED
      BY <1>2, <2>2, <3>1
  <2> QED
    BY <2>1, <2>2 DEF Reached
<1> QED
  BY <1>1, <1>2

(* What is reached from scripts that are reached is reached.               *)
LEMMA ReachedOver ==
  TypeOK => \A S, R \in SUBSET Scripts : S \subseteq Reached(R) => Reached(S) \subseteq Reached(R)
<1> SUFFICES ASSUME TypeOK, NEW S \in SUBSET Scripts, NEW R \in SUBSET Scripts, S \subseteq Reached(R)
             PROVE  Reached(S) \subseteq Reached(R)
  OBVIOUS
<1>1. Reached(R) \in SUBSET Scripts /\ \A g \in Reached(R) : Needs(g) \subseteq Reached(R)
  BY ReachedFacts
<1>2. PICK T : T = Reached(R)
  OBVIOUS
<1>3. \A g \in Reached(S) : g \in T
  BY <1>1, <1>2 DEF Reached
<1> QED
  BY <1>2, <1>3

(* More is reached when scripts ask for more.                              *)
LEMMA ReachedMore ==
  (\A f \in Scripts : Needs(f) \subseteq Needs(f)') =>
    \A S \in SUBSET Scripts : Reached(S) \subseteq Reached(S)'
<1> SUFFICES ASSUME \A f \in Scripts : Needs(f) \subseteq Needs(f)', NEW S \in SUBSET Scripts, NEW g \in Reached(S)
             PROVE  g \in Reached(S)'
  OBVIOUS
<1>1. ASSUME NEW T \in SUBSET Scripts, S \subseteq T, \A f \in T : Needs(f)' \subseteq T
      PROVE  g \in T
  <2>1. \A f \in T : Needs(f) \subseteq T
    BY <1>1
  <2> QED
    BY <1>1, <2>1 DEF Reached
<1>2. g \in Scripts
  BY DEF Reached
<1> QED
  BY <1>1, <1>2 DEF Reached

(* A script that a gathering stops at, and those that it got, are asked    *)
(* for by scripts that were got: they are reached.                         *)
LEMMA WithinKept ==
  TypeOK /\ Recorded => \A base \in SUBSET Scripts, R \in SUBSET Scripts, a \in Gatherings :
    (\A g \in R : Needs(g) \subseteq R) /\ Within(a, base, R) /\ ~ Gathered(a)
      => Within(ImportNext(a), base, R)
<1> SUFFICES ASSUME TypeOK, Recorded, NEW base \in SUBSET Scripts, NEW R \in SUBSET Scripts, NEW a \in Gatherings,
                    \A g \in R : Needs(g) \subseteq R, Within(a, base, R), ~ Gathered(a)
             PROVE  Within(ImportNext(a), base, R)
  OBVIOUS
<1>1. PICK b : b = ImportNext(a)
  OBVIOUS
<1>2. PICK g : g = Head(a.todo)
  OBVIOUS
<1>3. /\ Nested(g) \in Seq(Items)
      /\ \/ g.file \in a.seen /\ b = [a EXCEPT !.todo = Tail(@)]
         \/ g.file \notin a.seen /\ g.file \notin known /\ b = [a EXCEPT !.missing = g.file]
         \/ /\ g.file \notin a.seen /\ g.file \in known
            /\ b = [a EXCEPT !.seen = @ \cup {g.file}, !.got = Append(@, g), !.todo = Nested(g) \o Tail(@)]
  BY <1>1, <1>2, StepFacts
<1>4. /\ a \in [got : Seq(Items), seen : SUBSET Scripts, missing : Scripts \cup {None}, todo : Seq(Items)]
      /\ a.todo # <<>> /\ a.missing = None
  BY DEF Gatherings, Items, Gathered
<1>5. /\ g \in Items /\ g.file \in Files(a.todo) /\ Tail(a.todo) \in Seq(Items)
      /\ Files(Tail(a.todo)) \subseteq Files(a.todo)
  BY <1>2, <1>4, FilesOfTail
<1>6. g.file \in R /\ Files(Tail(a.todo)) \subseteq R
  BY <1>5 DEF Within
<1>7. base \subseteq a.seen /\ Files(a.got) \subseteq R \cap known
  BY DEF Within
<1>8. CASE g.file \in a.seen /\ b = [a EXCEPT !.todo = Tail(@)]
  <2>1. b.seen = a.seen /\ b.got = a.got /\ b.missing = None /\ b.todo = Tail(a.todo)
    BY <1>4, <1>8
  <2> QED
    BY <1>1, <1>6, <1>7, <2>1 DEF Within
<1>9. CASE g.file \notin a.seen /\ g.file \notin known /\ b = [a EXCEPT !.missing = g.file]
  <2>1. b.seen = a.seen /\ b.got = a.got /\ b.missing = g.file /\ b.todo = a.todo
    BY <1>4, <1>9
  <2> QED
    BY <1>1, <1>6, <1>7, <1>9, <2>1 DEF Within
<1>10. CASE /\ g.file \notin a.seen /\ g.file \in known
            /\ b = [a EXCEPT !.seen = @ \cup {g.file}, !.got = Append(@, g), !.todo = Nested(g) \o Tail(@)]
  <2>1. /\ b.seen = a.seen \cup {g.file} /\ b.got = Append(a.got, g) /\ b.missing = None
        /\ b.todo = Nested(g) \o Tail(a.todo)
    BY <1>4, <1>10
  <2>2. Files(b.todo) = Files(Nested(g)) \cup Files(Tail(a.todo))
    BY <1>3, <1>5, <2>1, FilesOfBoth
  <2>3. Files(b.got) \subseteq Files(a.got) \cup {g.file}
    <3>1. /\ Append(a.got, g) \in Seq(Items) /\ Len(Append(a.got, g)) = Len(a.got) + 1
          /\ \A i \in 1..Len(a.got) : Append(a.got, g)[i] = a.got[i]
          /\ Append(a.got, g)[Len(a.got) + 1] = g
      BY <1>4, <1>5, AppendProperties
    <3>2. Len(a.got) \in Nat /\ DOMAIN a.got = 1..Len(a.got) /\ DOMAIN b.got = 1..Len(a.got) + 1
      BY <1>4, <2>1, <3>1, LenProperties
    <3>3. ASSUME NEW i \in DOMAIN b.got
          PROVE  b.got[i].file \in Files(a.got) \cup {g.file}
      <4>1. i \in DOMAIN a.got \/ i = Len(a.got) + 1
        BY <3>2
      <4> QED
        BY <2>1, <3>1, <3>2, <4>1 DEF Files
    <3> QED
      BY <3>3 DEF Files
  <2>4. Files(Nested(g)) \subseteq R
    <3>1. CASE g.how = "target"
      <4>1. DOMAIN Nested(g) = {}
        BY <3>1 DEF Nested
      <4> QED
        BY <4>1 DEF Files
    <3>2. CASE g.how # "target"
      <4>1. g.file \in Scripts /\ g.how \in Hows
        BY <1>5 DEF Items
      <4>2. ImportsOf(g.file) \in Seq(Scripts) /\ ToSet(ImportsOf(g.file)) \subseteq Needs(g.file)
        BY <4>1, ImportsOfFacts DEF Recorded
      <4>3. Files(Nested(g)) = ToSet(ImportsOf(g.file))
        BY <3>2, <4>1, <4>2, AsFacts DEF Nested
      <4> QED
        BY <1>6, <4>2, <4>3
    <3> QED
      BY <3>1, <3>2
  <2> QED
    BY <1>1, <1>6, <1>7, <1>10, <2>1, <2>2, <2>3, <2>4 DEF Within
<1> QED
  BY <1>3, <1>8, <1>9, <1>10

(* The gathering of a table begins with what its script asks for.          *)
LEMMA GatheringBegins ==
  TypeOK /\ Recorded => \A f \in Scripts, t \in Tables :
    Gathering(f, t) \in Gatherings /\ Within(Gathering(f, t), {f}, Reached(Needs(f)))
<1> SUFFICES ASSUME TypeOK, Recorded, NEW f \in Scripts, NEW t \in Tables
             PROVE  Gathering(f, t) \in Gatherings /\ Within(Gathering(f, t), {f}, Reached(Needs(f)))
  OBVIOUS
<1>1. PICK R : R = Reached(Needs(f))
  OBVIOUS
<1>2. Needs(f) \subseteq R
  BY <1>1, NeedsFacts, ReachedFacts
<1>3. \A u \in Tables : imports[f][u] \in Seq(Scripts) /\ ToSet(imports[f][u]) \subseteq R
  BY <1>2 DEF TypeOK, Recorded
<1>4. ImportsOf(f) \in Seq(Scripts) /\ ToSet(ImportsOf(f)) \subseteq R
  BY <1>3, ImportsOfFacts
<1>5. Hows = {"target", "constAsSource", "const", "rootAsSource", "root"}
  BY DEF Hows, PLACES
<1>6. ASSUME NEW list \in Seq(Scripts), ToSet(list) \subseteq R, NEW how \in Hows
      PROVE  As(how, list) \in Seq(Items) /\ Files(As(how, list)) \subseteq R
  BY <1>6, AsFacts
<1>7. ImportsFor(f, t) \in Seq(Items) /\ Files(ImportsFor(f, t)) \subseteq R
  <2>1. CASE t = "const"
    <3>1. PICK p, q : p = As("constAsSource", imports[f]["const"]) /\ q = As("const", ImportsOf(f))
      OBVIOUS
    <3>2. p \in Seq(Items) /\ q \in Seq(Items) /\ Files(p) \subseteq R /\ Files(q) \subseteq R
      BY <1>3, <1>4, <1>5, <1>6, <2>1, <3>1
    <3>3. p \o q \in Seq(Items) /\ Files(p \o q) \subseteq R
      BY <3>2, FilesOfBoth
    <3> QED
      BY <2>1, <3>1, <3>3 DEF ImportsFor
  <2>2. CASE t = "root"
    <3>1. PICK p, q : p = As("rootAsSource", imports[f]["root"]) /\ q = As("root", ImportsOf(f))
      OBVIOUS
    <3>2. p \in Seq(Items) /\ q \in Seq(Items) /\ Files(p) \subseteq R /\ Files(q) \subseteq R
      BY <1>3, <1>4, <1>5, <1>6, <2>2, <3>1
    <3>3. p \o q \in Seq(Items) /\ Files(p \o q) \subseteq R
      BY <3>2, FilesOfBoth
    <3> QED
      BY <2>2, <3>1, <3>3 DEF ImportsFor
  <2>3. CASE t # "const" /\ t # "root"
    <3>1. As("target", imports[f][t]) \in Seq(Items) /\ Files(As("target", imports[f][t])) \subseteq R
      BY <1>3, <1>5, <1>6
    <3> QED
      BY <2>3, <3>1 DEF ImportsFor
  <2> QED
    BY <2>1, <2>2, <2>3
<1>8. PICK a : a = Gathering(f, t)
  OBVIOUS
<1>9. a = [got |-> <<>>, seen |-> {f}, missing |-> None, todo |-> ImportsFor(f, t)]
  BY <1>8 DEF Gathering
<1>10. a \in Gatherings
  <2>1. <<>> \in Seq(Items)
    BY EmptySeq
  <2> QED
    BY <1>7, <1>9, <2>1 DEF Gatherings, Items
<1>11. Within(a, {f}, R)
  <2>1. a.seen = {f} /\ a.got = <<>> /\ a.missing = None /\ a.todo = ImportsFor(f, t)
    BY <1>9
  <2>2. Files(a.got) = {}
    BY <2>1 DEF Files
  <2> QED
    BY <1>7, <2>1, <2>2 DEF Within
<1> QED
  BY <1>1, <1>8, <1>10, <1>11

(* What import_members gives: scripts that are reached and resolved, and   *)
(* where it stops, one that is reached and is not.                         *)
LEMMA MembersGathered ==
  TypeOK /\ Recorded => \A f \in Scripts, t \in Tables :
    LET a == ImportMembers(f, t) IN
    a \in Gatherings /\ Gathered(a) /\ Within(a, {f}, Reached(Needs(f)))
<1> SUFFICES ASSUME TypeOK, Recorded, NEW f \in Scripts, NEW t \in Tables
             PROVE  LET a == ImportMembers(f, t) IN
                    a \in Gatherings /\ Gathered(a) /\ Within(a, {f}, Reached(Needs(f)))
  OBVIOUS
<1>1. PICK R : R = Reached(Needs(f))
  OBVIOUS
<1>2. R \in SUBSET Scripts /\ \A g \in R : Needs(g) \subseteq R
  BY <1>1, NeedsFacts, ReachedFacts
<1>3. PICK Q : Q = {b \in Gatherings : Within(b, {f}, R)}
  OBVIOUS
<1>4. ASSUME NEW b \in Gatherings \cap Q, ~ Gathered(b)
      PROVE  Steps[b] \in Q
  <2>1. ImportNext(b) \in Gatherings
    BY <1>4, StepFacts
  <2>2. Within(ImportNext(b), {f}, R)
    BY <1>2, <1>3, <1>4, WithinKept
  <2> QED
    BY <1>3, <2>1, <2>2 DEF Steps
<1>5. PICK c : c = Gathering(f, t)
  OBVIOUS
<1>6. c \in Gatherings \cap Q
  BY <1>1, <1>3, <1>5, GatheringBegins
<1>7. Falls(Steps) /\ Repeats(Steps, ImportMembersInner)
  BY StepsFall, InnerRepeats
<1>8. ImportMembersInner[c] \in Gatherings \cap Q /\ Gathered(ImportMembersInner[c])
  BY <1>4, <1>6, <1>7, GatherInvariant
<1> QED
  BY <1>1, <1>3, <1>5, <1>8 DEF ImportMembers

(* Delegates that do not end lead in a circle: there are four tables.      *)
LEMMA EndlessCircle ==
  TypeOK /\ Recorded => \A f \in Scripts, t \in Tables : Endless(f, t) => Circle(f)
<1> SUFFICES ASSUME TypeOK, Recorded, NEW f \in Scripts, NEW t \in Tables, Endless(f, t)
             PROVE  Circle(f)
  OBVIOUS
<1>1. PICK d : d = delegate[f]
  OBVIOUS
<1>2. d \in [Tables -> Tables \cup {None}] /\ \A u \in Tables : d[u] = LastDelegate(f, u)
  BY <1>1 DEF TypeOK, Recorded
<1>3. PICK u, v, w, x : /\ u = Delegate(f, t) /\ v = Delegate(f, u) /\ w = Delegate(f, v)
                        /\ x = Delegate(f, w)
  OBVIOUS
<1>4. x # None
  <2>1. Line(f, t)[4] = w
    BY <1>3 DEF Line
  <2> QED
    BY <1>3, <2>1 DEF Endless
<1>5. /\ t \in Tables /\ u \in Tables /\ v \in Tables /\ w \in Tables /\ x \in Tables
      /\ u = d[t] /\ v = d[u] /\ w = d[v] /\ x = d[w]
  <2>1. \A y : Delegate(f, y) # None => y # None /\ Delegate(f, y) = d[y]
    BY <1>1 DEF Delegate
  <2>2. w # None /\ v # None /\ u # None
    BY <1>3, <1>4, <2>1
  <2>3. u = d[t] /\ v = d[u] /\ w = d[v] /\ x = d[w]
    BY <1>3, <1>4, <2>1, <2>2
  <2>4. u \in Tables
    BY <1>2, <2>2, <2>3
  <2>5. v \in Tables
    BY <1>2, <2>2, <2>3, <2>4
  <2>6. w \in Tables
    BY <1>2, <2>2, <2>3, <2>5
  <2>7. x \in Tables
    BY <1>2, <1>4, <2>3, <2>6
  <2> QED
    BY <2>3, <2>4, <2>5, <2>6, <2>7
<1>6. x \in {t, u, v, w}
  <2>1. CASE t = u \/ t = v \/ t = w \/ u = v \/ u = w \/ v = w
    BY <1>5, <2>1
  <2>2. CASE t # u /\ t # v /\ t # w /\ u # v /\ u # w /\ v # w
    BY <1>5, <2>2 DEF Tables
  <2> QED
    BY <2>1, <2>2
<1>7. PICK X : X = {t, u, v, w}
  OBVIOUS
<1>8. \A y \in X : LastDelegate(f, y) \in X
  BY <1>2, <1>5, <1>6, <1>7
<1>9. X \subseteq Tables /\ X # {}
  BY <1>5, <1>7
<1> QED
  BY <1>8, <1>9 DEF Circle

(* The tables behind a table are tables, as far as there are any.          *)
LEMMA LineFacts ==
  TypeOK => \A f \in Scripts, t \in Tables, n \in 1..4 : Line(f, t)[n] \in Tables \cup {None}
<1> SUFFICES ASSUME TypeOK, NEW f \in Scripts, NEW t \in Tables, NEW n \in 1..4
             PROVE  Line(f, t)[n] \in Tables \cup {None}
  OBVIOUS
<1>1. \A u \in Tables \cup {None} : Delegate(f, u) \in Tables \cup {None}
  BY DEF Delegate, TypeOK
<1>2. PICK u, v, w : u = Delegate(f, t) /\ v = Delegate(f, u) /\ w = Delegate(f, v)
  OBVIOUS
<1>3. u \in Tables \cup {None} /\ v \in Tables \cup {None} /\ w \in Tables \cup {None}
  BY <1>1, <1>2
<1>4. Line(f, t) = <<t, u, v, w>>
  BY <1>2 DEF Line
<1> QED
  BY <1>3, <1>4

(* A set of numbers that is not empty has its least one.                   *)
LEMMA EarliestFacts ==
  ASSUME NEW S, S \subseteq Nat, S # {}
  PROVE  Earliest(S) \in S
<1>1. \E n \in S : \A m \in S : n <= m
  BY Least
<1> QED
  BY <1>1 DEF Earliest

(* One of the tables behind a table hides the others, unless there is no   *)
(* end to them.                                                            *)
LEMMA HidingFacts ==
  TypeOK => \A f \in Scripts, t \in Tables : ~ Endless(f, t) =>
    \E u \in Tables : u = Line(f, t)[Earliest({n \in 1..4 : Hiding(f, Line(f, t)[n])})]
<1> SUFFICES ASSUME TypeOK, NEW f \in Scripts, NEW t \in Tables, ~ Endless(f, t)
             PROVE  \E u \in Tables : u = Line(f, t)[Earliest({n \in 1..4 : Hiding(f, Line(f, t)[n])})]
  OBVIOUS
<1>1. PICK l : l = Line(f, t)
  OBVIOUS
<1>2. /\ l[1] = t /\ l[2] = Delegate(f, l[1]) /\ l[3] = Delegate(f, l[2]) /\ l[4] = Delegate(f, l[3])
      /\ Delegate(f, l[4]) = None
  BY <1>1 DEF Line, Endless
<1>3. PICK H : H = {n \in 1..4 : Hiding(f, l[n])}
  OBVIOUS
<1>4. H # {}
  <2> SUFFICES ASSUME \A n \in 1..4 : ~ Hiding(f, l[n]) PROVE FALSE
    BY <1>3
  <2>1. \A u : Delegate(f, u) = None /\ u # None => Hiding(f, u)
    BY DEF Delegate, Hiding
  <2>2. t # None
    BY NamesAssumption
  <2> QED
    BY <1>2, <2>1, <2>2
<1>5. PICK k : k = Earliest(H)
  OBVIOUS
<1>6. k \in H
  BY <1>3, <1>4, <1>5, EarliestFacts
<1>7. k \in 1..4 /\ l[k] # None
  BY <1>3, <1>6 DEF Hiding
<1>8. l[k] \in Tables
  BY <1>1, <1>7, LineFacts
<1> QED
  BY <1>1, <1>3, <1>5, <1>8

(* What stops a look-up of a script has a cause.                           *)
Lookup(r) == r = [symbol |-> r.symbol, in |-> r.in, missing |-> r.missing, overflow |-> r.overflow]
Cause(f, r) ==
  /\ Lookup(r) /\ r.overflow \in BOOLEAN
  /\ r.overflow => \E g \in {f} \cup Reached(Needs(f)) : Circle(g)
  /\ ~ r.overflow /\ r.missing # None => r.missing \in Reached(Needs(f)) \ (known \cup {f})

(* What was found has no cause to stop.                                    *)
LEMMA FoundFacts ==
  \A f, s, p : Cause(f, Found(s, p)) /\ ~ Stopped(Found(s, p)) /\ Found(s, p).symbol = s
BY DEF Cause, Found, Lookup, Stopped

(* A look-up in the members of a table.                                    *)
LEMMA MembersCause ==
  TypeOK /\ Recorded => \A f \in Scripts, t \in Tables : \A at, late :
    Cause(f, MembersOfTable(f, t, at, late))
<1> SUFFICES ASSUME TypeOK, Recorded, NEW f \in Scripts, NEW t \in Tables, NEW at, NEW late
             PROVE  Cause(f, MembersOfTable(f, t, at, late))
  OBVIOUS
<1>1. Lookup(Overflow) /\ Overflow.overflow = TRUE
  <2>1. Overflow = [symbol |-> None, in |-> None, missing |-> None, overflow |-> TRUE]
    BY DEF Overflow
  <2> QED
    BY <2>1 DEF Lookup
<1>2. CASE Endless(f, t)
  <2>1. Circle(f)
    BY <1>2, EndlessCircle
  <2>2. Cause(f, Overflow)
    BY <1>1, <2>1 DEF Cause
  <2> QED
    BY <1>2, <2>2 DEF MembersOfTable
<1>3. CASE ~ Endless(f, t)
  <2>1. PICK a : a = ImportMembers(f, t)
    OBVIOUS
  <2>2. PICK own : own = FilterSymbols(f, AdditionalTableMembers(f, t), at, late /\ t # "const")
    OBVIOUS
  <2>3. a \in Gatherings /\ Within(a, {f}, Reached(Needs(f)))
    BY <2>1, MembersGathered
  <2>4. MembersOfTable(f, t, at, late) = Joined(own, a, t)
    BY <1>3, <2>1, <2>2 DEF MembersOfTable
  <2>5. CASE \E g \in ToSet(a.got) : TopEndless(g)
    <3>1. PICK n \in DOMAIN a.got : TopEndless(a.got[n])
      BY <2>5 DEF ToSet
    <3>2. PICK g : g = a.got[n]
      OBVIOUS
    <3>3. a.got \in Seq(Items)
      BY <2>3, GatheringFacts DEF Items
    <3>4. g \in Items /\ g.file \in Reached(Needs(f))
      <4>1. g \in Items
        BY <3>2, <3>3, LenProperties, ElementOfSeq
      <4>2. g.file \in Files(a.got)
        BY <3>2 DEF Files
      <4> QED
        BY <2>3, <4>1, <4>2 DEF Within
    <3>5. PICK u \in PLACES[g.how] : Endless(g.file, u)
      BY <3>1, <3>2 DEF TopEndless
    <3>6. g.file \in Scripts /\ u \in Tables
      BY <3>4, <3>5 DEF Items, Hows, PLACES, Tables
    <3>7. Circle(g.file)
      BY <3>5, <3>6, EndlessCircle
    <3>8. Cause(f, Overflow)
      BY <1>1, <3>4, <3>7 DEF Cause
    <3> QED
      BY <2>4, <2>5, <3>8 DEF Joined
  <2>6. CASE ~ (\E g \in ToSet(a.got) : TopEndless(g)) /\ a.missing # None
    <3>1. PICK w : w = Waiting(a.missing)
      OBVIOUS
    <3>2. Lookup(w) /\ w.overflow = FALSE /\ w.missing = a.missing
      BY <3>1 DEF Lookup, Waiting, Nothing, Found
    <3>3. a.missing \in Reached(Needs(f)) \ (known \cup {f})
      BY <2>3, <2>6 DEF Within
    <3>4. Cause(f, w)
      BY <3>2, <3>3 DEF Cause
    <3>5. Joined(own, a, t) = w
      BY <2>6, <3>1 DEF Joined
    <3> QED
      BY <2>4, <3>4, <3>5
  <2>7. CASE ~ (\E g \in ToSet(a.got) : TopEndless(g)) /\ a.missing = None
    <3>1. Joined(own, a, t) = IF own # None THEN Found(own, t) ELSE LastFound(a.got, t)
      BY <2>7 DEF Joined
    <3>2. \E s, p : Joined(own, a, t) = Found(s, p)
      BY <3>1 DEF LastFound, Nothing
    <3> QED
      BY <2>4, <3>2, FoundFacts
  <2> QED
    BY <2>5, <2>6, <2>7
<1> QED
  BY <1>2, <1>3

(* A look-up that forgets what it found.                                   *)
LEMMA UnnamedCause ==
  \A f, r : Cause(f, r) => Cause(f, [r EXCEPT !.symbol = None])
<1> SUFFICES ASSUME NEW f, NEW r, Cause(f, r) PROVE Cause(f, [r EXCEPT !.symbol = None])
  OBVIOUS
<1>1. PICK q : q = [r EXCEPT !.symbol = None]
  OBVIOUS
<1>2. Lookup(r)
  BY DEF Cause
<1>3. q = [symbol |-> None, in |-> r.in, missing |-> r.missing, overflow |-> r.overflow]
  BY <1>1, <1>2 DEF Lookup
<1>4. Lookup(q) /\ q.missing = r.missing /\ q.overflow = r.overflow
  BY <1>3 DEF Lookup
<1> QED
  BY <1>1, <1>4 DEF Cause

(* A look-up through the tables.                                           *)
LEMMA FirstCause ==
  TypeOK /\ Recorded => \A f \in Scripts : \A at, late, named : Cause(f, FirstFound(f, at, late, named))
<1> SUFFICES ASSUME TypeOK, Recorded, NEW f \in Scripts, NEW at, NEW late, NEW named
             PROVE  Cause(f, FirstFound(f, at, late, named))
  OBVIOUS
<1>1. PICK p, q, r : /\ p = MembersOfTable(f, "const", at, late) /\ q = MembersOfTable(f, "this", at, late)
                     /\ r = MembersOfTable(f, "root", at, late)
  OBVIOUS
<1>2. Cause(f, p) /\ Cause(f, q) /\ Cause(f, r)
  BY <1>1, MembersCause DEF Tables
<1>3. PICK u : u = OrElse(p, named, OrElse(q, named, r))
  OBVIOUS
<1>4. Cause(f, u)
  BY <1>2, <1>3 DEF OrElse
<1>5. Cause(f, [u EXCEPT !.symbol = None])
  BY <1>4, UnnamedCause
<1>6. FirstFound(f, at, late, named) = IF named THEN u ELSE [u EXCEPT !.symbol = None]
  BY <1>1, <1>3 DEF FirstFound
<1> QED
  BY <1>4, <1>5, <1>6

(* A look-up of a name.                                                    *)
LEMMA ResolveCause ==
  TypeOK /\ Recorded => \A f \in Scripts : \A at, late : Cause(f, ResolveName(f, at, late))
<1> SUFFICES ASSUME TypeOK, Recorded, NEW f \in Scripts, NEW at, NEW late
             PROVE  Cause(f, ResolveName(f, at, late))
  OBVIOUS
<1> QED
  BY FirstCause, FoundFacts DEF ResolveName, ResolveOr

(* The look-ups of a statement.                                            *)
LEMMA LookedCause ==
  TypeOK /\ Recorded => \A f \in Scripts, s \in Statements : \A at : Cause(f, Looked(f, s, at))
<1> SUFFICES ASSUME TypeOK, Recorded, NEW f \in Scripts, NEW s \in Statements, NEW at
             PROVE  Cause(f, Looked(f, s, at))
  OBVIOUS
<1>1. CASE s.op = "slot"
  <2>1. s.in \in Tables
    BY <1>1, StatementFacts
  <2>2. Looked(f, s, at) = IF s.in = "this" THEN ResolveName(f, at, FALSE)
                           ELSE MembersOfTable(f, s.in, at, FALSE)
    BY <1>1 DEF Looked
  <2> QED
    BY <2>1, <2>2, ResolveCause, MembersCause
<1>2. CASE s.op = "include"
  <2>1. Looked(f, s, at) = FirstFound(f, at, FALSE, FALSE)
    BY <1>2 DEF Looked, ResolveLibrary
  <2> QED
    BY <2>1, FirstCause
<1>3. CASE s.op = "delegate"
  <2>1. PICK r : r = MembersOfTable(f, s.in, at, FALSE)
    OBVIOUS
  <2>2. Cause(f, r)
    BY <1>3, <2>1, StatementFacts, MembersCause
  <2>3. Looked(f, s, at) = Then(r, f, s, at)
    BY <1>3, <2>1 DEF Looked
  <2> QED
    BY <2>2, <2>3, UnnamedCause, FirstCause DEF Then, ResolveLibrary
<1>4. CASE s.op \in {"declare", "function"}
  <2>1. Looked(f, s, at) = Found(None, None)
    BY <1>4 DEF Looked, Nothing
  <2> QED
    BY <2>1, FoundFacts
<1> QED
  BY <1>1, <1>2, <1>3, <1>4, StatementFacts

(* A set of numbers up to N has a greatest one.                            *)
LEMMA Greatest ==
  ASSUME NEW N \in Nat, NEW S, S \subseteq 1..N, S # {}
  PROVE  \E n \in S : \A m \in S : m <= n
<1>1. PICK T : T = {N - n : n \in S}
  OBVIOUS
<1>2. T \subseteq Nat /\ T # {}
  <2>1. PICK n \in S : TRUE
    OBVIOUS
  <2>2. N - n \in T
    BY <1>1
  <2>3. \A m \in S : m \in 1..N
    OBVIOUS
  <2> QED
    BY <1>1, <2>2, <2>3
<1>3. PICK k \in T : \A j \in T : k <= j
  BY <1>2, Least
<1>4. PICK n \in S : k = N - n
  BY <1>1, <1>3
<1>5. \A m \in S : N - n <= N - m
  BY <1>1, <1>3, <1>4
<1>6. n \in 1..N /\ \A m \in S : m \in 1..N
  BY <1>4
<1>7. ASSUME NEW m \in S PROVE m <= n
  <2>1. N - n <= N - m /\ m \in 1..N
    BY <1>5, <1>6
  <2> QED
    BY <1>6, <2>1
<1> QED
  BY <1>7

(* What is declared at the place or after it does not count before it.     *)
LEMMA FilterSame ==
  ASSUME NEW f, NEW at \in Nat, NEW ids \in Seq(Nat), NEW k \in Nat, k >= at
  PROVE  FilterSymbols(f, Append(ids, k), at, FALSE) = FilterSymbols(f, ids, at, FALSE)
<1>1. PICK more : more = Append(ids, k)
  OBVIOUS
<1>2. /\ Len(ids) \in Nat /\ DOMAIN ids = 1..Len(ids) /\ DOMAIN more = 1..Len(ids) + 1
      /\ \A n \in 1..Len(ids) : more[n] = ids[n] /\ ids[n] \in Nat
      /\ more[Len(ids) + 1] = k
  BY <1>1, AppendProperties, LenProperties, ElementOfSeq
<1>3. PICK S : S = {n \in DOMAIN ids : ids[n] < at}
  OBVIOUS
<1>4. {n \in DOMAIN more : more[n] < at} = S
  <2>1. \A n \in DOMAIN more : n \in DOMAIN ids \/ n = Len(ids) + 1
    BY <1>2
  <2>2. ~ more[Len(ids) + 1] < at
    BY <1>2
  <2>3. \A n \in DOMAIN ids : n \in DOMAIN more /\ more[n] = ids[n]
    BY <1>2
  <2> QED
    BY <1>3, <2>1, <2>2, <2>3
<1>5. {n \in DOMAIN more : FALSE \/ more[n] < at} = S /\ {n \in DOMAIN ids : FALSE \/ ids[n] < at} = S
  BY <1>3, <1>4
<1>6. PICK m : m = Latest(S)
  OBVIOUS
<1>7. S # {} => more[m] = ids[m]
  <2>1. ASSUME S # {} PROVE \E n \in S : \A j \in S : j <= n
    BY <1>2, <1>3, <2>1, Greatest
  <2>2. S # {} => m \in S
    BY <1>6, <2>1 DEF Latest
  <2> QED
    BY <1>2, <1>3, <2>2
<1>8. FilterSymbols(f, ids, at, FALSE) = IF S = {} THEN None ELSE Symbol(f, ids[m])
  BY <1>5, <1>6 DEF FilterSymbols
<1>9. FilterSymbols(f, more, at, FALSE) = IF S = {} THEN None ELSE Symbol(f, more[m])
  BY <1>5, <1>6 DEF FilterSymbols
<1> QED
  BY <1>1, <1>7, <1>8, <1>9

(* A step that leaves the tables of a script as they are.                  *)
SameTables(f) == members'[f] = members[f] /\ delegate'[f] = delegate[f] /\ imports'[f] = imports[f]
(* A step that leaves all scripts as they are that are resolved.           *)
KeepsKnown == known \subseteq known' /\ family' = family /\ \A f \in known : SameTables(f)

(* The delegates behind a table of a script.                               *)
LEMMA LineSame ==
  ASSUME NEW f, NEW t, delegate'[f] = delegate[f]
  PROVE  Line(f, t)' = Line(f, t) /\ Endless(f, t)' = Endless(f, t)
<1>1. \A u : Delegate(f, u)' = Delegate(f, u)
  BY DEF Delegate
<1>2. Line(f, t)' = Line(f, t)
  BY <1>1 DEF Line
<1> QED
  BY <1>1, <1>2 DEF Endless

(* What is found in the tables of scripts that stay as they are.           *)
LEMMA TopSame ==
  ASSUME NEW g, SameTables(g.file)
  PROVE  TopMember(g)' = TopMember(g) /\ TopEndless(g)' = TopEndless(g)
<1>1. PICK f : f = g.file
  OBVIOUS
<1>2. \A t : Line(f, t)' = Line(f, t) /\ Endless(f, t)' = Endless(f, t)
  BY <1>1, LineSame DEF SameTables
<1>3. \A t : Hiding(f, t)' = Hiding(f, t)
  BY <1>1 DEF Hiding, SameTables
<1>4. \A t : AdditionalTableMembers(f, t)' = AdditionalTableMembers(f, t)
  <2> SUFFICES ASSUME NEW t PROVE AdditionalTableMembers(f, t)' = AdditionalTableMembers(f, t)
    OBVIOUS
  <2>1. PICK l : l = Line(f, t)
    OBVIOUS
  <2>2. {n \in 1..4 : Hiding(f, l[n])'} = {n \in 1..4 : Hiding(f, l[n])}
    BY <1>3
  <2>3. AdditionalTableMembers(f, t)' = members'[f][l[Earliest({n \in 1..4 : Hiding(f, l[n])'})]]
    BY <1>2, <2>1 DEF AdditionalTableMembers
  <2>4. AdditionalTableMembers(f, t) = members[f][l[Earliest({n \in 1..4 : Hiding(f, l[n])})]]
    BY <2>1 DEF AdditionalTableMembers
  <2> QED
    BY <1>1, <2>2, <2>3, <2>4 DEF SameTables
<1>5. TopMember(g)' = TopMember(g)
  BY <1>1, <1>4 DEF TopMember
<1>6. TopEndless(g)' = TopEndless(g)
  BY <1>1, <1>2 DEF TopEndless
<1> QED
  BY <1>5, <1>6

(* A step that leaves the look-ups of a script at a place as they are: for *)
(* those of functions it declares nothing, for others nothing before the   *)
(* place and nothing that hides what a delegate has.                       *)
Undisturbed(f, at, late) ==
  /\ delegate'[f] = delegate[f] /\ imports'[f] = imports[f]
  /\ \/ members'[f] = members[f]
     \/ /\ ~ late
        /\ \E p \in Places, k \in Nat :
             /\ k >= at /\ (p \in Tables => delegate[f][p] = None)
             /\ members'[f] = [members[f] EXCEPT ![p] = Append(@, k)]

(* What a place of the script has before the place stays the same.         *)
LEMMA PlaceKept ==
  ASSUME TypeOK, NEW f \in Scripts, NEW at \in Nat, NEW late \in BOOLEAN, Undisturbed(f, at, late),
         NEW p \in Places, NEW seen \in BOOLEAN, seen => late
  PROVE  FilterSymbols(f, members'[f][p], at, seen) = FilterSymbols(f, members[f][p], at, seen)
<1>1. CASE members'[f] = members[f]
  BY <1>1
<1>2. ASSUME NEW q \in Places, NEW k \in Nat, k >= at, ~ late,
             members'[f] = [members[f] EXCEPT ![q] = Append(@, k)]
      PROVE  FilterSymbols(f, members'[f][p], at, seen) = FilterSymbols(f, members[f][p], at, seen)
  <2>1. members[f] \in [Places -> Seq(Nat)] /\ members[f][p] \in Seq(Nat)
    BY DEF TypeOK
  <2>2. seen = FALSE
    BY <1>2
  <2>3. CASE p # q
    <3>1. members'[f][p] = members[f][p]
      BY <1>2, <2>1, <2>3
    <3> QED
      BY <3>1
  <2>4. CASE p = q
    <3>1. members'[f][p] = Append(members[f][p], k)
      BY <1>2, <2>1, <2>4
    <3>2. PICK ids : ids = members[f][p]
      OBVIOUS
    <3>3. FilterSymbols(f, Append(ids, k), at, FALSE) = FilterSymbols(f, ids, at, FALSE)
      BY <1>2, <2>1, <3>2, FilterSame
    <3> QED
      BY <2>2, <3>1, <3>2, <3>3, Zenon
  <2> QED
    BY <2>3, <2>4
<1> QED
  BY <1>1, <1>2 DEF Undisturbed

(* What a table or its delegates have before the place stays the same.     *)
LEMMA OwnKept ==
  ASSUME TypeOK, NEW f \in Scripts, NEW at \in Nat, NEW late \in BOOLEAN, Undisturbed(f, at, late),
         NEW t \in Tables, ~ Endless(f, t), NEW seen \in BOOLEAN, seen => late
  PROVE  FilterSymbols(f, AdditionalTableMembers(f, t)', at, seen)
           = FilterSymbols(f, AdditionalTableMembers(f, t), at, seen)
<1>1. PICK l : l = Line(f, t)
  OBVIOUS
<1>2. Line(f, t)' = l
  BY <1>1, LineSame DEF Undisturbed
<1>3. \A n \in 1..4 : l[n] \in Tables \cup {None}
  BY <1>1, LineFacts
<1>4. ASSUME NEW u \in Tables \cup {None}
      PROVE  Hiding(f, u)' = Hiding(f, u)
  <2>1. CASE members'[f] = members[f]
    BY <2>1 DEF Undisturbed, Hiding
  <2>2. ASSUME NEW q \in Places, NEW k \in Nat, q \in Tables => delegate[f][q] = None,
               members'[f] = [members[f] EXCEPT ![q] = Append(@, k)]
        PROVE  Hiding(f, u)' = Hiding(f, u)
    <3>1. members[f] \in [Places -> Seq(Nat)] /\ delegate'[f] = delegate[f]
      BY DEF TypeOK, Undisturbed
    <3>2. CASE u \in Tables /\ u = q
      BY <2>2, <3>1, <3>2 DEF Hiding
    <3>3. CASE u \in Tables /\ u # q
      <4>1. members'[f][u] = members[f][u]
        BY <2>2, <3>1, <3>3 DEF Places
      <4> QED
        BY <3>1, <4>1 DEF Hiding
    <3>4. CASE u = None
      BY <3>4 DEF Hiding
    <3> QED
      BY <3>2, <3>3, <3>4
  <2> QED
    BY <2>1, <2>2 DEF Undisturbed
<1>5. PICK H : H = {n \in 1..4 : Hiding(f, l[n])}
  OBVIOUS
<1>6. {n \in 1..4 : Hiding(f, l[n])'} = H
  BY <1>3, <1>4, <1>5
<1>7. PICK u \in Tables : u = l[Earliest(H)]
  BY <1>1, <1>5, HidingFacts
<1>8. AdditionalTableMembers(f, t) = members[f][u]
  BY <1>1, <1>5, <1>7 DEF AdditionalTableMembers
<1>9. AdditionalTableMembers(f, t)' = members'[f][u]
  BY <1>2, <1>6, <1>7 DEF AdditionalTableMembers
<1>10. u \in Places
  BY DEF Places
<1> QED
  BY <1>8, <1>9, <1>10, PlaceKept

(* The lemmas on gatherings, after a step.                                 *)
LEMMA InnerRepeatsNext == TypeOK' => Repeats(Steps', ImportMembersInner')
<1>1. (TypeOK => Repeats(Steps, ImportMembersInner))'
  BY InnerRepeats, PTL
<1> QED
  BY <1>1 DEF Repeats, Gathered

(* What is gathered without missing anything stays the same.               *)
LEMMA GatheredKept ==
  ASSUME TypeOK, TypeOK', KeepsKnown, NEW a \in Gatherings, ImportMembersInner[a].missing = None
  PROVE  ImportMembersInner'[a] = ImportMembersInner[a]
<1>1. PICK N, M : N = Steps /\ M = Steps'
  OBVIOUS
<1>2. PICK F, G : F = ImportMembersInner /\ G = ImportMembersInner'
  OBVIOUS
<1>3. Falls(N) /\ Repeats(N, F) /\ Repeats(M, G)
  BY <1>1, <1>2, StepsFall, InnerRepeats, InnerRepeatsNext
<1>4. ASSUME NEW b \in Gatherings, ~ Gathered(b)
      PROVE  N[b].missing # None \/ M[b] = N[b]
  <2>1. PICK g : g = Head(b.todo)
    OBVIOUS
  <2>2. N[b] = ImportNext(b) /\ M[b] = ImportNext(b)'
    BY <1>1 DEF Steps
  <2>3. \/ g.file \in b.seen
        \/ g.file \notin b.seen /\ g.file \notin known /\ ImportNext(b) = [b EXCEPT !.missing = g.file]
        \/ g.file \notin b.seen /\ g.file \in known
    BY <1>4, <2>1, StepFacts
  <2>4. CASE g.file \in b.seen
    <3>1. ImportNext(b) = [b EXCEPT !.todo = Tail(@)] /\ ImportNext(b)' = [b EXCEPT !.todo = Tail(@)]
      BY <2>1, <2>4 DEF ImportNext
    <3> QED
      BY <2>2, <3>1
  <2>5. CASE g.file \notin known /\ ImportNext(b) = [b EXCEPT !.missing = g.file]
    <3>1. /\ b \in [got : Seq(Items), seen : SUBSET Scripts, missing : Scripts \cup {None}, todo : Seq(Items)]
          /\ b.todo # <<>>
      BY <1>4 DEF Gatherings, Items, Gathered
    <3>2. g.file \in Scripts
      BY <2>1, <3>1, FilesOfTail DEF Items
    <3>3. N[b].missing # None
      BY <2>2, <2>5, <3>1, <3>2, NamesAssumption
    <3> QED
      BY <3>3
  <2>6. CASE g.file \notin b.seen /\ g.file \in known
    <3>1. g.file \in known' /\ imports'[g.file] = imports[g.file] /\ family' = family
      BY <2>6 DEF KeepsKnown, SameTables
    <3>2. ImportsOf(g.file)' = ImportsOf(g.file)
      BY <3>1 DEF ImportsOf
    <3>3. Nested(g)' = Nested(g)
      BY <3>2 DEF Nested
    <3>4. ImportNext(b) = [b EXCEPT !.seen = @ \cup {g.file}, !.got = Append(@, g), !.todo = Nested(g) \o Tail(@)]
      BY <2>1, <2>6 DEF ImportNext
    <3>5. ImportNext(b)' = [b EXCEPT !.seen = @ \cup {g.file}, !.got = Append(@, g), !.todo = Nested(g)' \o Tail(@)]
      BY <2>1, <2>6, <3>1 DEF ImportNext
    <3> QED
      BY <2>2, <3>3, <3>4, <3>5
  <2> QED
    BY <2>3, <2>4, <2>5, <2>6
<1>5. F[a].missing = None
  BY <1>2
<1>6. G[a] = F[a]
  BY <1>3, <1>4, <1>5, GatherSame
<1> QED
  BY <1>2, <1>6

(* A look-up in the members of a table that is not stopped stays the same. *)
LEMMA TableKept ==
  ASSUME TypeOK, TypeOK', Recorded, KeepsKnown,
         NEW f \in Scripts, NEW at \in Nat, NEW late \in BOOLEAN, Undisturbed(f, at, late),
         NEW t \in Tables, ~ Stopped(MembersOfTable(f, t, at, late))
  PROVE  MembersOfTable(f, t, at, late)' = MembersOfTable(f, t, at, late)
<1>1. ~ Endless(f, t) /\ ~ Endless(f, t)'
  <2>1. Stopped(Overflow)
    BY DEF Stopped, Overflow
  <2>2. ~ Endless(f, t)
    BY <2>1 DEF MembersOfTable
  <2> QED
    BY <2>2, LineSame DEF Undisturbed
<1>2. PICK seen : seen = (late /\ t # "const")
  OBVIOUS
<1>3. PICK own : own = FilterSymbols(f, AdditionalTableMembers(f, t), at, seen)
  OBVIOUS
<1>4. FilterSymbols(f, AdditionalTableMembers(f, t)', at, seen) = own
  BY <1>1, <1>2, <1>3, OwnKept
<1>5. PICK a : a = ImportMembers(f, t)
  OBVIOUS
<1>6. a \in Gatherings /\ Within(a, {f}, Reached(Needs(f)))
  BY <1>5, MembersGathered
<1>7. MembersOfTable(f, t, at, late) = Joined(own, a, t)
  BY <1>1, <1>2, <1>3, <1>5 DEF MembersOfTable
<1>8. ASSUME NEW g \in ToSet(a.got)
      PROVE  TopMember(g)' = TopMember(g) /\ TopEndless(g)' = TopEndless(g)
  <2>1. g.file \in Files(a.got)
    BY <1>8 DEF Files, ToSet
  <2>2. SameTables(g.file)
    BY <1>6, <2>1 DEF Within, KeepsKnown
  <2> QED
    BY <2>2, TopSame
<1>9. a.missing = None
  <2>1. a.missing # None => Stopped(Waiting(a.missing))
    BY DEF Stopped, Waiting, Nothing, Found
  <2>2. Stopped(Overflow)
    BY DEF Stopped, Overflow
  <2>3. a.missing # None => Joined(own, a, t) \in {Overflow, Waiting(a.missing)}
    BY DEF Joined
  <2> QED
    BY <1>7, <2>1, <2>2, <2>3
<1>10. ImportMembers(f, t)' = a
  <2>1. PICK c : c = Gathering(f, t)
    OBVIOUS
  <2>2. imports'[f] = imports[f] /\ family' = family
    BY DEF Undisturbed, KeepsKnown
  <2>3. ImportsOf(f)' = ImportsOf(f)
    BY <2>2 DEF ImportsOf
  <2>4. ImportsFor(f, t)' = ImportsFor(f, t)
    BY <2>2, <2>3 DEF ImportsFor
  <2>5. Gathering(f, t)' = c
    BY <2>1, <2>4 DEF Gathering
  <2>6. c \in Gatherings
    BY <2>1, GatheringBegins
  <2>7. ImportMembersInner'[c] = a
    BY <1>5, <1>9, <2>1, <2>6, GatheredKept DEF ImportMembers
  <2> QED
    BY <2>5, <2>7 DEF ImportMembers
<1>11. LastFound(a.got, t)' = LastFound(a.got, t)
  <2>1. \A n \in DOMAIN a.got : TopMember(a.got[n])' = TopMember(a.got[n])
    BY <1>8 DEF ToSet
  <2>2. PICK W : W = {n \in DOMAIN a.got : TopMember(a.got[n]) # None}
    OBVIOUS
  <2>3. {n \in DOMAIN a.got : TopMember(a.got[n])' # None} = W
    BY <2>1, <2>2
  <2>4. W # {} => Latest(W) \in DOMAIN a.got
    <3>1. a.got \in Seq(Items)
      BY <1>6, GatheringFacts DEF Items
    <3>2. Len(a.got) \in Nat /\ DOMAIN a.got = 1..Len(a.got)
      BY <3>1, LenProperties
    <3>3. ASSUME W # {} PROVE \E n \in W : \A m \in W : m <= n
      BY <2>2, <3>2, <3>3, Greatest
    <3> QED
      BY <2>2, <3>3 DEF Latest
  <2>5. PICK k : k = Latest(W)
    OBVIOUS
  <2>6. LastFound(a.got, t) = IF W = {} THEN Nothing ELSE Found(TopMember(a.got[k]), t)
    BY <2>2, <2>5 DEF LastFound
  <2>7. LastFound(a.got, t)' = IF W = {} THEN Nothing ELSE Found(TopMember(a.got[k])', t)
    BY <2>3, <2>5 DEF LastFound, Nothing, Found
  <2> QED
    BY <2>1, <2>4, <2>5, <2>6, <2>7
<1>12. Joined(own, a, t)' = Joined(own, a, t)
  <2>1. (\E g \in ToSet(a.got) : TopEndless(g)') <=> (\E g \in ToSet(a.got) : TopEndless(g))
    BY <1>8
  <2>2. PICK l : l = LastFound(a.got, t)
    OBVIOUS
  <2>3. PICK e : e = (\E g \in ToSet(a.got) : TopEndless(g))
    OBVIOUS
  <2>4. CASE \E g \in ToSet(a.got) : TopEndless(g)
    BY <2>1, <2>4 DEF Joined, Overflow
  <2>5. CASE ~ \E g \in ToSet(a.got) : TopEndless(g)
    <3>1. Joined(own, a, t) = IF own # None THEN Found(own, t) ELSE l
      BY <1>9, <2>2, <2>5 DEF Joined
    <3>2. Joined(own, a, t)' = IF own # None THEN Found(own, t) ELSE l
      BY <1>9, <1>11, <2>1, <2>2, <2>5 DEF Joined
    <3> QED
      BY <3>1, <3>2
  <2> QED
    BY <2>4, <2>5
<1>13. MembersOfTable(f, t, at, late)' = Joined(own, a, t)'
  BY <1>1, <1>2, <1>4, <1>10 DEF MembersOfTable, Joined, LastFound
<1> QED
  BY <1>7, <1>12, <1>13

(* A look-up of a name that is not stopped stays the same.                 *)
LEMMA ResolveKept ==
  ASSUME TypeOK, TypeOK', Recorded, KeepsKnown,
         NEW f \in Scripts, NEW at \in Nat, NEW late \in BOOLEAN, Undisturbed(f, at, late),
         ~ Stopped(ResolveName(f, at, late))
  PROVE  ResolveName(f, at, late)' = ResolveName(f, at, late)
<1>1. PICK l : l = FilterSymbols(f, members[f]["local"], at, FALSE)
  OBVIOUS
<1>2. FilterSymbols(f, members'[f]["local"], at, FALSE) = l
  BY <1>1, PlaceKept DEF Places
<1>3. CASE l # None
  BY <1>1, <1>2, <1>3 DEF ResolveName, ResolveOr, Found
<1>4. CASE l = None
  <2>1. PICK p, q, r : /\ p = MembersOfTable(f, "const", at, late) /\ q = MembersOfTable(f, "this", at, late)
                       /\ r = MembersOfTable(f, "root", at, late)
    OBVIOUS
  <2>2. PICK x, y, z : /\ x = MembersOfTable(f, "const", at, late)' /\ y = MembersOfTable(f, "this", at, late)'
                       /\ z = MembersOfTable(f, "root", at, late)'
    OBVIOUS
  <2>3. (~ Stopped(p) => x = p) /\ (~ Stopped(q) => y = q) /\ (~ Stopped(r) => z = r)
    BY <2>1, <2>2, TableKept DEF Tables
  <2>4. ResolveName(f, at, late) = OrElse(p, TRUE, OrElse(q, TRUE, r))
    BY <1>1, <1>4, <2>1 DEF ResolveName, ResolveOr, FirstFound
  <2>5. ResolveName(f, at, late)' = OrElse(x, TRUE, OrElse(y, TRUE, z))
    BY <1>2, <1>4, <2>2 DEF ResolveName, ResolveOr, FirstFound, OrElse, Stopped
  <2>6. ~ Stopped(OrElse(p, TRUE, OrElse(q, TRUE, r)))
    BY <2>4
  <2>7. OrElse(x, TRUE, OrElse(y, TRUE, z)) = OrElse(p, TRUE, OrElse(q, TRUE, r))
    BY <2>3, <2>6 DEF OrElse
  <2> QED
    BY <2>4, <2>5, <2>7
<1> QED
  BY <1>3, <1>4

(* symbols_at gives what resolve_name gives, where nothing stops it.       *)
LEMMA SymbolsAtFacts ==
  \A f, at, late : ~ Stopped(ResolveName(f, at, late)) =>
    SymbolsAt(f, at, late) = ResolveName(f, at, late).symbol
<1> SUFFICES ASSUME NEW f, NEW at, NEW late, ~ Stopped(ResolveName(f, at, late))
             PROVE  SymbolsAt(f, at, late) = ResolveName(f, at, late).symbol
  OBVIOUS
<1>1. PICK l : l = FilterSymbols(f, members[f]["local"], at, FALSE)
  OBVIOUS
<1>2. PICK p, q, r : /\ p = MembersOfTable(f, "const", at, late) /\ q = MembersOfTable(f, "this", at, late)
                     /\ r = MembersOfTable(f, "root", at, late)
  OBVIOUS
<1>3. PICK s : s = <<l, p.symbol, q.symbol, r.symbol>>
  OBVIOUS
<1>4. SymbolsAt(f, at, late) = First(s)
  BY <1>1, <1>2, <1>3 DEF SymbolsAt
<1>5. ASSUME NEW n \in 1..4, s[n] # None, \A m \in 1..n - 1 : s[m] = None
      PROVE  First(s) = s[n]
  <2>1. PICK S : S = {m \in DOMAIN s : s[m] # None}
    OBVIOUS
  <2>2. S \subseteq 1..4 /\ n \in S /\ \A m \in S : n <= m
    BY <1>3, <1>5, <2>1
  <2>3. Earliest(S) \in S
    <3>1. S \subseteq Nat /\ S # {}
      BY <2>2
    <3> QED
      BY <3>1, EarliestFacts
  <2>4. \A m \in S : Earliest(S) <= m
    <3>1. \E k \in S : \A m \in S : k <= m
      BY <2>2
    <3> QED
      BY <3>1 DEF Earliest
  <2>5. Earliest(S) = n
    <3>1. Earliest(S) \in 1..4 /\ Earliest(S) <= n /\ n <= Earliest(S)
      BY <2>2, <2>3, <2>4
    <3> QED
      BY <3>1
  <2> QED
    BY <2>1, <2>2, <2>5 DEF First
<1>6. (\A n \in 1..4 : s[n] = None) => First(s) = None
  BY <1>3 DEF First
<1>7. CASE l # None
  <2>1. ResolveName(f, at, late).symbol = l
    BY <1>1, <1>7 DEF ResolveName, ResolveOr, Found
  <2>2. First(s) = l
    BY <1>3, <1>5, <1>7
  <2> QED
    BY <1>4, <2>1, <2>2
<1>8. CASE l = None
  <2>1. ResolveName(f, at, late) = OrElse(p, TRUE, OrElse(q, TRUE, r))
    BY <1>1, <1>2, <1>8 DEF ResolveName, ResolveOr, FirstFound
  <2>2. ~ Stopped(OrElse(p, TRUE, OrElse(q, TRUE, r)))
    BY <2>1
  <2>3. s[1] = None /\ s[2] = p.symbol /\ s[3] = q.symbol /\ s[4] = r.symbol
    BY <1>3, <1>8
  <2>4. CASE p.symbol # None
    <3>1. OrElse(p, TRUE, OrElse(q, TRUE, r)) = p
      BY <2>4 DEF OrElse
    <3>2. First(s) = p.symbol
      BY <1>5, <2>3, <2>4
    <3> QED
      BY <1>4, <2>1, <3>1, <3>2
  <2>5. CASE p.symbol = None /\ q.symbol # None
    <3>1. OrElse(p, TRUE, OrElse(q, TRUE, r)) = q
      BY <2>2, <2>5 DEF OrElse
    <3>2. First(s) = q.symbol
      BY <1>5, <2>3, <2>5
    <3> QED
      BY <1>4, <2>1, <3>1, <3>2
  <2>6. CASE p.symbol = None /\ q.symbol = None
    <3>1. OrElse(p, TRUE, OrElse(q, TRUE, r)) = r
      BY <2>2, <2>6 DEF OrElse
    <3>2. First(s) = r.symbol
      BY <1>5, <1>6, <2>3, <2>6
    <3> QED
      BY <1>4, <2>1, <3>1, <3>2
  <2> QED
    BY <2>4, <2>5, <2>6
<1> QED
  BY <1>7, <1>8

(* What is declared is a symbol.                                           *)
LEMMA FilterTyped ==
  ASSUME NEW f \in Scripts, NEW ids \in Seq(Nat), NEW at, NEW late
  PROVE  FilterSymbols(f, ids, at, late) \in Symbols
<1>1. PICK S : S = {n \in DOMAIN ids : late \/ ids[n] < at}
  OBVIOUS
<1>2. Len(ids) \in Nat /\ DOMAIN ids = 1..Len(ids) /\ \A n \in DOMAIN ids : ids[n] \in Nat
  BY LenProperties, ElementOfSeq
<1>3. FilterSymbols(f, ids, at, late) = IF S = {} THEN None ELSE Symbol(f, ids[Latest(S)])
  BY <1>1 DEF FilterSymbols
<1>4. ASSUME S # {} PROVE Latest(S) \in S
  <2>1. \E n \in S : \A m \in S : m <= n
    BY <1>1, <1>2, <1>4, Greatest
  <2> QED
    BY <2>1 DEF Latest
<1>5. S # {} => ids[Latest(S)] \in Nat
  BY <1>1, <1>2, <1>4
<1> QED
  BY <1>3, <1>5 DEF Symbols, Symbol

(* The members of a table are numbers of statements.                       *)
LEMMA AdditionalTyped ==
  TypeOK => \A f \in Scripts, t \in Tables : ~ Endless(f, t) => AdditionalTableMembers(f, t) \in Seq(Nat)
<1> SUFFICES ASSUME TypeOK, NEW f \in Scripts, NEW t \in Tables, ~ Endless(f, t)
             PROVE  AdditionalTableMembers(f, t) \in Seq(Nat)
  OBVIOUS
<1>1. PICK u \in Tables : u = Line(f, t)[Earliest({n \in 1..4 : Hiding(f, Line(f, t)[n])})]
  BY HidingFacts
<1>2. AdditionalTableMembers(f, t) = members[f][u]
  BY <1>1 DEF AdditionalTableMembers
<1>3. members[f][u] \in Seq(Nat)
  BY DEF TypeOK, Places
<1> QED
  BY <1>2, <1>3

(* So is what an import has.                                               *)
LEMMA TopTyped ==
  TypeOK => \A g \in Items : ~ TopEndless(g) => TopMember(g) \in Symbols
<1> SUFFICES ASSUME TypeOK, NEW g \in Items, ~ TopEndless(g) PROVE TopMember(g) \in Symbols
  OBVIOUS
<1>1. g.file \in Scripts /\ g.how \in Hows
  BY DEF Items
<1>2. PLACES[g.how] \subseteq Tables
  BY <1>1 DEF Hows, PLACES, Tables
<1> DEFINE Of(t) == IF t \in PLACES[g.how] THEN FlatMember(g.file, AdditionalTableMembers(g.file, t)) ELSE None
<1>3. \A t : Of(t) \in Symbols
  <2> SUFFICES ASSUME NEW t \in PLACES[g.how] PROVE FlatMember(g.file, AdditionalTableMembers(g.file, t)) \in Symbols
    BY DEF Symbols
  <2>1. PICK ids : ids = AdditionalTableMembers(g.file, t)
    OBVIOUS
  <2>2. ids \in Seq(Nat)
    BY <1>1, <1>2, <2>1, AdditionalTyped DEF TopEndless
  <2>3. ids # <<>> => Last(ids) \in Nat
    <3>1. ids # <<>> => Len(ids) \in DOMAIN ids
      BY <2>2, LenProperties, EmptySeq
    <3> QED
      BY <2>2, <3>1, ElementOfSeq, LenProperties DEF Last
  <2> QED
    BY <1>1, <2>1, <2>3 DEF FlatMember, Symbols, Symbol
<1>4. PICK s : s = <<Of("root"), Of("const"), Of("this")>>
  OBVIOUS
<1>5. TopMember(g) = First(s)
  BY <1>4 DEF TopMember
<1> HIDE DEF Of
<1>6. DOMAIN s = 1..3 /\ \A n \in 1..3 : s[n] \in Symbols
  BY <1>3, <1>4
<1>7. PICK S : S = {n \in DOMAIN s : s[n] # None}
  OBVIOUS
<1>8. S # {} => Earliest(S) \in S
  <2>1. S \subseteq Nat
    BY <1>6, <1>7
  <2> QED
    BY <2>1, EarliestFacts
<1>9. First(s) = IF S = {} THEN None ELSE s[Earliest(S)]
  BY <1>7 DEF First
<1> QED
  BY <1>5, <1>6, <1>7, <1>8, <1>9 DEF Symbols

(* What a look-up in a table finds is a symbol.                            *)
LEMMA MembersTyped ==
  TypeOK /\ Recorded => \A f \in Scripts, t \in Tables : \A at, late :
    MembersOfTable(f, t, at, late).symbol \in Symbols
<1> SUFFICES ASSUME TypeOK, Recorded, NEW f \in Scripts, NEW t \in Tables, NEW at, NEW late
             PROVE  MembersOfTable(f, t, at, late).symbol \in Symbols
  OBVIOUS
<1>1. /\ None \in Symbols /\ Overflow.symbol = None /\ Nothing.symbol = None
      /\ \A w : Waiting(w).symbol = None
  BY DEF Symbols, Overflow, Waiting, Nothing, Found
<1>2. CASE Endless(f, t)
  BY <1>1, <1>2 DEF MembersOfTable
<1>3. CASE ~ Endless(f, t)
  <2>1. PICK a : a = ImportMembers(f, t)
    OBVIOUS
  <2>2. PICK own : own = FilterSymbols(f, AdditionalTableMembers(f, t), at, late /\ t # "const")
    OBVIOUS
  <2>3. own \in Symbols
    BY <1>3, <2>2, AdditionalTyped, FilterTyped
  <2>4. MembersOfTable(f, t, at, late) = Joined(own, a, t)
    BY <1>3, <2>1, <2>2 DEF MembersOfTable
  <2>5. CASE (\E g \in ToSet(a.got) : TopEndless(g)) \/ a.missing # None
    <3>1. Joined(own, a, t) \in {Overflow, Waiting(a.missing)}
      BY <2>5 DEF Joined
    <3> QED
      BY <1>1, <2>4, <3>1
  <2>6. CASE ~ (\E g \in ToSet(a.got) : TopEndless(g)) /\ a.missing = None
    <3>1. PICK W : W = {n \in DOMAIN a.got : TopMember(a.got[n]) # None}
      OBVIOUS
    <3>2. a.got \in Seq(Items)
      <4>1. a \in Gatherings
        BY <2>1, MembersGathered
      <4> QED
        BY <4>1, GatheringFacts DEF Items
    <3>3. Len(a.got) \in Nat /\ DOMAIN a.got = 1..Len(a.got) /\ \A n \in DOMAIN a.got : a.got[n] \in Items
      BY <3>2, LenProperties, ElementOfSeq
    <3>4. ASSUME W # {} PROVE TopMember(a.got[Latest(W)]) \in Symbols
      <4>1. \E n \in W : \A m \in W : m <= n
        BY <3>1, <3>3, <3>4, Greatest
      <4>2. Latest(W) \in DOMAIN a.got
        BY <3>1, <4>1 DEF Latest
      <4>3. PICK k : k = Latest(W)
        OBVIOUS
      <4>4. a.got[k] \in Items /\ ~ TopEndless(a.got[k])
        BY <2>6, <3>3, <4>2, <4>3 DEF ToSet
      <4> QED
        BY <4>3, <4>4, TopTyped
    <3>5. Joined(own, a, t) = IF own # None THEN Found(own, t) ELSE LastFound(a.got, t)
      BY <2>6 DEF Joined
    <3>6. LastFound(a.got, t) = IF W = {} THEN Nothing ELSE Found(TopMember(a.got[Latest(W)]), t)
      BY <3>1 DEF LastFound
    <3>7. \A s, p : Found(s, p).symbol = s
      BY DEF Found
    <3> QED
      BY <1>1, <2>3, <2>4, <3>4, <3>5, <3>6, <3>7
  <2> QED
    BY <2>5, <2>6
<1> QED
  BY <1>2, <1>3

(* What a look-up of a name finds is a symbol.                             *)
LEMMA ResolveTyped ==
  TypeOK /\ Recorded => \A f \in Scripts : \A at, late : ResolveName(f, at, late).symbol \in Symbols
<1> SUFFICES ASSUME TypeOK, Recorded, NEW f \in Scripts, NEW at, NEW late
             PROVE  ResolveName(f, at, late).symbol \in Symbols
  OBVIOUS
<1>1. PICK l : l = FilterSymbols(f, members[f]["local"], at, FALSE)
  OBVIOUS
<1>2. l \in Symbols
  <2>1. members[f]["local"] \in Seq(Nat)
    BY DEF TypeOK, Places
  <2> QED
    BY <1>1, <2>1, FilterTyped
<1>3. FirstFound(f, at, late, TRUE).symbol \in Symbols
  BY MembersTyped DEF FirstFound, OrElse, Tables
<1> QED
  BY <1>1, <1>2, <1>3 DEF ResolveName, ResolveOr, Found

(* The top of the stack.                                                   *)
LEMMA StackFacts ==
  TypeOK /\ stack # <<>> =>
    /\ Len(stack) \in Nat /\ Len(stack) > 0 /\ DOMAIN stack = 1..Len(stack) /\ Len(stack) \in DOMAIN stack
    /\ \A n \in DOMAIN stack : stack[n] \in Frames
    /\ Top = stack[Len(stack)] /\ Top \in Frames /\ Top.file \in Scripts /\ Top.file \in Asking
<1> SUFFICES ASSUME TypeOK, stack # <<>>
             PROVE  /\ Len(stack) \in Nat /\ Len(stack) > 0 /\ DOMAIN stack = 1..Len(stack)
                    /\ Len(stack) \in DOMAIN stack
                    /\ \A n \in DOMAIN stack : stack[n] \in Frames
                    /\ Top = stack[Len(stack)] /\ Top \in Frames /\ Top.file \in Scripts /\ Top.file \in Asking
  OBVIOUS
<1>1. stack \in Seq(Frames)
  BY DEF TypeOK
<1>2. /\ Len(stack) \in Nat /\ Len(stack) > 0 /\ DOMAIN stack = 1..Len(stack)
      /\ \A n \in DOMAIN stack : stack[n] \in Frames
  BY <1>1, LenProperties, EmptySeq, ElementOfSeq
<1>3. Top = stack[Len(stack)]
  BY DEF Top, Last
<1>4. Len(stack) \in DOMAIN stack
  BY <1>2
<1>5. Top \in Frames /\ Top.file \in Scripts
  BY <1>2, <1>3, <1>4 DEF Frames
<1>6. Top.file \in Asking
  BY <1>3, <1>4 DEF Asking
<1> QED
  BY <1>2, <1>3, <1>4, <1>5, <1>6

(* The scripts that are asked for are scripts.                             *)
LEMMA AskingFacts == TypeOK => Asking \subseteq Scripts
<1> SUFFICES ASSUME TypeOK, NEW n \in DOMAIN stack PROVE stack[n].file \in Scripts
  BY DEF Asking
<1>1. stack[n] \in Frames
  BY LenProperties, ElementOfSeq DEF TypeOK
<1> QED
  BY <1>1 DEF Frames

(* Every script on the stack is reached from those below it.               *)
LEMMA StackReached ==
  TypeOK /\ Stacked => \A m, n \in DOMAIN stack : m < n => stack[n].file \in Reached(Needs(stack[m].file))
<1> SUFFICES ASSUME TypeOK, Stacked, NEW m \in DOMAIN stack
             PROVE  \A n \in DOMAIN stack : m < n => stack[n].file \in Reached(Needs(stack[m].file))
  OBVIOUS
<1>1. Len(stack) \in Nat /\ DOMAIN stack = 1..Len(stack) /\ \A n \in DOMAIN stack : stack[n].file \in Scripts
  <2>1. Len(stack) \in Nat /\ DOMAIN stack = 1..Len(stack) /\ \A n \in DOMAIN stack : stack[n] \in Frames
    BY LenProperties, ElementOfSeq DEF TypeOK
  <2> QED
    BY <2>1 DEF Frames
<1>2. PICK R : R = Reached(Needs(stack[m].file))
  OBVIOUS
<1>3. R \in SUBSET Scripts /\ \A g \in R : Needs(g) \subseteq R
  BY <1>1, <1>2, NeedsFacts, ReachedFacts
<1>4. \A n \in DOMAIN stack : n > 1 => stack[n].file \in Reached(Needs(stack[n - 1].file))
  BY DEF Stacked
<1> DEFINE T == {k \in Nat : m + k + 1 <= Len(stack) => stack[m + k + 1].file \in R}
<1>5. 0 \in T
  <2> SUFFICES ASSUME m + 1 <= Len(stack) PROVE stack[m + 1].file \in R
    BY <1>1
  <2>1. m + 1 \in DOMAIN stack /\ m + 1 > 1 /\ (m + 1) - 1 = m
    BY <1>1
  <2> QED
    BY <1>2, <1>4, <2>1
<1>6. ASSUME NEW k \in Nat, k \in T
      PROVE  k + 1 \in T
  <2> SUFFICES ASSUME m + (k + 1) + 1 <= Len(stack) PROVE stack[m + (k + 1) + 1].file \in R
    OBVIOUS
  <2>1. PICK j : j = m + k + 1
    OBVIOUS
  <2>2. j \in DOMAIN stack /\ j + 1 \in DOMAIN stack /\ j + 1 > 1 /\ (j + 1) - 1 = j /\ j + 1 = m + (k + 1) + 1
    BY <1>1, <2>1
  <2>3. stack[j].file \in R
    BY <1>1, <1>6, <2>1, <2>2
  <2>4. stack[j + 1].file \in Reached(Needs(stack[j].file))
    BY <1>4, <2>2
  <2>5. Reached(Needs(stack[j].file)) \subseteq R
    <3>1. stack[j].file \in Scripts /\ stack[m].file \in Scripts
      BY <1>1, <2>2
    <3>2. Needs(stack[j].file) \in SUBSET Scripts /\ Needs(stack[m].file) \in SUBSET Scripts
      BY <3>1, NeedsFacts
    <3>3. Needs(stack[j].file) \subseteq R
      BY <1>3, <2>3
    <3> QED
      BY <1>2, <3>2, <3>3, ReachedOver
  <2> QED
    BY <2>2, <2>4, <2>5
<1>7. Nat \subseteq T
  <2> HIDE DEF T
  <2> QED
    BY <1>5, <1>6, SetInduction
<1>8. ASSUME NEW n \in DOMAIN stack, m < n
      PROVE  stack[n].file \in R
  <2>1. n - m - 1 \in Nat /\ m + (n - m - 1) + 1 = n /\ n <= Len(stack)
    BY <1>1, <1>8
  <2>2. n - m - 1 \in T
    BY <1>7, <2>1
  <2> QED
    BY <2>1, <2>2
<1> QED
  BY <1>2, <1>8

(* When the texts stay, so does what is asked for and reached.             *)
LEMMA TextSame ==
  text' = text =>
    /\ \A f : Needs(f)' = Needs(f) /\ (\A t : LastDelegate(f, t)' = LastDelegate(f, t))
    /\ \A S : Reached(S)' = Reached(S)
    /\ \A f : Circle(f)' <=> Circle(f)
<1> SUFFICES ASSUME text' = text
             PROVE  /\ \A f : Needs(f)' = Needs(f) /\ (\A t : LastDelegate(f, t)' = LastDelegate(f, t))
                    /\ \A S : Reached(S)' = Reached(S)
                    /\ \A f : Circle(f)' <=> Circle(f)
  OBVIOUS
<1>1. \A f : Needs(f)' = Needs(f)
  BY DEF Needs, Including, IncludesOf, LibsOf
<1>2. \A f, t : LastDelegate(f, t)' = LastDelegate(f, t)
  BY DEF LastDelegate
<1>3. \A S : Reached(S)' = Reached(S)
  BY <1>1 DEF Reached
<1>4. \A f : Circle(f)' <=> Circle(f)
  BY <1>2 DEF Circle
<1> QED
  BY <1>1, <1>2, <1>3, <1>4

(* What is recorded stays true.                                            *)
LEMMA RecordedSame ==
  ASSUME Recorded, UNCHANGED <<text, imports, delegate>>
  PROVE  Recorded'
<1>1. \A f : Needs(f)' = Needs(f) /\ (\A t : LastDelegate(f, t)' = LastDelegate(f, t))
  BY TextSame
<1>2. imports' = imports /\ delegate' = delegate
  OBVIOUS
<1>3. \A f \in Scripts, t \in Tables : ToSet(imports'[f][t]) \subseteq Needs(f)'
  BY <1>1, <1>2 DEF Recorded
<1>4. \A f \in Scripts, t \in Tables : delegate'[f][t] = LastDelegate(f, t)'
  BY <1>1, <1>2 DEF Recorded
<1> QED
  BY <1>3, <1>4 DEF Recorded

(* An answer stays what a look-up gives.                                   *)
LEMMA SettledKept ==
  ASSUME TypeOK, TypeOK', Recorded, KeepsKnown, NEW a \in Answers,
         a.late => Finished(a.file)',
         ~ a.late => a.at <= Len(text'[a.file]),
         Same(a) \/ (~ a.late /\ Unsettled(a)'),
         Undisturbed(a.file, a.at, a.late) \/ (~ a.late /\ Unsettled(a)')
  PROVE  Settled(a)'
<1>1. a.file \in Scripts /\ a.at \in Nat /\ a.late \in BOOLEAN
  BY DEF Answers
<1>2. CASE ~ a.late /\ Unsettled(a)'
  BY <1>2 DEF Settled
<1>3. CASE Undisturbed(a.file, a.at, a.late) /\ Same(a)
  <2>1. ~ Stopped(ResolveName(a.file, a.at, a.late))
    BY <1>3 DEF Same
  <2>2. ResolveName(a.file, a.at, a.late)' = ResolveName(a.file, a.at, a.late)
    BY <1>1, <1>3, <2>1, ResolveKept
  <2>3. Same(a)'
    BY <1>3, <2>2 DEF Same, Stopped
  <2> QED
    BY <2>3 DEF Settled
<1> QED
  BY <1>2, <1>3

(* Answers stay what look-ups give when nothing is declared.               *)
LEMMA KeptSame ==
  ASSUME TypeOK, TypeOK', Recorded, Kept, known \subseteq known',
         UNCHANGED <<text, members, delegate, imports, family, answers>>,
         \A f : Finished(f) => Finished(f)'
  PROVE  Kept'
<1> SUFFICES ASSUME NEW n \in DOMAIN answers, answers[n].in = "this" PROVE Settled(answers[n])'
  BY DEF Kept
<1>1. PICK a : a = answers[n]
  OBVIOUS
<1>2. a \in Answers /\ Settled(a)
  BY <1>1, LenProperties, ElementOfSeq DEF Kept, TypeOK
<1>3. KeepsKnown /\ Undisturbed(a.file, a.at, a.late)
  BY DEF KeepsKnown, SameTables, Undisturbed
<1>4. Unsettled(a)' <=> Unsettled(a)
  BY DEF Unsettled
<1>5. a.late => Finished(a.file)'
  BY <1>2 DEF Settled
<1>6. Same(a) \/ (~ a.late /\ Unsettled(a)')
  BY <1>2, <1>4 DEF Settled
<1>7. ~ a.late => a.at <= Len(text'[a.file])
  BY <1>2 DEF Settled
<1>8. Settled(a)'
  BY <1>2, <1>3, <1>5, <1>6, <1>7, SettledKept
<1> QED
  BY <1>1, <1>8

(* A script of the stack, or one that such a script reaches, is reached.   *)
LEMMA AskingReaches ==
  TypeOK => \A f \in Asking : {f} \cup Reached(Needs(f)) \subseteq Reached(Asking)
<1> SUFFICES ASSUME TypeOK, NEW f \in Asking PROVE {f} \cup Reached(Needs(f)) \subseteq Reached(Asking)
  OBVIOUS
<1>1. Asking \in SUBSET Scripts /\ f \in Scripts
  BY AskingFacts
<1>2. Asking \subseteq Reached(Asking) /\ Needs(f) \subseteq Reached(Asking) /\ Needs(f) \in SUBSET Scripts
  BY <1>1, ReachedFacts, NeedsFacts
<1>3. Reached(Needs(f)) \subseteq Reached(Asking)
  BY <1>1, <1>2, ReachedOver
<1> QED
  BY <1>2, <1>3

(* A query fails: there is a cause.                                        *)
LEMMA FailHasCause ==
  ASSUME TypeOK, Stacked, stack # <<>>, NEW r, Cause(Top.file, r),
         UNCHANGED <<text, stack>>,
         \/ r.overflow /\ failed' = "overflow"
         \/ ~ r.overflow /\ r.missing # None /\ r.missing \in Asking /\ failed' = "cycle"
  PROVE  CrashHasCause'
<1>1. PICK f : f = Top.file
  OBVIOUS
<1>2. f \in Asking /\ f \in Scripts /\ f = stack[Len(stack)].file /\ Len(stack) \in Nat
      /\ DOMAIN stack = 1..Len(stack) /\ Len(stack) \in DOMAIN stack
  BY <1>1, StackFacts
<1>3. /\ Asking' = Asking /\ (\A g : Circle(g)' <=> Circle(g)) /\ (\A g : Needs(g)' = Needs(g))
      /\ (\A S : Reached(S)' = Reached(S))
  BY TextSame DEF Asking
<1>4. CASE r.overflow /\ failed' = "overflow"
  <2>1. PICK g \in {f} \cup Reached(Needs(f)) : Circle(g)
    BY <1>1, <1>4 DEF Cause
  <2>2. g \in Reached(Asking)
    BY <1>2, <2>1, AskingReaches
  <2>3. Reached(Asking)' = Reached(Asking)
    BY <1>3 DEF Reached
  <2> QED
    BY <1>3, <1>4, <2>1, <2>2, <2>3 DEF CrashHasCause
<1>5. CASE ~ r.overflow /\ r.missing # None /\ r.missing \in Asking /\ failed' = "cycle"
  <2>1. PICK g : g = r.missing
    OBVIOUS
  <2>2. g \in Reached(Needs(f)) /\ g # f /\ g \in Asking
    BY <1>1, <1>5, <2>1 DEF Cause
  <2>3. PICK m \in DOMAIN stack : g = stack[m].file
    BY <2>2 DEF Asking
  <2>4. m < Len(stack)
    BY <1>2, <2>2, <2>3
  <2>5. f \in Reached(Needs(g))
    BY <1>2, <2>3, <2>4, StackReached
  <2>6. Reached(Needs(f))' = Reached(Needs(f)) /\ Reached(Needs(g))' = Reached(Needs(g))
    BY <1>3 DEF Reached
  <2>7. Mutual'
    BY <1>2, <1>3, <2>2, <2>5, <2>6 DEF Mutual
  <2> QED
    BY <1>5, <2>7 DEF CrashHasCause
<1> QED
  BY <1>4, <1>5

(* A query begins: the script that is asked for is put on the stack.       *)
LEMMA PushKeeps ==
  ASSUME TypeOK, Stacked, stack # <<>>, NEW g \in Scripts, g \in Reached(Needs(Top.file)),
         g \notin Asking, g \notin known, NEW s \in Statements \cup {None},
         stack' = Append([stack EXCEPT ![Len(stack)].waits = s], Frame(g)),
         UNCHANGED <<text, known>>
  PROVE  stack' \in Seq(Frames) /\ Stacked' /\ (\A f : Finished(f) => Finished(f)')
<1>1. PICK N : N = Len(stack)
  OBVIOUS
<1>2. /\ N \in Nat /\ N > 0 /\ DOMAIN stack = 1..N /\ N \in DOMAIN stack
      /\ \A n \in DOMAIN stack : stack[n] \in Frames
      /\ Top = stack[N] /\ stack \in Seq(Frames)
  BY <1>1, StackFacts DEF TypeOK
<1>3. PICK w : w = [stack EXCEPT ![N].waits = s]
  OBVIOUS
<1>4. /\ w \in Seq(Frames) /\ Len(w) = N
      /\ \A n \in 1..N : w[n].file = stack[n].file /\ w[n].read = stack[n].read /\ w[n].todo = stack[n].todo
  <2>1. [stack[N] EXCEPT !.waits = s] \in Frames
    BY <1>2 DEF Frames
  <2>2. w = [stack EXCEPT ![N] = [stack[N] EXCEPT !.waits = s]]
    BY <1>2, <1>3
  <2>3. w \in Seq(Frames) /\ Len(w) = N
    BY <1>1, <1>2, <2>1, <2>2, ExceptSeq
  <2>4. \A n \in 1..N : stack[n] \in [file : Scripts, waits : Statements \cup {None}, read : BOOLEAN, todo : SUBSET (Nat \ {0})]
    BY <1>2 DEF Frames
  <2>5. \A n \in 1..N : w[n] = IF n = N THEN [stack[N] EXCEPT !.waits = s] ELSE stack[n]
    BY <1>2, <2>2
  <2> QED
    BY <2>3, <2>4, <2>5
<1>5. Frame(g) \in Frames
  BY DEF Frame, Frames
<1>6. Frame(g).file = g /\ Frame(g).read = FALSE /\ Frame(g).todo = {}
  BY DEF Frame
<1>7. stack' = Append(w, Frame(g))
  BY <1>1, <1>3
<1>8. /\ stack' \in Seq(Frames) /\ Len(stack') = N + 1
      /\ \A n \in 1..N : stack'[n] = w[n]
      /\ stack'[N + 1] = Frame(g)
  <2>1. PICK e : e = Frame(g)
    OBVIOUS
  <2>2. /\ Append(w, e) \in Seq(Frames) /\ Len(Append(w, e)) = Len(w) + 1
        /\ \A n \in 1..Len(w) : Append(w, e)[n] = w[n]
        /\ Append(w, e)[Len(w) + 1] = e
    BY <1>4, <1>5, <2>1, AppendProperties
  <2> QED
    BY <1>4, <1>7, <2>1, <2>2
<1>9. DOMAIN stack' = 1..N + 1
  BY <1>8, LenProperties
<1>10. /\ \A n \in 1..N : stack'[n].file = stack[n].file /\ stack'[n].read = stack[n].read
                          /\ stack'[n].todo = stack[n].todo
       /\ stack'[N + 1].file = g /\ stack'[N + 1].read = FALSE /\ stack'[N + 1].todo = {}
  BY <1>4, <1>6, <1>8
<1>11. \A n \in 1..N : stack[n].file # g
  BY <1>2 DEF Asking
<1>12. \A n \in 1..N + 1 : n \in 1..N \/ n = N + 1
  BY <1>2
<1>13. \A m, n \in DOMAIN stack' : stack'[m].file = stack'[n].file => m = n
  <2> SUFFICES ASSUME NEW m \in 1..N + 1, NEW n \in 1..N + 1, stack'[m].file = stack'[n].file PROVE m = n
    BY <1>9
  <2>1. CASE m \in 1..N /\ n \in 1..N
    BY <1>2, <1>10, <2>1 DEF Stacked
  <2>2. CASE m = N + 1 \/ n = N + 1
    BY <1>10, <1>11, <1>12, <2>2
  <2> QED
    BY <1>12, <2>1, <2>2
<1>14. Asking' \cap known' = {}
  <2>1. Asking' \subseteq Asking \cup {g}
    BY <1>2, <1>9, <1>10, <1>12 DEF Asking
  <2> QED
    BY <2>1 DEF Stacked
<1>15. ASSUME NEW n \in DOMAIN stack', n > 1
       PROVE  (stack[n].file \in Reached(Needs(stack[n - 1].file)))'
  <2>1. n - 1 \in 1..N
    BY <1>2, <1>9, <1>15
  <2>2. PICK h : h = stack[n - 1].file
    OBVIOUS
  <2>3. stack'[n].file \in Reached(Needs(h))
    <3>1. CASE n \in 1..N
      BY <1>2, <1>10, <1>15, <2>2, <3>1 DEF Stacked
    <3>2. CASE n = N + 1
      <4>1. n - 1 = N
        BY <1>2, <3>2
      <4> QED
        BY <1>2, <1>10, <2>2, <3>2, <4>1
    <3> QED
      BY <1>9, <1>12, <3>1, <3>2
  <2>4. \A k : Needs(k)' = Needs(k)
    BY TextSame
  <2>5. stack'[n - 1].file = h
    BY <1>10, <2>1, <2>2
  <2> QED
    BY <2>3, <2>4, <2>5 DEF Reached
<1>16. \A n \in DOMAIN stack' : ~ stack'[n].read => stack'[n].todo = {}
  BY <1>2, <1>9, <1>10, <1>12 DEF Stacked
<1>17. Stacked'
  <2>1. (\A n \in DOMAIN stack : n > 1 => stack[n].file \in Reached(Needs(stack[n - 1].file)))'
    BY <1>15
  <2>2. (Asking \cap known = {})'
    BY <1>14
  <2> QED
    BY <1>13, <1>16, <2>1, <2>2 DEF Stacked
<1>18. ASSUME NEW f, Finished(f) PROVE Finished(f)'
  <2>1. CASE f \in known
    BY <2>1 DEF Finished
  <2>2. ASSUME NEW n \in DOMAIN stack, stack[n].file = f, stack[n].read
        PROVE  Finished(f)'
    <3>1. n \in DOMAIN stack' /\ stack'[n].file = f /\ stack'[n].read
      BY <1>2, <1>9, <1>10, <2>2
    <3> QED
      BY <3>1 DEF Finished
  <2> QED
    BY <1>18, <2>1, <2>2 DEF Finished
<1> QED
  BY <1>8, <1>17, <1>18

(* A query for the symbols of a script begins, fails or is not needed.     *)
LEMMA StopKeeps ==
  ASSUME IInv, failed = "none", stack # <<>>, NEW r, Cause(Top.file, r),
         NEW s \in Statements \cup {None}, Stop(r, s)
  PROVE  IInv'
<1> USE DEF IInv
<1>1. UNCHANGED <<text, known, members, delegate, imports, family, answers>> /\ Stopped(r)
  BY DEF Stop
<1>2. Recorded'
  BY <1>1, RecordedSame
<1>3. PICK f : f = Top.file
  OBVIOUS
<1>4. Lookup(r) /\ r.overflow \in BOOLEAN
  BY DEF Cause
<1>5. CASE UNCHANGED stack /\ failed' \in {"overflow", "cycle"}
          /\ \/ r.overflow /\ failed' = "overflow"
             \/ ~ r.overflow /\ r.missing # None /\ r.missing \in Asking /\ failed' = "cycle"
  <2>1. CrashHasCause'
    BY <1>1, <1>5, FailHasCause
  <2>2. TypeOK'
    BY <1>1, <1>5 DEF TypeOK
  <2>3. Stacked'
    <3>1. \A k : Needs(k)' = Needs(k)
      BY <1>1, TextSame
    <3>2. \A n \in DOMAIN stack : Reached(Needs(stack[n - 1].file))' = Reached(Needs(stack[n - 1].file))
      BY <1>5, <3>1 DEF Reached
    <3> QED
      BY <1>1, <1>5, <3>2 DEF Stacked, Asking
  <2>4. \A g : Finished(g) => Finished(g)'
    BY <1>1, <1>5 DEF Finished
  <2>5. Kept'
    BY <1>1, <2>2, <2>4, KeptSame
  <2> QED
    BY <1>2, <2>1, <2>2, <2>3, <2>5
<1>6. CASE /\ ~ r.overflow /\ r.missing \notin Asking
           /\ stack' = Append([stack EXCEPT ![Len(stack)].waits = s], Frame(r.missing))
           /\ UNCHANGED failed
  <2>1. PICK g : g = r.missing
    OBVIOUS
  <2>2. g # None
    BY <1>1, <1>6, <2>1 DEF Stopped
  <2>3. g \in Reached(Needs(f)) /\ g \notin known
    BY <1>3, <1>6, <2>1, <2>2 DEF Cause
  <2>4. g \in Scripts
    BY <2>3 DEF Reached
  <2>5. stack' \in Seq(Frames) /\ Stacked' /\ \A h : Finished(h) => Finished(h)'
    BY <1>1, <1>3, <1>6, <2>1, <2>3, <2>4, PushKeeps
  <2>6. TypeOK'
    BY <1>1, <1>6, <2>5 DEF TypeOK
  <2>7. Kept'
    BY <1>1, <2>5, <2>6, KeptSame
  <2>8. CrashHasCause'
    BY <1>6 DEF CrashHasCause
  <2> QED
    BY <1>2, <2>5, <2>6, <2>7, <2>8
<1> QED
  BY <1>1, <1>4, <1>5, <1>6 DEF Stop, Stopped

(* The text of f grows by the statement s.                                 *)
Grows(f, s) == text' = [text EXCEPT ![f] = Append(@, s)]

(* A statement is added to the text of f, and to no other.                 *)
LEMMA TextGrows ==
  ASSUME TypeOK, NEW f \in Scripts, NEW s \in Statements, Grows(f, s), NEW N, N = Len(text[f])
  PROVE  /\ text' \in [Scripts -> Seq(Statements)] /\ N \in Nat
         /\ DOMAIN text[f] = 1..N /\ DOMAIN text'[f] = 1..N + 1 /\ Len(text'[f]) = N + 1
         /\ \A n \in 1..N : text'[f][n] = text[f][n]
         /\ text'[f][N + 1] = s
         /\ \A g \in Scripts \ {f} : text'[g] = text[g]
<1>1. text \in [Scripts -> Seq(Statements)] /\ text[f] \in Seq(Statements)
  BY DEF TypeOK
<1>2. text'[f] = Append(text[f], s) /\ \A g \in Scripts \ {f} : text'[g] = text[g]
  BY <1>1 DEF Grows
<1>3. /\ Append(text[f], s) \in Seq(Statements) /\ Len(Append(text[f], s)) = Len(text[f]) + 1
      /\ \A n \in 1..Len(text[f]) : Append(text[f], s)[n] = text[f][n]
      /\ Append(text[f], s)[Len(text[f]) + 1] = s
  BY <1>1, AppendProperties
<1>4. N \in Nat /\ DOMAIN text[f] = 1..N
  BY <1>1, LenProperties
<1>5. DOMAIN text'[f] = 1..N + 1 /\ Len(text'[f]) = N + 1
  BY <1>2, <1>3, <1>4, LenProperties
<1>6. text' \in [Scripts -> Seq(Statements)]
  BY <1>1, <1>3 DEF Grows
<1> QED
  BY <1>2, <1>3, <1>4, <1>5, <1>6

(* A script never asks for less than before.                               *)
LEMMA NeedsGrow ==
  ASSUME TypeOK, NEW f \in Scripts, NEW s \in Statements, Grows(f, s)
  PROVE  /\ \A g \in Scripts : Needs(g) \subseteq Needs(g)'
         /\ s.op = "include" => s.of \in Needs(f)'
<1>1. PICK N : N = Len(text[f])
  OBVIOUS
<1>2. /\ N \in Nat /\ DOMAIN text[f] = 1..N /\ DOMAIN text'[f] = 1..N + 1
      /\ \A n \in 1..N : text'[f][n] = text[f][n]
      /\ text'[f][N + 1] = s
      /\ \A g \in Scripts \ {f} : text'[g] = text[g]
  BY <1>1, TextGrows
<1>3. ASSUME NEW g \in Scripts
      PROVE  Including(g) \subseteq Including(g)'
  <2>1. CASE g = f
    <3>1. \A n \in DOMAIN text[f] : n \in DOMAIN text'[f] /\ text'[f][n] = text[f][n]
      BY <1>2
    <3> QED
      BY <2>1, <3>1 DEF Including, IncludesOf
  <2>2. CASE g # f
    BY <1>2, <2>2 DEF Including, IncludesOf
  <2> QED
    BY <2>1, <2>2
<1>4. s.op = "include" => s.of \in Including(f)'
  <2>1. N + 1 \in DOMAIN text'[f]
    BY <1>2
  <2> QED
    BY <1>2, <2>1 DEF Including, IncludesOf
<1>5. \A g : LibsOf(g)' = LibsOf(g)
  BY DEF LibsOf
<1> QED
  BY <1>3, <1>4, <1>5 DEF Needs

(* The last setdelegate is the new statement if that is one.               *)
LEMMA DelegateGrows ==
  ASSUME TypeOK, NEW f \in Scripts, NEW s \in Statements, Grows(f, s), NEW t \in Tables
  PROVE  /\ \A g \in Scripts \ {f} : LastDelegate(g, t)' = LastDelegate(g, t)
         /\ LastDelegate(f, t)' = IF s.op = "delegate" /\ s.in = t THEN s.of ELSE LastDelegate(f, t)
<1>1. PICK N : N = Len(text[f])
  OBVIOUS
<1>2. /\ N \in Nat /\ DOMAIN text[f] = 1..N /\ DOMAIN text'[f] = 1..N + 1
      /\ \A n \in 1..N : text'[f][n] = text[f][n]
      /\ text'[f][N + 1] = s
      /\ \A g \in Scripts \ {f} : text'[g] = text[g]
  BY <1>1, TextGrows
<1>3. \A g \in Scripts \ {f} : LastDelegate(g, t)' = LastDelegate(g, t)
  BY <1>2 DEF LastDelegate
<1>4. PICK S : S = {n \in DOMAIN text[f] : text[f][n].op = "delegate" /\ text[f][n].in = t}
  OBVIOUS
<1>5. PICK R : R = {n \in DOMAIN text'[f] : text'[f][n].op = "delegate" /\ text'[f][n].in = t}
  OBVIOUS
<1>6. LastDelegate(f, t) = IF S = {} THEN None ELSE text[f][Latest(S)].of
  BY <1>4 DEF LastDelegate
<1>7. LastDelegate(f, t)' = IF R = {} THEN None ELSE text'[f][Latest(R)].of
  BY <1>5 DEF LastDelegate
<1>8. CASE s.op = "delegate" /\ s.in = t
  <2>1. N + 1 \in R /\ R \subseteq 1..N + 1
    BY <1>2, <1>5, <1>8
  <2>2. \A m \in R : m <= N + 1
    BY <1>2, <2>1
  <2>3. Latest(R) \in R /\ \A m \in R : m <= Latest(R)
    BY <2>1, <2>2 DEF Latest
  <2>4. Latest(R) \in 1..N + 1 /\ N + 1 <= Latest(R)
    BY <2>1, <2>3
  <2>5. Latest(R) = N + 1
    BY <1>2, <2>4
  <2> QED
    BY <1>2, <1>3, <1>7, <1>8, <2>1, <2>5
<1>9. CASE ~ (s.op = "delegate" /\ s.in = t)
  <2>1. R = S
    <3>1. \A n \in 1..N + 1 : n \in 1..N \/ n = N + 1
      BY <1>2
    <3>2. \A n \in 1..N : n \in 1..N + 1
      BY <1>2
    <3>3. N + 1 \notin R
      BY <1>2, <1>5, <1>9
    <3> QED
      BY <1>2, <1>4, <1>5, <3>1, <3>2, <3>3
  <2>2. S # {} => Latest(S) \in 1..N
    <3>1. ASSUME S # {} PROVE \E n \in S : \A m \in S : m <= n
      BY <1>2, <1>4, <3>1, Greatest
    <3> QED
      BY <1>2, <1>4, <3>1 DEF Latest
  <2> QED
    BY <1>2, <1>3, <1>6, <1>7, <1>9, <2>1, <2>2
<1> QED
  BY <1>3, <1>8, <1>9

(* What a statement does to the script it is of.                           *)
Effect(f, s, at) ==
  /\ \A g \in Scripts \ {f} : SameTables(g)
  /\ \/ s.op \in {"slot", "function"} /\ SameTables(f)
     \/ /\ s.op \in {"slot", "declare"}
        /\ members'[f] = [members[f] EXCEPT ![s.in] = Append(@, at)]
        /\ delegate'[f] = delegate[f] /\ imports'[f] = imports[f]
     \/ /\ s.op = "include"
        /\ imports'[f] = [imports[f] EXCEPT ![s.in] = Append(@, s.of)]
        /\ members'[f] = members[f] /\ delegate'[f] = delegate[f]
     \/ /\ s.op = "delegate"
        /\ delegate'[f] = [delegate[f] EXCEPT ![s.in] = s.of]
        /\ members'[f] = members[f] /\ imports'[f] = imports[f]

(* Places that statements declare in.                                      *)
LEMMA PlaceFacts ==
  ASSUME NEW s \in Statements, s.op \in {"slot", "declare"}
  PROVE  s.in \in Places
BY StatementFacts DEF Places, Tables

(* What is declared is declared, included or delegated.                    *)
LEMMA PerformEffect ==
  ASSUME TypeOK, NEW f \in Scripts, NEW s \in Statements, NEW at \in Nat, NEW r, Perform(f, s, at, r)
  PROVE  /\ Effect(f, s, at) /\ Grows(f, s)
         /\ members' \in [Scripts -> [Places -> Seq(Nat)]]
         /\ delegate' \in [Scripts -> [Tables -> Tables \cup {None}]]
         /\ imports' \in [Scripts -> [Tables -> Seq(Scripts)]]
<1>1. /\ members \in [Scripts -> [Places -> Seq(Nat)]]
      /\ delegate \in [Scripts -> [Tables -> Tables \cup {None}]]
      /\ imports \in [Scripts -> [Tables -> Seq(Scripts)]]
  BY DEF TypeOK
<1>2. Grows(f, s)
  BY DEF Perform, Grows
<1>3. CASE UNCHANGED <<members, delegate, imports>> /\ s.op \in {"slot", "function"}
  BY <1>1, <1>2, <1>3 DEF Effect, SameTables
<1>4. CASE AddMember(f, s.in, at) /\ s.op \in {"slot", "declare"}
  <2>1. s.in \in Places /\ UNCHANGED <<delegate, imports>>
    BY <1>4, PlaceFacts DEF AddMember
  <2>2. members' = [members EXCEPT ![f] = [members[f] EXCEPT ![s.in] = Append(@, at)]]
    BY <1>4 DEF AddMember
  <2>3. members[f][s.in] \in Seq(Nat) /\ Append(members[f][s.in], at) \in Seq(Nat)
    BY <1>1, <2>1, AppendProperties
  <2>4. [members[f] EXCEPT ![s.in] = Append(@, at)] \in [Places -> Seq(Nat)]
    BY <1>1, <2>1, <2>3
  <2>5. /\ members' \in [Scripts -> [Places -> Seq(Nat)]]
        /\ members'[f] = [members[f] EXCEPT ![s.in] = Append(@, at)]
        /\ \A g \in Scripts \ {f} : members'[g] = members[g]
    BY <1>1, <2>2, <2>4
  <2> QED
    BY <1>1, <1>2, <1>4, <2>1, <2>5 DEF Effect, SameTables
<1>5. CASE /\ s.op = "include" /\ UNCHANGED <<members, delegate>>
           /\ imports' = [imports EXCEPT ![f][s.in] = Append(@, s.of)]
  <2>1. s.in \in Tables /\ s.of \in Scripts
    BY <1>5, StatementFacts
  <2>2. imports' = [imports EXCEPT ![f] = [imports[f] EXCEPT ![s.in] = Append(@, s.of)]]
    BY <1>5
  <2>3. imports[f][s.in] \in Seq(Scripts) /\ Append(imports[f][s.in], s.of) \in Seq(Scripts)
    BY <1>1, <2>1, AppendProperties
  <2>4. [imports[f] EXCEPT ![s.in] = Append(@, s.of)] \in [Tables -> Seq(Scripts)]
    BY <1>1, <2>1, <2>3
  <2>5. /\ imports' \in [Scripts -> [Tables -> Seq(Scripts)]]
        /\ imports'[f] = [imports[f] EXCEPT ![s.in] = Append(@, s.of)]
        /\ \A g \in Scripts \ {f} : imports'[g] = imports[g]
    BY <1>1, <2>2, <2>4
  <2> QED
    BY <1>1, <1>2, <1>5, <2>5 DEF Effect, SameTables
<1>6. CASE /\ s.op = "delegate" /\ UNCHANGED <<members, imports>>
           /\ delegate' = [delegate EXCEPT ![f][s.in] = s.of]
  <2>1. s.in \in Tables /\ s.of \in Tables
    BY <1>6, StatementFacts
  <2>2. delegate' = [delegate EXCEPT ![f] = [delegate[f] EXCEPT ![s.in] = s.of]]
    BY <1>6
  <2>3. [delegate[f] EXCEPT ![s.in] = s.of] \in [Tables -> Tables \cup {None}]
    BY <1>1, <2>1
  <2>4. /\ delegate' \in [Scripts -> [Tables -> Tables \cup {None}]]
        /\ delegate'[f] = [delegate[f] EXCEPT ![s.in] = s.of]
        /\ \A g \in Scripts \ {f} : delegate'[g] = delegate[g]
    BY <1>1, <2>2, <2>3
  <2> QED
    BY <1>1, <1>2, <1>6, <2>4 DEF Effect, SameTables
<1>7. s.op \in {"slot", "declare", "function", "include", "delegate"}
  BY StatementFacts
<1>8. CASE s.op = "slot"
  <2>1. NewSlot(f, s, at, r)
    BY <1>8 DEF Perform
  <2> QED
    BY <1>3, <1>4, <1>8, <2>1 DEF NewSlot
<1>9. CASE s.op = "declare"
  <2>1. AddMember(f, s.in, at)
    BY <1>9 DEF Perform
  <2> QED
    BY <1>4, <1>9, <2>1
<1>10. CASE s.op = "function"
  <2>1. UNCHANGED <<members, delegate, imports>>
    BY <1>10 DEF Perform
  <2> QED
    BY <1>3, <1>10, <2>1
<1>11. CASE s.op = "include"
  <2>1. UNCHANGED <<members, delegate>> /\ imports' = [imports EXCEPT ![f][s.in] = Append(@, s.of)]
    BY <1>11 DEF Perform
  <2> QED
    BY <1>5, <1>11, <2>1
<1>12. CASE s.op = "delegate"
  <2>1. UNCHANGED <<members, imports>> /\ delegate' = [delegate EXCEPT ![f][s.in] = s.of]
    BY <1>12 DEF Perform
  <2> QED
    BY <1>6, <1>12, <2>1
<1> QED
  BY <1>7, <1>8, <1>9, <1>10, <1>11, <1>12

(* What is recorded grows with the text.                                   *)
LEMMA RecordedGrows ==
  ASSUME TypeOK, Recorded, NEW f \in Scripts, NEW s \in Statements, NEW at, Effect(f, s, at), Grows(f, s)
  PROVE  Recorded'
<1>1. \A g \in Scripts : Needs(g) \subseteq Needs(g)'
  BY NeedsGrow
<1>2. \A g \in Scripts, t \in Tables : ToSet(imports[g][t]) \subseteq Needs(g) /\ delegate[g][t] = LastDelegate(g, t)
  BY DEF Recorded
<1>3. /\ delegate \in [Scripts -> [Tables -> Tables \cup {None}]]
      /\ imports \in [Scripts -> [Tables -> Seq(Scripts)]]
  BY DEF TypeOK
<1>4. ASSUME NEW g \in Scripts, NEW t \in Tables
      PROVE  ToSet(imports'[g][t]) \subseteq Needs(g)'
  <2>1. CASE imports'[g] = imports[g]
    BY <1>1, <1>2, <2>1
  <2>2. ASSUME g = f, s.op = "include", imports'[f] = [imports[f] EXCEPT ![s.in] = Append(@, s.of)]
        PROVE  ToSet(imports'[g][t]) \subseteq Needs(g)'
    <3>1. s.of \in Scripts /\ s.in \in Tables /\ s.of \in Needs(f)'
      BY <2>2, StatementFacts, NeedsGrow
    <3>2. CASE t # s.in
      BY <1>1, <1>2, <1>3, <2>2, <3>1, <3>2
    <3>3. CASE t = s.in
      <4>1. PICK l : l = imports[f][t]
        OBVIOUS
      <4>2. l \in Seq(Scripts) /\ imports'[f][t] = Append(l, s.of)
        BY <1>3, <2>2, <3>1, <3>3, <4>1
      <4>3. /\ Append(l, s.of) \in Seq(Scripts) /\ Len(Append(l, s.of)) = Len(l) + 1
            /\ \A n \in 1..Len(l) : Append(l, s.of)[n] = l[n]
            /\ Append(l, s.of)[Len(l) + 1] = s.of
        BY <3>1, <4>2, AppendProperties
      <4>4. Len(l) \in Nat /\ DOMAIN l = 1..Len(l) /\ DOMAIN Append(l, s.of) = 1..Len(l) + 1
        BY <4>2, <4>3, LenProperties
      <4>5. ASSUME NEW n \in DOMAIN Append(l, s.of)
            PROVE  Append(l, s.of)[n] \in ToSet(l) \cup {s.of}
        <5>1. n \in DOMAIN l \/ n = Len(l) + 1
          BY <4>4
        <5> QED
          BY <4>3, <4>4, <5>1 DEF ToSet
      <4>6. ToSet(imports'[f][t]) \subseteq ToSet(l) \cup {s.of}
        BY <4>2, <4>5 DEF ToSet
      <4> QED
        BY <1>1, <1>2, <2>2, <3>1, <4>1, <4>6
    <3> QED
      BY <3>2, <3>3
  <2> QED
    BY <2>1, <2>2 DEF Effect, SameTables
<1>5. ASSUME NEW g \in Scripts, NEW t \in Tables
      PROVE  delegate'[g][t] = LastDelegate(g, t)'
  <2>1. CASE g # f
    BY <1>2, <2>1, DelegateGrows DEF Effect, SameTables
  <2>2. CASE g = f /\ s.op = "delegate"
    <3>1. delegate'[f] = [delegate[f] EXCEPT ![s.in] = s.of] /\ s.in \in Tables
      BY <2>2, StatementFacts DEF Effect
    <3>2. LastDelegate(f, t)' = IF s.in = t THEN s.of ELSE LastDelegate(f, t)
      BY <2>2, DelegateGrows
    <3> QED
      BY <1>2, <1>3, <2>2, <3>1, <3>2
  <2>3. CASE g = f /\ s.op # "delegate"
    <3>1. delegate'[f] = delegate[f]
      BY <2>3 DEF Effect, SameTables
    <3>2. LastDelegate(f, t)' = LastDelegate(f, t)
      BY <2>3, DelegateGrows
    <3> QED
      BY <1>2, <2>3, <3>1, <3>2
  <2> QED
    BY <2>1, <2>2, <2>3
<1> QED
  BY <1>4, <1>5 DEF Recorded

(* The scripts on the stack stay where they are when a statement is done.  *)
LEMMA StackGrows ==
  ASSUME TypeOK, Stacked, stack # <<>>, NEW f \in Scripts, NEW s \in Statements, Grows(f, s),
         stack' = [stack EXCEPT ![Len(stack)].waits = None], known' = known
  PROVE  stack' \in Seq(Frames) /\ Stacked' /\ (\A g : Finished(g)' <=> Finished(g))
<1>1. PICK N : N = Len(stack)
  OBVIOUS
<1>2. /\ N \in Nat /\ N > 0 /\ DOMAIN stack = 1..N /\ N \in DOMAIN stack
      /\ \A n \in DOMAIN stack : stack[n] \in Frames
      /\ stack \in Seq(Frames)
  BY <1>1, StackFacts DEF TypeOK
<1>3. /\ stack' \in Seq(Frames) /\ DOMAIN stack' = DOMAIN stack
      /\ \A n \in DOMAIN stack : stack'[n].file = stack[n].file /\ stack'[n].read = stack[n].read
                                 /\ stack'[n].todo = stack[n].todo
  <2>1. PICK e : e = [stack[N] EXCEPT !.waits = None]
    OBVIOUS
  <2>2. e \in Frames /\ e.file = stack[N].file /\ e.read = stack[N].read /\ e.todo = stack[N].todo
    BY <1>2, <2>1 DEF Frames
  <2>3. stack' = [stack EXCEPT ![N] = e]
    BY <1>1, <1>2, <2>1
  <2>4. stack' \in Seq(Frames) /\ DOMAIN stack' = DOMAIN stack
    BY <1>1, <1>2, <2>2, <2>3, ExceptSeq
  <2>5. \A n \in DOMAIN stack : stack'[n] = IF n = N THEN e ELSE stack[n]
    BY <1>2, <2>3
  <2> QED
    BY <2>2, <2>4, <2>5
<1>4. Asking' = Asking
  BY <1>3 DEF Asking
<1>5. ASSUME NEW n \in DOMAIN stack', n > 1
      PROVE  (stack[n].file \in Reached(Needs(stack[n - 1].file)))'
  <2>1. n \in DOMAIN stack /\ n - 1 \in DOMAIN stack
    BY <1>2, <1>3, <1>5
  <2>2. PICK h : h = stack[n - 1].file
    OBVIOUS
  <2>3. h \in Scripts /\ stack[n].file \in Reached(Needs(h))
    BY <1>2, <1>5, <2>1, <2>2 DEF Stacked, Frames
  <2>4. \A g \in Scripts : Needs(g) \subseteq Needs(g)'
    BY NeedsGrow
  <2>5. PICK S : S = Needs(h)
    OBVIOUS
  <2>6. PICK R : R = Needs(h)'
    OBVIOUS
  <2>7. S \subseteq R /\ S \in SUBSET Scripts
    BY <2>3, <2>4, <2>5, <2>6, NeedsFacts
  <2>8. Reached(S) \subseteq Reached(S)'
    BY <2>4, <2>7, ReachedMore
  <2>9. Reached(S)' \subseteq Reached(R)'
    BY <2>7 DEF Reached
  <2>10. stack[n].file \in Reached(R)'
    BY <2>3, <2>5, <2>8, <2>9
  <2>11. stack'[n].file = stack[n].file /\ stack'[n - 1].file = h
    BY <1>3, <2>1, <2>2
  <2> QED
    BY <2>6, <2>10, <2>11 DEF Reached
<1>6. Stacked'
  <2>1. (\A n \in DOMAIN stack : n > 1 => stack[n].file \in Reached(Needs(stack[n - 1].file)))'
    BY <1>5
  <2>2. (Asking \cap known = {})'
    BY <1>4 DEF Stacked
  <2>3. (\A m, n \in DOMAIN stack : stack[m].file = stack[n].file => m = n)'
    BY <1>3 DEF Stacked
  <2>4. (\A n \in DOMAIN stack : ~ stack[n].read => stack[n].todo = {})'
    BY <1>3 DEF Stacked
  <2> QED
    BY <2>1, <2>2, <2>3, <2>4 DEF Stacked
<1>7. \A g : Finished(g)' <=> Finished(g)
  BY <1>3 DEF Finished
<1> QED
  BY <1>3, <1>6, <1>7

(* The members of a list that grows.                                       *)
LEMMA AppendMembers ==
  ASSUME NEW l \in Seq(Nat), NEW k \in Nat
  PROVE  ToSet(l) \subseteq ToSet(Append(l, k)) /\ k \in ToSet(Append(l, k))
<1>1. PICK m : m = Append(l, k)
  OBVIOUS
<1>2. /\ Len(l) \in Nat /\ DOMAIN l = 1..Len(l) /\ DOMAIN m = 1..Len(l) + 1
      /\ \A n \in 1..Len(l) : m[n] = l[n]
      /\ m[Len(l) + 1] = k
  BY <1>1, AppendProperties, LenProperties
<1>3. ASSUME NEW n \in DOMAIN l PROVE l[n] \in ToSet(m)
  <2>1. n \in DOMAIN m /\ m[n] = l[n]
    BY <1>2
  <2> QED
    BY <2>1 DEF ToSet
<1>4. Len(l) + 1 \in DOMAIN m
  BY <1>2
<1> QED
  BY <1>1, <1>2, <1>3, <1>4 DEF ToSet

(* What changed before an answer stays changed.                            *)
LEMMA UnsettledGrows ==
  ASSUME TypeOK, NEW f \in Scripts, NEW s \in Statements, NEW at \in Nat, Effect(f, s, at), Grows(f, s),
         NEW a \in Answers, Unsettled(a)
  PROVE  Unsettled(a)'
<1>1. PICK g : g = a.file
  OBVIOUS
<1>2. g \in Scripts /\ a.at \in Nat \ {0}
  BY <1>1 DEF Answers
<1>3. PICK n \in a.at..Len(text[g]) :
        \/ text[g][n].op \in {"include", "delegate"}
        \/ /\ text[g][n].op \in {"slot", "declare"}
           /\ \E t \in Tables : n \in ToSet(members[g][t]) /\ delegate[g][t] # None
  BY <1>1 DEF Unsettled
<1>4. CASE g # f
  <2>1. text'[g] = text[g] /\ members'[g] = members[g] /\ delegate'[g] = delegate[g]
    BY ZenonT(60), <1>2, <1>4, TextGrows DEF Effect, SameTables
  <2> QED
    BY <1>1, <1>3, <2>1 DEF Unsettled
<1>5. CASE g = f
  <2>1. PICK N : N = Len(text[f])
    OBVIOUS
  <2>2. /\ N \in Nat /\ Len(text'[f]) = N + 1 /\ DOMAIN text[f] = 1..N
        /\ \A m \in 1..N : text'[f][m] = text[f][m]
    BY <2>1, TextGrows
  <2>3. n \in a.at..Len(text'[f])
    BY <1>2, <1>3, <1>5, <2>1, <2>2
  <2>4. CASE text[f][n].op \in {"include", "delegate"} /\ n \in 1..N
    <3>1. text'[f][n].op \in {"include", "delegate"}
      BY <2>2, <2>4
    <3> QED
      BY <1>1, <1>5, <2>3, <3>1 DEF Unsettled
  <2>5. ASSUME text[f][n].op \in {"slot", "declare"}, n \in 1..N,
               NEW t \in Tables, n \in ToSet(members[f][t]), delegate[f][t] # None
        PROVE  Unsettled(a)'
    <3>1. members[f] \in [Places -> Seq(Nat)] /\ delegate[f] \in [Tables -> Tables \cup {None}] /\ t \in Places
      BY DEF TypeOK, Places
    <3>2. n \in ToSet(members'[f][t])
      <4>1. CASE members'[f] = members[f]
        BY <2>5, <4>1
      <4>2. ASSUME members'[f] = [members[f] EXCEPT ![s.in] = Append(@, at)], s.op \in {"slot", "declare"}
            PROVE  n \in ToSet(members'[f][t])
        <5>1. PICK l : l = members[f][t]
          OBVIOUS
        <5>2. l \in Seq(Nat) /\ members'[f][t] \in {l, Append(l, at)}
          BY <3>1, <4>2, <5>1, PlaceFacts
        <5> QED
          BY <2>5, <5>1, <5>2, AppendMembers
      <4> QED
        BY <4>1, <4>2 DEF Effect, SameTables
    <3>3. delegate'[f][t] # None
      <4>1. CASE delegate'[f] = delegate[f]
        BY <2>5, <4>1
      <4>2. ASSUME delegate'[f] = [delegate[f] EXCEPT ![s.in] = s.of], s.op = "delegate"
            PROVE  delegate'[f][t] # None
        <5>1. s.of \in Tables /\ s.of # None
          BY <4>2, StatementFacts, NamesAssumption
        <5> QED
          BY <2>5, <3>1, <4>2, <5>1
      <4> QED
        BY <4>1, <4>2 DEF Effect, SameTables
    <3>4. text'[f][n].op \in {"slot", "declare"}
      BY <2>2, <2>5
    <3> QED
      BY <1>1, <1>5, <2>3, <3>2, <3>3, <3>4 DEF Unsettled
  <2>6. CASE n \in 1..N
    BY <1>3, <1>5, <2>4, <2>5, <2>6
  <2>7. n \in 1..N
    BY <1>2, <1>3, <1>5, <2>1, <2>2
  <2> QED
    BY <2>6, <2>7
<1> QED
  BY <1>4, <1>5

(* A statement leaves the answers before it as they are, or changes what   *)
(* is before them.                                                         *)
LEMMA EffectUndisturbed ==
  ASSUME TypeOK, NEW f \in Scripts, NEW s \in Statements, NEW at, at = Len(text[f]) + 1,
         Effect(f, s, at), Grows(f, s), delegate' \in [Scripts -> [Tables -> Tables \cup {None}]],
         NEW a \in Answers, a.file = f, a.late = FALSE, a.at <= at
  PROVE  Undisturbed(f, a.at, FALSE) \/ Unsettled(a)'
<1>1. PICK N : N = Len(text[f])
  OBVIOUS
<1>2. /\ N \in Nat /\ at = N + 1 /\ Len(text'[f]) = at /\ text'[f][at] = s
      /\ members[f] \in [Places -> Seq(Nat)]
  BY <1>1, TextGrows DEF TypeOK
<1>3. at \in a.at..Len(text'[f]) /\ a.at \in Nat /\ at \in Nat
  BY <1>2 DEF Answers
<1>4. CASE SameTables(f)
  BY <1>4 DEF Undisturbed, SameTables
<1>5. ASSUME s.op \in {"slot", "declare"}, members'[f] = [members[f] EXCEPT ![s.in] = Append(@, at)],
             delegate'[f] = delegate[f], imports'[f] = imports[f]
      PROVE  Undisturbed(f, a.at, FALSE) \/ Unsettled(a)'
  <2>1. s.in \in Places
    BY <1>5, PlaceFacts
  <2>2. CASE s.in \in Tables => delegate[f][s.in] = None
    BY <1>3, <1>5, <2>1, <2>2 DEF Undisturbed
  <2>3. CASE s.in \in Tables /\ delegate[f][s.in] # None
    <3>1. PICK l : l = members[f][s.in]
      OBVIOUS
    <3>2. l \in Seq(Nat) /\ members'[f][s.in] = Append(l, at)
      BY <1>2, <1>5, <2>1, <3>1
    <3>3. at \in ToSet(members'[f][s.in])
      BY <1>3, <3>2, AppendMembers
    <3>4. delegate'[f][s.in] # None
      BY <1>5, <2>3
    <3> QED
      BY <1>2, <1>3, <1>5, <2>3, <3>3, <3>4 DEF Unsettled
  <2> QED
    BY <2>2, <2>3
<1>6. CASE s.op \in {"include", "delegate"}
  BY <1>2, <1>3, <1>6 DEF Unsettled
<1> QED
  BY <1>4, <1>5, <1>6 DEF Effect

(* Answers stay what look-ups give when a statement is done.               *)
LEMMA SettledGrows ==
  ASSUME TypeOK, TypeOK', Recorded, NEW f \in Scripts, ~ Finished(f), NEW s \in Statements,
         NEW at, at = Len(text[f]) + 1, Effect(f, s, at), Grows(f, s),
         known' = known, family' = family, \A g : Finished(g)' <=> Finished(g),
         NEW a \in Answers,
         \/ Settled(a)
         \/ a.file = f /\ a.at = at /\ a.late = FALSE /\ Same(a)
  PROVE  Settled(a)'
<1>1. /\ text[f] \in Seq(Statements) /\ Len(text[f]) \in Nat /\ at \in Nat
      /\ a.file \in Scripts /\ a.at \in Nat /\ a.late \in BOOLEAN
  BY LenProperties DEF TypeOK, Answers
<1>2. Len(text'[f]) = at /\ \A g \in Scripts \ {f} : text'[g] = text[g]
  BY TextGrows
<1>3. f \notin known
  BY DEF Finished
<1>4. KeepsKnown
  BY <1>3 DEF KeepsKnown, Effect, TypeOK
<1>5. a.late => Finished(a.file)'
  BY DEF Settled
<1>6. Same(a) \/ (~ a.late /\ Unsettled(a)')
  BY <1>1, UnsettledGrows DEF Settled
<1>7. CASE a.file # f
  <2>1. Undisturbed(a.file, a.at, a.late)
    BY <1>1, <1>7 DEF Effect, SameTables, Undisturbed
  <2>2. ~ a.late => a.at <= Len(text'[a.file])
    BY <1>1, <1>2, <1>7 DEF Settled
  <2> QED
    BY <1>4, <1>5, <1>6, <2>1, <2>2, SettledKept
<1>8. CASE a.file = f
  <2>1. a.late = FALSE /\ a.at <= at
    <3>1. Settled(a) => ~ a.late /\ a.at <= Len(text[f])
      BY <1>8 DEF Settled
    <3> QED
      BY <1>1, <3>1
  <2>2. Undisturbed(f, a.at, FALSE) \/ Unsettled(a)'
    BY <1>8, <2>1, EffectUndisturbed DEF TypeOK
  <2>3. Undisturbed(a.file, a.at, a.late) \/ (~ a.late /\ Unsettled(a)')
    BY <1>8, <2>1, <2>2
  <2> QED
    BY <1>2, <1>4, <1>5, <1>6, <1>8, <2>1, <2>3, SettledKept
<1> QED
  BY <1>7, <1>8

(* A statement is done.                                                    *)
LEMMA PerformKeeps ==
  ASSUME IInv, failed = "none", stack # <<>>, ~ Top.read, NEW s \in Statements,
         NEW f, f = Top.file, NEW at, at = Len(text[f]) + 1, NEW r, r = Looked(f, s, at), Perform(f, s, at, r)
  PROVE  IInv'
<1> USE DEF IInv
<1>1. /\ f \in Scripts /\ Len(stack) \in DOMAIN stack /\ Top = stack[Len(stack)]
      /\ f \in Asking
  BY StackFacts
<1>2. at \in Nat /\ at # 0
  <2>1. text[f] \in Seq(Statements)
    BY <1>1 DEF TypeOK
  <2> QED
    BY <2>1, LenProperties
<1>3. /\ Effect(f, s, at) /\ Grows(f, s)
      /\ members' \in [Scripts -> [Places -> Seq(Nat)]]
      /\ delegate' \in [Scripts -> [Tables -> Tables \cup {None}]]
      /\ imports' \in [Scripts -> [Tables -> Seq(Scripts)]]
  BY <1>1, <1>2, PerformEffect
<1>4. /\ ~ Stopped(r) /\ known' = known /\ family' = family /\ failed' = failed
      /\ stack' = [stack EXCEPT ![Len(stack)].waits = None]
  BY DEF Perform
<1>5. stack' \in Seq(Frames) /\ Stacked' /\ (\A g : Finished(g)' <=> Finished(g))
  BY <1>1, <1>3, <1>4, StackGrows
<1>6. ~ Finished(f)
  BY <1>1 DEF Finished, Stacked
<1>7. \/ answers' = answers
      \/ s.op = "slot" /\ Answered(f, at, FALSE, s.in, r)
  BY StatementFacts DEF Perform, NewSlot
<1>8. PICK a : a = [file |-> f, at |-> at, late |-> FALSE, in |-> s.in, symbol |-> r.symbol]
  OBVIOUS
<1>9. s.op = "slot" => /\ a \in Answers
                       /\ s.in = "this" => Same(a) /\ a.file = f /\ a.at = at /\ a.late = FALSE
  <2> SUFFICES ASSUME s.op = "slot"
               PROVE  /\ a \in Answers
                      /\ s.in = "this" => Same(a) /\ a.file = f /\ a.at = at /\ a.late = FALSE
    OBVIOUS
  <2>1. s.in \in Tables
    BY StatementFacts
  <2>2. r = IF s.in = "this" THEN ResolveName(f, at, FALSE) ELSE MembersOfTable(f, s.in, at, FALSE)
    BY DEF Looked
  <2>3. r.symbol \in Symbols
    BY <1>1, <2>1, <2>2, ResolveTyped, MembersTyped
  <2>4. a \in Answers
    BY <1>1, <1>2, <1>8, <2>1, <2>3 DEF Answers
  <2>5. a.file = f /\ a.at = at /\ a.late = FALSE /\ a.symbol = r.symbol
    BY <1>8
  <2>6. s.in = "this" => Same(a)
    BY <1>4, <2>2, <2>5 DEF Same
  <2> QED
    BY <2>4, <2>5, <2>6
<1>10. /\ answers' \in Seq(Answers)
       /\ \A n \in DOMAIN answers' : \/ n \in DOMAIN answers /\ answers'[n] = answers[n]
                                     \/ s.op = "slot" /\ answers'[n] = a
  <2>1. answers \in Seq(Answers) /\ Len(answers) \in Nat /\ DOMAIN answers = 1..Len(answers)
    BY LenProperties DEF TypeOK
  <2>2. CASE answers' = answers
    BY <2>1, <2>2
  <2>3. CASE s.op = "slot" /\ answers' = Append(answers, a)
    <3>1. /\ answers' \in Seq(Answers) /\ Len(answers') = Len(answers) + 1
          /\ \A n \in 1..Len(answers) : answers'[n] = answers[n]
          /\ answers'[Len(answers) + 1] = a
      BY <1>9, <2>1, <2>3, AppendProperties
    <3>2. DOMAIN answers' = 1..Len(answers) + 1
      BY <3>1, LenProperties
    <3>3. \A n \in 1..Len(answers) + 1 : n \in 1..Len(answers) \/ n = Len(answers) + 1
      BY <2>1
    <3> QED
      BY <2>1, <2>3, <3>1, <3>2, <3>3
  <2> QED
    BY <1>7, <1>8, <2>2, <2>3 DEF Answered
<1>11. TypeOK'
  <2>1. text' \in [Scripts -> Seq(Statements)]
    BY <1>1, <1>3, TextGrows
  <2> QED
    BY <1>3, <1>4, <1>5, <1>10, <2>1 DEF TypeOK
<1>12. Recorded'
  BY <1>1, <1>3, RecordedGrows
<1>13. Kept'
  <2> SUFFICES ASSUME NEW n \in DOMAIN answers', answers'[n].in = "this" PROVE (Settled(answers[n]))'
    BY DEF Kept
  <2>1. PICK b : b = answers'[n]
    OBVIOUS
  <2>2. b \in Answers
    BY <1>10, <2>1, LenProperties, ElementOfSeq
  <2>3. \/ Settled(b)
        \/ b.file = f /\ b.at = at /\ b.late = FALSE /\ Same(b)
    <3>1. CASE n \in DOMAIN answers /\ answers'[n] = answers[n]
      BY <2>1, <3>1 DEF Kept
    <3>2. CASE s.op = "slot" /\ answers'[n] = a
      <4>1. a.in = s.in
        BY <1>8
      <4> QED
        BY <1>9, <2>1, <3>2, <4>1
    <3> QED
      BY <1>10, <3>1, <3>2
  <2>4. Settled(b)'
    BY <1>1, <1>3, <1>4, <1>5, <1>6, <1>11, <2>2, <2>3, SettledGrows
  <2> QED
    BY <2>1, <2>4
<1>14. CrashHasCause'
  BY <1>4 DEF CrashHasCause
<1> QED
  BY <1>5, <1>11, <1>12, <1>13, <1>14

(* A frame that changes, of a script that stays on the stack.              *)
LEMMA FrameKeeps ==
  ASSUME TypeOK, Stacked, stack # <<>>, NEW e \in Frames, e.file = Top.file, Top.read => e.read,
         ~ e.read => e.todo = {}, stack' = [stack EXCEPT ![Len(stack)] = e], UNCHANGED <<text, known>>
  PROVE  stack' \in Seq(Frames) /\ Stacked' /\ (\A g : Finished(g) => Finished(g)')
<1>1. PICK N : N = Len(stack)
  OBVIOUS
<1>2. /\ N \in Nat /\ N > 0 /\ DOMAIN stack = 1..N /\ N \in DOMAIN stack /\ Top = stack[N]
      /\ stack \in Seq(Frames)
  BY <1>1, StackFacts DEF TypeOK
<1>3. /\ stack' \in Seq(Frames) /\ DOMAIN stack' = DOMAIN stack
      /\ \A n \in DOMAIN stack : stack'[n] = IF n = N THEN e ELSE stack[n]
  <2>1. stack' \in Seq(Frames) /\ DOMAIN stack' = DOMAIN stack
    BY <1>1, <1>2, ExceptSeq
  <2> QED
    BY <1>1, <1>2, <2>1
<1>4. \A n \in DOMAIN stack : stack'[n].file = stack[n].file /\ (stack[n].read => stack'[n].read)
  BY <1>2, <1>3
<1>5. Asking' = Asking
  BY <1>3, <1>4 DEF Asking
<1>6. Stacked'
  <2>1. \A k : Needs(k)' = Needs(k)
    BY TextSame
  <2>2. ASSUME NEW n \in DOMAIN stack', n > 1
        PROVE  (stack[n].file \in Reached(Needs(stack[n - 1].file)))'
    <3>1. n \in DOMAIN stack /\ n - 1 \in DOMAIN stack
      BY <1>2, <1>3, <2>2
    <3>2. stack[n].file \in Reached(Needs(stack[n - 1].file))
      BY <2>2, <3>1 DEF Stacked
    <3>3. stack'[n].file = stack[n].file /\ stack'[n - 1].file = stack[n - 1].file
      BY <1>4, <3>1
    <3> QED
      BY <2>1, <3>2, <3>3 DEF Reached
  <2>3. (\A n \in DOMAIN stack : n > 1 => stack[n].file \in Reached(Needs(stack[n - 1].file)))'
    BY <2>2
  <2>4. (Asking \cap known = {})'
    BY <1>5 DEF Stacked
  <2>5. (\A m, n \in DOMAIN stack : stack[m].file = stack[n].file => m = n)'
    BY <1>3, <1>4 DEF Stacked
  <2>6. (\A n \in DOMAIN stack : ~ stack[n].read => stack[n].todo = {})'
    BY <1>3 DEF Stacked
  <2> QED
    BY <2>3, <2>4, <2>5, <2>6 DEF Stacked
<1>7. \A g : Finished(g) => Finished(g)'
  BY <1>3, <1>4 DEF Finished
<1> QED
  BY <1>3, <1>6, <1>7

(* A script is read to its end.                                            *)
LEMMA EndKeeps ==
  ASSUME IInv, EndOfScript
  PROVE  IInv'
<1> USE DEF IInv
<1>1. /\ failed = "none" /\ stack # <<>> /\ ~ Top.read
      /\ UNCHANGED <<text, known, members, delegate, imports, family, answers, failed>>
  BY DEF EndOfScript
<1>2. PICK S : S = {n \in DOMAIN text[Top.file] : text[Top.file][n].op = "function"}
  OBVIOUS
<1>3. PICK e : e = [Top EXCEPT !.read = TRUE, !.todo = S]
  OBVIOUS
<1>4. Top \in Frames /\ Top = stack[Len(stack)] /\ Len(stack) \in DOMAIN stack
  BY <1>1, StackFacts
<1>5. S \subseteq Nat \ {0}
  <2>1. text[Top.file] \in Seq(Statements)
    BY <1>4 DEF TypeOK, Frames
  <2>2. Len(text[Top.file]) \in Nat /\ DOMAIN text[Top.file] = 1..Len(text[Top.file])
    BY <2>1, LenProperties
  <2> QED
    BY <1>2, <2>2
<1>6. e \in Frames /\ e.file = Top.file /\ e.read = TRUE /\ e.todo = S
  BY <1>3, <1>4, <1>5 DEF Frames
<1>7. stack' = [stack EXCEPT ![Len(stack)] = e]
  <2>1. stack' = [stack EXCEPT ![Len(stack)].read = TRUE, ![Len(stack)].todo = S]
    BY <1>2 DEF EndOfScript
  <2> QED
    BY <1>3, <1>4, <2>1
<1>8. stack' \in Seq(Frames) /\ Stacked' /\ (\A g : Finished(g) => Finished(g)')
  BY <1>1, <1>6, <1>7, FrameKeeps
<1>9. TypeOK'
  BY <1>1, <1>8 DEF TypeOK
<1>10. Recorded'
  BY <1>1, RecordedSame
<1>11. Kept'
  BY <1>1, <1>8, <1>9, KeptSame
<1>12. CrashHasCause'
  BY <1>1 DEF CrashHasCause
<1> QED
  BY <1>8, <1>9, <1>10, <1>11, <1>12

(* A function is walked.                                                   *)
LEMMA WalkKeeps ==
  ASSUME IInv, WalkFunction
  PROVE  IInv'
<1> USE DEF IInv
<1>1. failed = "none" /\ stack # <<>>
  BY DEF WalkFunction
<1>2. PICK f : f = Top.file
  OBVIOUS
<1>3. PICK at \in Top.todo : Walk(f, at, ResolveName(f, at, TRUE))
  BY <1>2 DEF WalkFunction
<1>4. PICK r : r = ResolveName(f, at, TRUE)
  OBVIOUS
<1>5. /\ Top \in Frames /\ Top = stack[Len(stack)] /\ Len(stack) \in DOMAIN stack
      /\ f \in Scripts /\ f \in Asking
  BY <1>1, <1>2, StackFacts
<1>6. Top.read /\ at \in Nat \ {0}
  BY <1>3, <1>5 DEF Stacked, Frames
<1>7. CASE Stop(r, None)
  BY <1>1, <1>2, <1>4, <1>5, <1>7, ResolveCause, StopKeeps
<1>8. CASE /\ ~ Stopped(r) /\ Answered(f, at, TRUE, "this", r)
           /\ stack' = [stack EXCEPT ![Len(stack)].todo = @ \ {at}]
           /\ UNCHANGED <<text, known, members, delegate, imports, family, failed>>
  <2>1. PICK e : e = [Top EXCEPT !.todo = @ \ {at}]
    OBVIOUS
  <2>2. e \in Frames /\ e.file = Top.file /\ e.read = Top.read
    BY <1>5, <2>1 DEF Frames
  <2>3. stack' = [stack EXCEPT ![Len(stack)] = e]
    BY <1>5, <1>8, <2>1
  <2>4. stack' \in Seq(Frames) /\ Stacked' /\ (\A g : Finished(g) => Finished(g)')
    BY <1>1, <1>6, <1>8, <2>2, <2>3, FrameKeeps
  <2>5. PICK a : a = [file |-> f, at |-> at, late |-> TRUE, in |-> "this", symbol |-> r.symbol]
    OBVIOUS
  <2>6. a \in Answers
    BY <1>4, <1>5, <1>6, <2>5, ResolveTyped DEF Answers, Tables
  <2>7. a.file = f /\ a.at = at /\ a.late = TRUE /\ a.symbol = r.symbol
    BY <2>5
  <2>8. Same(a)
    BY <1>4, <1>8, <2>7 DEF Same
  <2>9. Finished(f)
    BY <1>2, <1>5, <1>6 DEF Finished
  <2>10. /\ answers' \in Seq(Answers)
         /\ \A n \in DOMAIN answers' : (n \in DOMAIN answers /\ answers'[n] = answers[n]) \/ answers'[n] = a
    <3>1. answers \in Seq(Answers) /\ Len(answers) \in Nat /\ DOMAIN answers = 1..Len(answers)
      BY LenProperties DEF TypeOK
    <3>2. answers' = Append(answers, a)
      BY <1>8, <2>5 DEF Answered
    <3>3. /\ answers' \in Seq(Answers) /\ Len(answers') = Len(answers) + 1
          /\ \A n \in 1..Len(answers) : answers'[n] = answers[n]
          /\ answers'[Len(answers) + 1] = a
      BY <2>6, <3>1, <3>2, AppendProperties
    <3>4. DOMAIN answers' = 1..Len(answers) + 1
      BY <3>3, LenProperties
    <3>5. \A n \in 1..Len(answers) + 1 : n \in 1..Len(answers) \/ n = Len(answers) + 1
      BY <3>1
    <3> QED
      BY <3>1, <3>3, <3>4, <3>5
  <2>11. TypeOK'
    BY <1>8, <2>4, <2>10 DEF TypeOK
  <2>12. Recorded'
    BY <1>8, RecordedSame
  <2>13. CrashHasCause'
    BY <1>1, <1>8 DEF CrashHasCause
  <2>14. Kept'
    <3> SUFFICES ASSUME NEW n \in DOMAIN answers', answers'[n].in = "this" PROVE (Settled(answers[n]))'
      BY DEF Kept
    <3>1. PICK b : b = answers'[n]
      OBVIOUS
    <3>2. b \in Answers
      BY <2>10, <3>1, LenProperties, ElementOfSeq
    <3>3. b = a \/ Settled(b)
      BY <2>10, <3>1 DEF Kept
    <3>4. KeepsKnown /\ Undisturbed(b.file, b.at, b.late)
      BY <1>8 DEF KeepsKnown, SameTables, Undisturbed
    <3>5. b.late => Finished(b.file)'
      BY <2>4, <2>7, <2>9, <3>3 DEF Settled
    <3>6. ~ b.late => b.at <= Len(text'[b.file])
      BY <1>8, <2>7, <3>3 DEF Settled
    <3>7. Unsettled(b)' <=> Unsettled(b)
      BY <1>8 DEF Unsettled
    <3>8. Same(b) \/ (~ b.late /\ Unsettled(b)')
      BY <2>8, <3>3, <3>7 DEF Settled
    <3>9. Settled(b)'
      BY <2>11, <3>2, <3>4, <3>5, <3>6, <3>8, SettledKept
    <3> QED
      BY <3>1, <3>9
  <2> QED
    BY <2>4, <2>11, <2>12, <2>13, <2>14
<1> QED
  BY <1>3, <1>4, <1>7, <1>8 DEF Walk

(* The symbols of a script are known.                                      *)
LEMMA ReturnKeeps ==
  ASSUME IInv, Return
  PROVE  IInv'
<1> USE DEF IInv
<1>1. /\ failed = "none" /\ stack # <<>> /\ Top.read
      /\ known' = known \cup {Top.file} /\ stack' = Front(stack)
      /\ UNCHANGED <<text, members, delegate, imports, family, answers, failed>>
  BY DEF Return
<1>2. PICK N : N = Len(stack)
  OBVIOUS
<1>3. /\ N \in Nat /\ N > 0 /\ DOMAIN stack = 1..N /\ Top = stack[N] /\ Top.file \in Scripts
      /\ stack \in Seq(Frames) /\ \A n \in DOMAIN stack : stack[n] \in Frames
  BY <1>1, <1>2, StackFacts DEF TypeOK
<1>4. /\ stack' \in Seq(Frames) /\ DOMAIN stack' = 1..N - 1
      /\ \A n \in 1..N - 1 : stack'[n] = stack[n]
  <2>1. stack' = SubSeq(stack, 1, N - 1)
    BY <1>1, <1>2 DEF Front
  <2>2. \A n \in 1..N - 1 : stack[n] \in Frames
    BY <1>3
  <2>3. /\ SubSeq(stack, 1, N - 1) \in Seq(Frames)
        /\ Len(SubSeq(stack, 1, N - 1)) = N - 1
        /\ \A n \in 1..N - 1 : SubSeq(stack, 1, N - 1)[n] = stack[n]
    BY <1>3, <2>2, SubSeqProperties
  <2> QED
    BY <1>3, <2>1, <2>3, LenProperties
<1>5. \A n \in 1..N - 1 : n \in 1..N /\ stack[n].file # Top.file
  BY <1>3 DEF Stacked
<1>6. Stacked'
  <2>1. \A k : Needs(k)' = Needs(k)
    BY <1>1, TextSame
  <2>2. ASSUME NEW n \in DOMAIN stack', n > 1
        PROVE  (stack[n].file \in Reached(Needs(stack[n - 1].file)))'
    <3>1. n \in DOMAIN stack /\ n \in 1..N - 1 /\ n - 1 \in 1..N - 1
      BY <1>3, <1>4, <2>2
    <3>2. stack[n].file \in Reached(Needs(stack[n - 1].file))
      BY <2>2, <3>1 DEF Stacked
    <3>3. stack'[n].file = stack[n].file /\ stack'[n - 1].file = stack[n - 1].file
      BY <1>4, <3>1
    <3> QED
      BY <2>1, <3>2, <3>3 DEF Reached
  <2>3. (\A n \in DOMAIN stack : n > 1 => stack[n].file \in Reached(Needs(stack[n - 1].file)))'
    BY <2>2
  <2>4. (Asking \cap known = {})'
    BY <1>1, <1>3, <1>4, <1>5 DEF Stacked, Asking
  <2>5. (\A m, n \in DOMAIN stack : stack[m].file = stack[n].file => m = n)'
    BY <1>3, <1>4, <1>5 DEF Stacked
  <2>6. (\A n \in DOMAIN stack : ~ stack[n].read => stack[n].todo = {})'
    BY <1>3, <1>4, <1>5 DEF Stacked
  <2> QED
    BY <2>3, <2>4, <2>5, <2>6 DEF Stacked
<1>7. ASSUME NEW g, Finished(g) PROVE Finished(g)'
  <2>1. CASE g \in known \/ g = Top.file
    BY <1>1, <2>1 DEF Finished
  <2>2. ASSUME NEW n \in DOMAIN stack, stack[n].file = g, stack[n].read, n # N
        PROVE  Finished(g)'
    <3>1. n \in DOMAIN stack' /\ stack'[n] = stack[n]
      BY <1>3, <1>4, <2>2
    <3> QED
      BY <2>2, <3>1 DEF Finished
  <2> QED
    BY <1>3, <1>7, <2>1, <2>2 DEF Finished
<1>8. TypeOK'
  BY <1>1, <1>3, <1>4 DEF TypeOK
<1>9. Recorded'
  BY <1>1, RecordedSame
<1>10. Kept'
  BY <1>1, <1>7, <1>8, KeptSame
<1>11. CrashHasCause'
  BY <1>1 DEF CrashHasCause
<1> QED
  BY <1>6, <1>8, <1>9, <1>10, <1>11

(* A statement begins a query, or is done.                                 *)
LEMMA StatementKeeps ==
  ASSUME IInv, Statement
  PROVE  IInv'
<1> USE DEF IInv
<1>1. failed = "none" /\ stack # <<>> /\ ~ Top.read
  BY DEF Statement
<1>2. PICK f, at : f = Top.file /\ at = Len(text[f]) + 1
  OBVIOUS
<1>3. PICK s \in IF Top.waits = None THEN family.of[f] ELSE {Top.waits} : Try(f, s, at, Looked(f, s, at))
  BY <1>2 DEF Statement
<1>4. Top \in Frames /\ f \in Scripts
  BY <1>1, <1>2, StackFacts
<1>5. s \in Statements
  <2>1. family.of[f] \subseteq Statements
    BY <1>4, NamesAssumption DEF TypeOK
  <2>2. Top.waits \in Statements \cup {None}
    BY <1>4 DEF Frames
  <2> QED
    BY <1>3, <2>1, <2>2
<1>6. PICK r : r = Looked(f, s, at)
  OBVIOUS
<1>7. CASE Stop(r, s)
  BY <1>1, <1>2, <1>4, <1>5, <1>6, <1>7, LookedCause, StopKeeps
<1>8. CASE Perform(f, s, at, r)
  BY <1>1, <1>2, <1>5, <1>6, <1>8, PerformKeeps
<1> QED
  BY <1>3, <1>6, <1>7, <1>8 DEF Try

(* In the beginning the script that is asked for is on the stack.          *)
LEMMA InitKeeps == Init => IInv
<1> SUFFICES ASSUME Init PROVE IInv
  OBVIOUS
<1>1. /\ text = [f \in Scripts |-> <<>>] /\ stack = <<Frame(Asked)>> /\ known = {}
      /\ members = [f \in Scripts |-> [p \in Places |-> <<>>]]
      /\ delegate = [f \in Scripts |-> [t \in Tables |-> None]]
      /\ imports = [f \in Scripts |-> [t \in Tables |-> IF t = "root" THEN LibsOf(f) ELSE <<>>]]
      /\ family \in Families /\ answers = <<>> /\ failed = "none"
  BY DEF Init
<1>2. Frame(Asked) \in Frames /\ Frame(Asked).todo = {}
  BY NamesAssumption DEF Frame, Frames
<1>3. stack \in Seq(Frames) /\ DOMAIN stack = {1} /\ stack[1].todo = {}
  BY <1>1, <1>2
<1>4. TypeOK
  <2>1. <<>> \in Seq(Statements) /\ <<>> \in Seq(Nat) /\ <<>> \in Seq(Answers) /\ <<>> \in Seq(Scripts)
    BY EmptySeq
  <2>2. \A f \in Scripts : LibsOf(f) \in Seq(Scripts)
    BY LibsFacts
  <2>3. imports \in [Scripts -> [Tables -> Seq(Scripts)]]
    BY <1>1, <2>1, <2>2
  <2> QED
    BY <1>1, <1>3, <2>1, <2>3 DEF TypeOK
<1>5. Stacked
  BY <1>1, <1>3 DEF Stacked
<1>6. Recorded
  <2>1. \A f \in Scripts, t \in Tables : LastDelegate(f, t) = None
    BY <1>1 DEF LastDelegate
  <2>2. \A f \in Scripts, t \in Tables : ToSet(imports[f][t]) \subseteq Needs(f)
    BY <1>1 DEF Needs, ToSet
  <2> QED
    BY <1>1, <2>1, <2>2 DEF Recorded
<1>7. Kept /\ CrashHasCause
  BY <1>1 DEF Kept, CrashHasCause
<1> QED
  BY <1>4, <1>5, <1>6, <1>7 DEF IInv

(* Every step keeps the invariant.                                         *)
LEMMA NextKeeps == IInv /\ [Next]_vars => IInv'
<1> SUFFICES ASSUME IInv, [Next]_vars PROVE IInv'
  OBVIOUS
<1>1. CASE Next
  BY <1>1, StatementKeeps, EndKeeps, WalkKeeps, ReturnKeeps DEF Next
<1>2. CASE UNCHANGED vars
  <2>1. UNCHANGED <<text, stack, known, members, delegate, imports, family, answers, failed>>
    BY <1>2 DEF vars
  <2>2. TypeOK'
    BY <2>1 DEF IInv, TypeOK
  <2>3. Recorded'
    BY <2>1, RecordedSame DEF IInv
  <2>4. \A k : Needs(k)' = Needs(k)
    BY <2>1, TextSame
  <2>5. Stacked'
    BY <2>1, <2>4 DEF IInv, Stacked, Asking, Reached
  <2>6. \A g : Finished(g) => Finished(g)'
    BY <2>1 DEF Finished
  <2>7. Kept'
    BY <2>1, <2>2, <2>6, KeptSame DEF IInv
  <2>8. CrashHasCause'
    <3>1. /\ Asking' = Asking /\ (\A g : Circle(g)' <=> Circle(g)) /\ (\A k : Needs(k)' = Needs(k))
          /\ failed' = failed
      BY <2>1, TextSame DEF Asking
    <3>2. Reached(Asking)' = Reached(Asking)
      BY <3>1 DEF Reached
    <3>3. \A k : Reached(Needs(k))' = Reached(Needs(k))
      BY <3>1 DEF Reached
    <3>4. Mutual => Mutual'
      BY <3>1, <3>3 DEF Mutual
    <3>5. failed' = "cycle" => Mutual'
      BY <3>1, <3>4 DEF IInv, CrashHasCause
    <3>6. failed' = "overflow" => \E f \in Reached(Asking)' : Circle(f)'
      BY <3>1, <3>2 DEF IInv, CrashHasCause
    <3> QED
      BY <3>5, <3>6 DEF CrashHasCause
  <2> QED
    BY <2>2, <2>3, <2>5, <2>7, <2>8 DEF IInv
<1> QED
  BY <1>1, <1>2

(* The invariant holds whenever names are resolved.                        *)
THEOREM Resolving == Spec => []IInv
<1>1. Init => IInv
  BY InitKeeps
<1>2. IInv /\ [Next]_vars => IInv'
  BY NextKeeps
<1> QED
  BY <1>1, <1>2, PTL DEF Spec

(* Resolving fails only for scripts that need each other, and overflows    *)
(* the stack only for delegates that lead in a circle.                     *)
THEOREM CrashHasCauseHolds == Spec => []CrashHasCause
<1>1. IInv => CrashHasCause
  BY DEF IInv
<1> QED
  BY <1>1, Resolving, PTL

(* The handlers find at a place what resolving found there.                *)
THEOREM HandlersAgreeHolds == Spec => []HandlersAgree
<1>1. IInv => HandlersAgree
  <2> SUFFICES ASSUME IInv, NEW n \in DOMAIN answers, answers[n].in = "this"
               PROVE  \/ SymbolsAt(answers[n].file, answers[n].at, answers[n].late) = answers[n].symbol
                      \/ ~ answers[n].late /\ Unsettled(answers[n])
    BY DEF HandlersAgree
  <2>1. PICK a : a = answers[n]
    OBVIOUS
  <2>2. Same(a) \/ (~ a.late /\ Unsettled(a))
    BY <2>1 DEF IInv, Kept, Settled
  <2>3. Same(a) => SymbolsAt(a.file, a.at, a.late) = a.symbol
    BY SymbolsAtFacts DEF Same
  <2> QED
    BY <2>1, <2>2, <2>3
<1> QED
  BY <1>1, Resolving, PTL
=============================================================================
