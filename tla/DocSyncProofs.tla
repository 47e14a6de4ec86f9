--------------------------- MODULE DocSyncProofs ----------------------------
(***************************************************************************)
(* Proofs about DocSync: the server has the text of the editor, for any    *)
(* texts, any number of edits, changes in a message and messages on their  *)
(* way.                                                                    *)
(***************************************************************************)
EXTENDS DocSync, WellFoundedInduction, SequenceTheorems, FiniteSetTheorems, TLAPS

(* A set of naturals that is not empty has a least element.                *)
LEMMA Least ==
  ASSUME NEW T, T \subseteq Nat, T # {}
  PROVE  \E n \in T : \A m \in T : n <= m
<1>1. IsWellFoundedOn(OpToRel(<, Nat), Nat)
  BY NatLessThanWellFounded
<1> DEFINE R == {ss \in Nat \X Nat : ss[1] < ss[2]}
<1>2. IsWellFoundedOn(R, Nat)
  BY <1>1 DEF OpToRel
<1> HIDE DEF R
<1>3. PICK n \in T : \A m \in T : <<m, n>> \notin R
  BY <1>2, WFMin, Zenon
<1>4. ASSUME NEW m \in T, m < n
      PROVE  FALSE
  <2>1. <<m, n>> \in Nat \X Nat
    OBVIOUS
  <2>2. <<m, n>>[1] = m /\ <<m, n>>[2] = n
    OBVIOUS
  <2>3. <<m, n>>[1] < <<m, n>>[2]
    BY <1>4, <2>2, Zenon
  <2>4. <<m, n>> \in R
    BY <2>1, <2>3, Zenon DEF R
  <2> QED
    BY <1>3, <2>4, Zenon
<1> QED
  BY <1>4

(* A set that holds 0, and with a number the next one, holds all of them.  *)
LEMMA SetInduction ==
  ASSUME NEW T, 0 \in T, \A n \in Nat : n \in T => n + 1 \in T
  PROVE  Nat \subseteq T
<1> SUFFICES ASSUME Nat \ T # {} PROVE FALSE
  OBVIOUS
<1>1. PICK n \in Nat \ T : \A m \in Nat \ T : n <= m
  BY Least
<1>2. n - 1 \in Nat \ T /\ n - 1 < n
  BY <1>1
<1> QED
  BY <1>1, <1>2

(* The changes of a message.                                               *)
Changes == [full : BOOLEAN, from : Nat, to : Nat, new : Seq(Nat)]

(* What the editor does with a change, and where it may be made.           *)
Applied(t, c) == IF c.full THEN c.new ELSE ReplaceRange(t, c)
Within(t, c) == c.full \/ (c.from <= c.to /\ c.to <= Len(t))

(* g is the texts of the editor while it made the changes b.               *)
Path(b, g) ==
  /\ g \in [0..Len(b) -> Seq(Nat)]
  /\ \A n \in 1..Len(b) : Within(g[n - 1], b[n]) /\ g[n] = Applied(g[n - 1], b[n])

(* The changes b make u from t.                                            *)
Leads(t, b, u) == \E g : Path(b, g) /\ g[0] = t /\ g[Len(b)] = u

-----------------------------------------------------------------------------
(* What a sequence of changes is made of.                                  *)
LEMMA Fields ==
  ASSUME NEW b \in Seq(Changes)
  PROVE  /\ Len(b) \in Nat /\ DOMAIN b = 1..Len(b)
         /\ \A i \in 1..Len(b) : /\ b[i] \in Changes
                                 /\ b[i].full \in BOOLEAN
                                 /\ b[i].from \in Nat /\ b[i].to \in Nat
                                 /\ b[i].new \in Seq(Nat)
<1>1. Len(b) \in Nat /\ DOMAIN b = 1..Len(b) /\ \A i \in 1..Len(b) : b[i] \in Changes
  OBVIOUS
<1> QED
  BY <1>1 DEF Changes

(* There are N numbers from 1 to N.                                        *)
LEMMA Count ==
  ASSUME NEW N \in Nat
  PROVE  Cardinality(1..N) = N
BY FS_Interval

(* If what goes before i is 1..i-1, then i is the one with i-1 before it.  *)
LEMMA Rank ==
  ASSUME NEW N \in Nat, NEW R, \A i \in 1..N : R[i] = 1..(i - 1),
         NEW n \in 1..N
  PROVE  (CHOOSE i \in 1..N : Cardinality(R[i]) = n - 1) = n
<1>1. \A i \in 1..N : Cardinality(R[i]) = i - 1
  <2> TAKE i \in 1..N
  <2>1. Cardinality(1..(i - 1)) = i - 1
    BY Count
  <2> QED
    BY <2>1
<1> QED
  BY <1>1

(* Ranges that are all inside the text the server had are all collected,   *)
(* in their order.                                                         *)
LEMMA CollectedAll ==
  ASSUME NEW b \in Seq(Changes),
         \A i \in 1..Len(b) : ~b[i].full /\ b[i].to <= Len(text)
  PROVE  Collected(b) = b
<1> DEFINE N == Len(b)
           kept == {i \in DOMAIN b : /\ ~ b[i].full
                                     /\ b[i].to <= Len(text)
                                     /\ b[i].to <= Len(Base(b, i))}
<1>0. N \in Nat /\ DOMAIN b = 1..N
  OBVIOUS
<1>1. \A i \in 1..N : Base(b, i) = text
  BY <1>0 DEF Base
<1>2. kept = 1..N
  <2>1. \A i \in 1..N : /\ ~b[i].full
                       /\ b[i].to <= Len(text)
                       /\ b[i].to <= Len(Base(b, i))
    BY <1>1
  <2> QED
    BY <1>0, <2>1, Zenon
<1>3. Cardinality(1..N) = N
  BY <1>0, Count
<1> DEFINE R == [i \in 1..N |-> {j \in 1..N : j < i}]
<1>4. \A i \in 1..N : R[i] = 1..(i - 1)
  BY <1>0
<1>5. \A n \in 1..N : InOrder(kept, <)[n] = n
  <2> TAKE n \in 1..N
  <2> HIDE DEF R
  <2>1. (CHOOSE i \in 1..N : Cardinality(R[i]) = n - 1) = n
    BY <1>0, <1>4, Rank
  <2>2. (CHOOSE i \in 1..N : Cardinality({j \in 1..N : j < i}) = n - 1) = n
    BY <2>1 DEF R
  <2> HIDE DEF kept
  <2> QED
    BY <1>2, <1>3, <2>2 DEF InOrder
<1>6. Collected(b) = [n \in 1..Cardinality(kept) |-> b[InOrder(kept, <)[n]]]
  BY DEF Collected
<1> HIDE DEF kept
<1>7. Collected(b) = [n \in 1..N |-> b[n]]
  BY <1>2, <1>3, <1>5, <1>6
<1> QED
  BY <1>0, <1>7

(* Ranges that start one before the other are applied in their order.      *)
LEMMA OrderedAlready ==
  ASSUME NEW cs \in Seq(Changes),
         \A i, j \in 1..Len(cs) : i < j => cs[j].from < cs[i].from
  PROVE  Ordered(cs) = cs
<1> DEFINE N == Len(cs)
           Sooner(i, j) == \/ cs[i].from > cs[j].from
                           \/ cs[i].from = cs[j].from /\ i > j
<1>0. N \in Nat /\ DOMAIN cs = 1..N
  OBVIOUS
<1>1. \A i \in 1..N : cs[i].from \in Nat
  BY Fields
<1>2. \A i, j \in 1..N : Sooner(j, i) <=> j < i
  BY <1>0, <1>1
<1>3. Cardinality(1..N) = N
  BY <1>0, Count
<1> DEFINE R == [i \in 1..N |-> {j \in 1..N : Sooner(j, i)}]
<1> HIDE DEF Sooner
<1>4. \A i \in 1..N : R[i] = 1..(i - 1)
  BY <1>0, <1>2
<1>5. \A n \in 1..N : InOrder(DOMAIN cs, Sooner)[n] = n
  <2> TAKE n \in 1..N
  <2> HIDE DEF R
  <2>1. (CHOOSE i \in 1..N : Cardinality(R[i]) = n - 1) = n
    BY <1>0, <1>4, Rank
  <2>2. (CHOOSE i \in 1..N : Cardinality({j \in 1..N : Sooner(j, i)}) = n - 1) = n
    BY <2>1 DEF R
  <2> QED
    BY <1>0, <1>3, <2>2 DEF InOrder
<1>6. Ordered(cs) = [n \in DOMAIN cs |-> cs[InOrder(DOMAIN cs, Sooner)[n]]]
  BY DEF Ordered, Sooner
<1>7. Ordered(cs) = [n \in 1..N |-> cs[n]]
  BY <1>0, <1>5, <1>6
<1> QED
  BY <1>0, <1>7

(* If each range starts before the last one, each starts before all others *)
(* that precede it in the message.                                         *)
LEMMA Decreasing ==
  ASSUME NEW b \in Seq(Changes),
         \A i \in 1..Len(b) - 1 : b[i + 1].from < b[i].from
  PROVE  \A i, j \in 1..Len(b) : i < j => b[j].from < b[i].from
<1> DEFINE T == {d \in Nat : \A i \in 1..Len(b) :
                    i + d + 1 <= Len(b) => b[i + d + 1].from < b[i].from}
<1>0. Len(b) \in Nat /\ \A i \in 1..Len(b) : b[i].from \in Nat
  BY Fields
<1>1. 0 \in T
  BY <1>0
<1>2. ASSUME NEW d \in Nat, d \in T
      PROVE  d + 1 \in T
  <2> SUFFICES ASSUME NEW i \in 1..Len(b), i + (d + 1) + 1 <= Len(b)
               PROVE  b[i + (d + 1) + 1].from < b[i].from
    OBVIOUS
  <2>1. b[i + d + 1].from < b[i].from
    BY <1>0, <1>2
  <2>2. i + d + 1 \in 1..Len(b) - 1 /\ i + (d + 1) + 1 = (i + d + 1) + 1
    BY <1>0
  <2>3. b[(i + d + 1) + 1].from < b[i + d + 1].from
    BY <2>2
  <2>4. (i + d + 1) + 1 \in 1..Len(b) /\ i + d + 1 \in 1..Len(b)
    BY <1>0
  <2> QED
    BY <1>0, <2>1, <2>2, <2>3, <2>4
<1>3. Nat \subseteq T
  <2> HIDE DEF T
  <2> QED
    BY <1>1, <1>2, SetInduction
<1>4. ASSUME NEW i \in 1..Len(b), NEW j \in 1..Len(b), i < j
      PROVE  b[j].from < b[i].from
  <2>1. j - i - 1 \in Nat /\ i + (j - i - 1) + 1 = j
    BY <1>0, <1>4
  <2>2. j - i - 1 \in T
    BY <1>3, <2>1
  <2> QED
    BY <2>1, <2>2
<1> QED
  BY <1>4

(* Bottom-up ranges end where the first one does or before that.           *)
LEMMA Below ==
  ASSUME NEW b \in Seq(Changes),
         \A i \in 1..Len(b) : b[i].from <= b[i].to,
         \A i \in 1..Len(b) - 1 : b[i + 1].to <= b[i].from
  PROVE  \A i \in 1..Len(b) : b[i].to <= b[1].to
<1> DEFINE T == {d \in Nat : d + 1 <= Len(b) => b[d + 1].to <= b[1].to}
<1>0. Len(b) \in Nat /\ \A i \in 1..Len(b) : b[i].from \in Nat /\ b[i].to \in Nat
  BY Fields
<1>1. 0 \in T
  BY <1>0
<1>2. ASSUME NEW d \in Nat, d \in T
      PROVE  d + 1 \in T
  <2> SUFFICES ASSUME (d + 1) + 1 <= Len(b)
               PROVE  b[(d + 1) + 1].to <= b[1].to
    OBVIOUS
  <2>1. b[d + 1].to <= b[1].to
    BY <1>0, <1>2
  <2>2. d + 1 \in 1..Len(b) - 1 /\ d + 1 \in 1..Len(b) /\ (d + 1) + 1 \in 1..Len(b) /\ 1 \in 1..Len(b)
    BY <1>0
  <2>3. b[(d + 1) + 1].to <= b[d + 1].from /\ b[d + 1].from <= b[d + 1].to
    BY <2>2
  <2> QED
    BY SMTT(30), <1>0, <2>1, <2>2, <2>3
<1>3. Nat \subseteq T
  <2> HIDE DEF T
  <2> QED
    BY <1>1, <1>2, SetInduction
<1>4. ASSUME NEW i \in 1..Len(b)
      PROVE  b[i].to <= b[1].to
  <2>1. i - 1 \in T /\ (i - 1) + 1 = i /\ i <= Len(b)
    BY <1>0, <1>3
  <2> QED
    BY <2>1
<1> QED
  BY <1>4

(* Stages, a recursive function, computes the texts of g where each range  *)
(* is within the text that the ranges before it left.                      *)
LEMMA StagesAre ==
  ASSUME NEW cs, Len(cs) \in Nat, NEW g, g \in [0..Len(cs) -> Seq(Nat)],
         \A n \in 1..Len(cs) : cs[n].to <= Len(g[n - 1]) /\ g[n] = ReplaceRange(g[n - 1], cs[n])
  PROVE  Stages(g[0], cs) = [text |-> g[Len(cs)], ok |-> TRUE]
<1> DEFINE N == Len(cs)
           Good(n) == [text |-> g[n], ok |-> TRUE]
           Bad == [text |-> << >>, ok |-> FALSE]
           Next1(s, n) == IF s.ok /\ cs[n].to <= Len(s.text)
                          THEN [text |-> ReplaceRange(s.text, cs[n]), ok |-> TRUE]
                          ELSE Bad
           F(f) == [n \in 0..N |-> IF n = 0 THEN Good(0) ELSE Next1(f[n - 1], n)]
           w == [n \in 0..N |-> Good(n)]
           stage == CHOOSE f : f = F(f)
<1>1. \A n \in 1..N : Next1(Good(n - 1), n) = Good(n)
  OBVIOUS
<1>2. w = F(w)
  <2> SUFFICES ASSUME NEW n \in 0..N
               PROVE  w[n] = IF n = 0 THEN Good(0) ELSE Next1(w[n - 1], n)
    OBVIOUS
  <2>1. CASE n = 0
    BY <2>1
  <2>2. CASE n # 0
    <3> HIDE DEF Next1, Good
    <3>1. n \in 1..N /\ n - 1 \in 0..N
      BY <2>2
    <3>2. w[n - 1] = Good(n - 1) /\ w[n] = Good(n)
      BY <3>1
    <3> QED
      BY <1>1, <2>2, <3>1, <3>2
  <2> QED
    BY <2>1, <2>2
<1> HIDE DEF Next1, w, Good
<1>3. stage = F(stage)
  <2> HIDE DEF F
  <2> QED
    BY <1>2
<1>4. \A n \in 0..N : stage[n] = IF n = 0 THEN Good(0) ELSE Next1(stage[n - 1], n)
  <2> HIDE DEF stage
  <2> QED
    BY <1>3
<1> HIDE DEF stage
<1> DEFINE T == {n \in Nat : n <= N => stage[n] = Good(n)}
<1>5. 0 \in T
  BY <1>4
<1>6. ASSUME NEW n \in Nat, n \in T
      PROVE  n + 1 \in T
  <2> SUFFICES ASSUME n + 1 <= N
               PROVE  stage[n + 1] = Good(n + 1)
    OBVIOUS
  <2>1. n + 1 \in 1..N /\ n + 1 \in 0..N /\ (n + 1) - 1 = n /\ n + 1 # 0 /\ n <= N
    OBVIOUS
  <2>2. stage[n + 1] = Next1(stage[n], n + 1)
    BY <1>4, <2>1
  <2>3. stage[n] = Good(n)
    BY <1>6, <2>1
  <2> QED
    BY <1>1, <2>1, <2>2, <2>3
<1>7. Nat \subseteq T
  <2> HIDE DEF T
  <2> QED
    BY <1>5, <1>6, SetInduction
<1>8. stage[N] = Good(N)
  BY <1>7
<1>9. Stages(g[0], cs) = stage[N]
  BY DEF Stages, stage, Next1, Good
<1> QED
  BY <1>8, <1>9 DEF Good

-----------------------------------------------------------------------------
(* A range of a text is replaced by a text.                                *)
LEMMA ReplaceRangeType ==
  ASSUME NEW t \in Seq(Nat), NEW c \in Changes, c.from <= c.to, c.to <= Len(t)
  PROVE  ReplaceRange(t, c) \in Seq(Nat)
<1>1. c.from \in Nat /\ c.to \in Nat /\ c.new \in Seq(Nat)
  BY DEF Changes
<1>2. SubSeq(t, 1, c.from) \in Seq(Nat)
  BY <1>1, SubSeqProperties
<1>3. SubSeq(t, c.to + 1, Len(t)) \in Seq(Nat)
  BY <1>1, SubSeqProperties
<1> QED
  BY <1>1, <1>2, <1>3, ConcatProperties DEF ReplaceRange

(* A change makes a text of a text.                                        *)
LEMMA AppliedType ==
  ASSUME NEW t \in Seq(Nat), NEW c \in Changes, Within(t, c)
  PROVE  Applied(t, c) \in Seq(Nat)
<1>1. c.full \in BOOLEAN /\ c.new \in Seq(Nat)
  BY DEF Changes
<1> QED
  BY <1>1, ReplaceRangeType DEF Applied, Within

(* Without a change a text stays what it is.                               *)
LEMMA NoChange ==
  ASSUME NEW t \in Seq(Nat)
  PROVE  Leads(t, << >>, t)
<1> DEFINE g == [n \in 0..0 |-> t]
<1>1. Path(<< >>, g) /\ g[0] = t /\ g[Len(<< >>)] = t
  BY DEF Path
<1> QED
  BY <1>1, Zenon DEF Leads

(* A change more is applied to what the changes before it made.            *)
LEMMA OneMore ==
  ASSUME NEW t, NEW b \in Seq(Changes), NEW u \in Seq(Nat), Leads(t, b, u),
         NEW c \in Changes, Within(u, c)
  PROVE  Leads(t, Append(b, c), Applied(u, c))
<1>1. PICK g : Path(b, g) /\ g[0] = t /\ g[Len(b)] = u
  BY Zenon DEF Leads
<1> DEFINE B == Append(b, c)
           G == [n \in 0..Len(b) + 1 |-> IF n = Len(b) + 1 THEN Applied(u, c) ELSE g[n]]
<1>2. Len(b) \in Nat
  OBVIOUS
<1>3. /\ Len(B) = Len(b) + 1 /\ B[Len(b) + 1] = c
      /\ \A n \in 1..Len(b) : B[n] = b[n]
  BY AppendProperties
<1>4. g \in [0..Len(b) -> Seq(Nat)]
  BY <1>1 DEF Path
<1>5. Applied(u, c) \in Seq(Nat)
  BY AppliedType
<1>6. /\ G \in [0..Len(b) + 1 -> Seq(Nat)]
      /\ G[Len(b) + 1] = Applied(u, c)
      /\ \A n \in 0..Len(b) : G[n] = g[n]
  BY <1>2, <1>4, <1>5
<1> HIDE DEF B, G
<1>7. ASSUME NEW n \in 1..Len(B)
      PROVE  Within(G[n - 1], B[n]) /\ G[n] = Applied(G[n - 1], B[n])
  <2>1. CASE n = Len(b) + 1
    <3>1. G[n - 1] = u
      BY SMTT(30), <1>1, <1>2, <1>6, <2>1
    <3> QED
      BY <1>3, <1>6, <2>1, <3>1
  <2>2. CASE n \in 1..Len(b)
    <3>1. Within(g[n - 1], b[n]) /\ g[n] = Applied(g[n - 1], b[n])
      BY <1>1, <2>2 DEF Path
    <3>2. G[n - 1] = g[n - 1] /\ G[n] = g[n] /\ B[n] = b[n]
      BY <1>2, <1>3, <1>6, <2>2
    <3> QED
      BY <3>1, <3>2
  <2> QED
    BY <1>2, <1>3, <2>1, <2>2
<1>8. Path(B, G) /\ G[0] = t /\ G[Len(B)] = Applied(u, c)
  BY <1>1, <1>2, <1>3, <1>6, <1>7 DEF Path
<1> QED
  BY <1>8, Zenon DEF Leads, B

-----------------------------------------------------------------------------
(* The server applies full texts as the editor did, whatever it had.       *)
LEMMA FullsAreMirrored ==
  ASSUME NEW t, NEW b \in Seq(Changes), b # << >>, NEW u, Leads(t, b, u),
         \A i \in DOMAIN b : b[i].full
  PROVE  Stages(Base(b, Len(b)), Ordered(Collected(b))) = [text |-> u, ok |-> TRUE]
<1>0. Len(b) \in Nat /\ Len(b) \in 1..Len(b) /\ DOMAIN b = 1..Len(b)
  OBVIOUS
<1>1. PICK g : Path(b, g) /\ g[0] = t /\ g[Len(b)] = u
  BY Zenon DEF Leads
<1>2. u = b[Len(b)].new /\ u \in Seq(Nat)
  BY <1>0, <1>1 DEF Path, Applied
<1>3. Base(b, Len(b)) = u
  <2> DEFINE full == {i \in 1..Len(b) : b[i].full}
  <2>1. full = 1..Len(b)
    BY <1>0
  <2>2. (CHOOSE i \in 1..Len(b) : \A j \in 1..Len(b) : j <= i) = Len(b)
    BY <1>0
  <2>3. Base(b, Len(b)) = IF full = {} THEN text ELSE b[CHOOSE i \in full : \A j \in full : j <= i].new
    BY DEF Base
  <2> HIDE DEF full
  <2> QED
    BY <1>0, <1>2, <2>1, <2>2, <2>3
<1>4. Collected(b) = << >>
  <2> DEFINE kept == {i \in DOMAIN b : /\ ~ b[i].full
                                       /\ b[i].to <= Len(text)
                                       /\ b[i].to <= Len(Base(b, i))}
  <2>1. kept = {}
    OBVIOUS
  <2>2. Collected(b) = [n \in 1..Cardinality(kept) |-> b[InOrder(kept, <)[n]]]
    BY DEF Collected
  <2> HIDE DEF kept
  <2>3. Cardinality(kept) = 0
    BY <2>1, FS_EmptySet
  <2> QED
    BY <2>2, <2>3
<1>5. Ordered(<< >>) = << >>
  BY DEF Ordered
<1> DEFINE w == [n \in 0..0 |-> u]
<1>6. Stages(w[0], << >>) = [text |-> w[Len(<< >>)], ok |-> TRUE]
  <2> DEFINE none == << >>
  <2>1. /\ w \in [0..Len(none) -> Seq(Nat)] /\ Len(none) \in Nat
        /\ \A n \in 1..Len(none) : FALSE
    BY <1>2
  <2> HIDE DEF w, none
  <2>2. \A n \in 1..Len(none) : /\ none[n].to <= Len(w[n - 1])
                               /\ w[n] = ReplaceRange(w[n - 1], none[n])
    BY <2>1
  <2>3. Stages(w[0], none) = [text |-> w[Len(none)], ok |-> TRUE]
    BY <2>1, <2>2, StagesAre, Zenon
  <2> QED
    BY <2>3 DEF none
<1> QED
  BY <1>3, <1>4, <1>5, <1>6

(* The server applies the ranges of a bottom-up message as the editor did, *)
(* and every one of them is within the text.                               *)
LEMMA RangesAreMirrored ==
  ASSUME NEW b \in Seq(Changes), b # << >>, NEW u, Leads(text, b, u), BottomUp(b),
         ~(\A i \in DOMAIN b : b[i].full)
  PROVE  Stages(Base(b, Len(b)), Ordered(Collected(b))) = [text |-> u, ok |-> TRUE]
<1>0. /\ Len(b) \in Nat /\ 1 \in 1..Len(b) /\ DOMAIN b = 1..Len(b)
      /\ \A i \in 1..Len(b) : b[i].from \in Nat /\ b[i].to \in Nat
  <2>1. Len(b) # 0
    OBVIOUS
  <2> QED
    BY <2>1, Fields
<1>1. PICK g : Path(b, g) /\ g[0] = text /\ g[Len(b)] = u
  BY Zenon DEF Leads
<1>2. /\ \A i \in 1..Len(b) : ~b[i].full
      /\ \A i \in 1..Len(b) - 1 : b[i + 1].to <= b[i].from /\ b[i + 1].from < b[i].from
  BY <1>0 DEF BottomUp
<1>3. \A i \in 1..Len(b) : /\ b[i].from <= b[i].to /\ b[i].to <= Len(g[i - 1])
                           /\ g[i] = ReplaceRange(g[i - 1], b[i])
  BY <1>1, <1>2 DEF Path, Within, Applied
<1>4. \A i \in 1..Len(b) : b[i].to <= b[1].to
  BY <1>2, <1>3, Below
<1>5. \A i \in 1..Len(b) : b[i].to <= Len(text)
  <2>1. b[1].to <= Len(g[0]) /\ g[0] \in Seq(Nat)
    BY <1>0, <1>1, <1>3 DEF Path
  <2>2. Len(text) \in Nat
    BY <1>1, <2>1
  <2> QED
    BY <1>0, <1>1, <1>4, <2>1, <2>2
<1>6. Collected(b) = b
  BY <1>2, <1>5, CollectedAll
<1>7. Ordered(b) = b
  BY <1>2, Decreasing, OrderedAlready
<1>8. Base(b, Len(b)) = text
  <2>1. {i \in 1..Len(b) : b[i].full} = {}
    BY <1>2
  <2> QED
    BY <2>1 DEF Base
<1>9. Stages(g[0], b) = [text |-> g[Len(b)], ok |-> TRUE]
  BY <1>0, <1>1, <1>3, StagesAre DEF Path
<1> QED
  BY <1>1, <1>6, <1>7, <1>8, <1>9

-----------------------------------------------------------------------------
(* What the server has is left out: a message that is not bottom-up may    *)
(* make anything of it.                                                    *)
TypeOK ==
  /\ editor \in Seq(Nat)
  /\ batch \in Seq(Changes)
  /\ inbox \in Seq(Seq(Changes)) /\ \A n \in DOMAIN inbox : inbox[n] # << >>
  /\ crashed \in BOOLEAN /\ tainted \in BOOLEAN
  /\ edits \in Nat

(* h is the texts of the editor at the ends of the messages on their way,  *)
(* which lead from one to the next and in the end to its text.             *)
Chain(h) ==
  /\ h \in [0..Len(inbox) -> Seq(Nat)]
  /\ \A n \in 1..Len(inbox) : Leads(h[n - 1], inbox[n], h[n])
  /\ Leads(h[Len(inbox)], batch, editor)

(* The server has the text from which the messages on their way start,     *)
(* unless a message was not bottom-up.                                     *)
InStep == \E h : Chain(h) /\ (tainted \/ h[0] = text)

IInv == TypeOK /\ InStep /\ NeverOutOfBounds

(* A document is opened with the text of the editor.                       *)
LEMMA InitIInv == Init => IInv
<1> SUFFICES ASSUME Init PROVE IInv
  OBVIOUS
<1> USE DEF Init
<1>1. text \in Seq(Nat)
  BY DocSyncAssumption DEF DocSyncAssumption
<1>2. TypeOK
  <2>1. << >> \in Seq(Changes) /\ << >> \in Seq(Seq(Changes)) /\ DOMAIN << >> = {}
    BY EmptySeq
  <2> QED
    BY <1>1, <2>1 DEF TypeOK
<1> DEFINE h == [n \in 0..0 |-> text]
<1>3. Chain(h) /\ h[0] = text
  <2>1. Leads(text, << >>, text)
    BY <1>1, NoChange
  <2>2. Len(inbox) = 0
    OBVIOUS
  <2> QED
    BY <1>1, <2>1, <2>2 DEF Chain
<1> QED
  BY <1>2, <1>3, Zenon DEF IInv, InStep, NeverOutOfBounds

(* An edit, or a new full text: one change more in the batch.              *)
LEMMA Changed ==
  ASSUME IInv, NEW c \in Changes, Within(editor, c),
         editor' = Applied(editor, c), batch' = Append(batch, c), edits' = edits + 1,
         UNCHANGED <<inbox, text, crashed, tainted>>
  PROVE  IInv'
<1>0. TypeOK /\ InStep /\ NeverOutOfBounds
  BY DEF IInv
<1>1. TypeOK'
  <2>1. editor' \in Seq(Nat)
    BY <1>0, AppliedType DEF TypeOK
  <2>2. batch' \in Seq(Changes)
    BY <1>0, AppendProperties DEF TypeOK
  <2> QED
    BY <1>0, <2>1, <2>2 DEF TypeOK
<1>2. InStep'
  <2>1. PICK h : Chain(h) /\ (tainted \/ h[0] = text)
    BY <1>0 DEF InStep
  <2>2. Leads(h[Len(inbox)], Append(batch, c), Applied(editor, c))
    BY <1>0, <2>1, OneMore DEF Chain, TypeOK
  <2>3. /\ h \in [0..Len(inbox) -> Seq(Nat)]
        /\ \A n \in 1..Len(inbox) : Leads(h[n - 1], inbox[n], h[n])
    BY <2>1 DEF Chain
  <2>4. Leads(h[Len(inbox)], batch', editor')
    BY <2>2
  <2>5. Chain(h)'
    BY <2>3, <2>4 DEF Chain
  <2> QED
    BY <2>1, <2>5 DEF InStep
<1> QED
  BY <1>0, <1>1, <1>2 DEF IInv, NeverOutOfBounds

(* What an edit inserts is a text.                                         *)
LEMMA NewsType == ASSUME edits \in Nat PROVE News \subseteq Seq(Nat)
<1>1. << >> \in Seq(Nat)
  BY EmptySeq
<1>2. edits + 1 \in Nat
  OBVIOUS
<1>3. ASSUME NEW e \in Nat PROVE <<e>> \in Seq(Nat)
  OBVIOUS
<1>4. <<edits + 1>> \in Seq(Nat)
  BY <1>2, <1>3
<1> QED
  BY <1>1, <1>4 DEF News

(* A range of the text is replaced.                                        *)
LEMMA EditKeeps == ASSUME IInv, Edit PROVE IInv'
<1>a. PICK new \in News, to \in 0..Len(editor) : \E from \in 0..to :
        /\ editor' = ReplaceRange(editor, Change(from, to, new))
        /\ batch' = Append(batch, Change(from, to, new))
  BY Zenon DEF Edit
<1>1. PICK from \in 0..to :
        /\ editor' = ReplaceRange(editor, Change(from, to, new))
        /\ batch' = Append(batch, Change(from, to, new))
  BY <1>a
<1> DEFINE c == Change(from, to, new)
<1>0. edits \in Nat /\ Len(editor) \in Nat
  BY DEF IInv, TypeOK
<1>2. new \in Seq(Nat)
  BY <1>0, NewsType
<1>3. c \in Changes /\ c.full = FALSE /\ c.from = from /\ c.to = to
  BY <1>0, <1>2 DEF Change, Changes
<1>4. Within(editor, c) /\ Applied(editor, c) = ReplaceRange(editor, c)
  BY <1>0, <1>3 DEF Within, Applied
<1> QED
  BY <1>1, <1>3, <1>4, Changed DEF Edit

(* The whole text is replaced.                                             *)
LEMMA ReloadKeeps == ASSUME IInv, Reload PROVE IInv'
<1>1. PICK new \in News : editor' = new /\ batch' = Append(batch, Full(new))
  BY DEF Reload
<1> DEFINE c == Full(new)
<1>0. edits \in Nat
  BY DEF IInv, TypeOK
<1>2. new \in Seq(Nat)
  BY <1>0, NewsType
<1>3. c \in Changes /\ c.full /\ c.new = new
  BY <1>2 DEF Full, Changes
<1>4. Within(editor, c) /\ Applied(editor, c) = new
  BY <1>3 DEF Within, Applied
<1> QED
  BY <1>1, <1>3, <1>4, Changed DEF Reload

(* A message more is on its way, and the next batch is empty.              *)
LEMMA SendKeeps == ASSUME IInv, Send PROVE IInv'
<1>0. TypeOK /\ InStep /\ NeverOutOfBounds
  BY DEF IInv
<1> DEFINE N == Len(inbox)
           I == Append(inbox, batch)
<1>1. /\ N \in Nat /\ I \in Seq(Seq(Changes)) /\ Len(I) = N + 1 /\ I[N + 1] = batch
      /\ \A n \in 1..N : I[n] = inbox[n]
  BY <1>0, AppendProperties DEF TypeOK
<1>2. inbox' = I /\ batch' = << >> /\ batch # << >>
  BY DEF Send
<1>3. UNCHANGED <<editor, text, crashed, edits, tainted>>
  BY DEF Send
<1> HIDE DEF I
<1>4. TypeOK'
  <2>1. \A n \in 1..N : inbox[n] # << >>
    BY <1>0 DEF TypeOK
  <2>2. ASSUME NEW n \in 1..N + 1
        PROVE  I[n] # << >>
    <3>1. CASE n = N + 1
      BY <1>1, <1>2, <3>1
    <3>2. CASE n \in 1..N
      <4>1. I[n] = inbox[n] /\ inbox[n] # << >>
        BY <1>1, <2>1, <3>2
      <4> QED
        BY <4>1
    <3> QED
      BY <1>1, <3>1, <3>2
  <2>3. DOMAIN I = 1..N + 1
    BY <1>1
  <2> QED
    BY <1>0, <1>1, <1>2, <1>3, <2>2, <2>3 DEF TypeOK
<1>5. InStep'
  <2>1. PICK h : Chain(h) /\ (tainted \/ h[0] = text)
    BY <1>0 DEF InStep
  <2>H. PICK H : H = [n \in 0..N + 1 |-> IF n = N + 1 THEN editor ELSE h[n]]
    OBVIOUS
  <2>2. editor \in Seq(Nat)
    BY <1>0 DEF TypeOK
  <2>3. /\ h \in [0..N -> Seq(Nat)]
        /\ \A n \in 1..N : Leads(h[n - 1], inbox[n], h[n])
        /\ Leads(h[N], batch, editor)
    BY <2>1 DEF Chain
  <2>4. /\ H \in [0..N + 1 -> Seq(Nat)] /\ H[N + 1] = editor
        /\ \A n \in 0..N : H[n] = h[n]
    BY <1>1, <2>2, <2>3, <2>H
  <2>5. ASSUME NEW n \in 1..N + 1
        PROVE  Leads(H[n - 1], I[n], H[n])
    <3>1. CASE n = N + 1
      <4>1. H[n - 1] = h[N] /\ I[n] = batch /\ H[n] = editor
        BY <1>1, <2>4, <3>1
      <4> QED
        BY <2>3, <4>1
    <3>2. CASE n \in 1..N
      <4>0. n \in 0..N /\ n - 1 \in 0..N
        BY <1>1, <3>2
      <4>1. H[n - 1] = h[n - 1] /\ I[n] = inbox[n] /\ H[n] = h[n]
        BY <1>1, <2>4, <3>2, <4>0
      <4> QED
        BY <2>3, <3>2, <4>1
    <3> QED
      BY <1>1, <3>1, <3>2
  <2>6. Leads(H[N + 1], << >>, editor)
    BY <2>2, <2>4, NoChange
  <2> HIDE DEF N
  <2>7. Chain(H)'
    BY <1>1, <1>2, <1>3, <2>4, <2>5, <2>6 DEF Chain
  <2>8. tainted' \/ H[0] = text'
    BY <1>1, <1>3, <2>1, <2>4
  <2> QED
    BY <2>7, <2>8 DEF InStep
<1> QED
  BY <1>0, <1>3, <1>4, <1>5 DEF IInv, NeverOutOfBounds

(* The server applies the first message.                                   *)
LEMMA DidChangeKeeps == ASSUME IInv, DidChange PROVE IInv'
<1>0. TypeOK /\ InStep /\ NeverOutOfBounds
  BY DEF IInv
<1>1. PICK h : Chain(h) /\ (tainted \/ h[0] = text)
  BY <1>0 DEF InStep
<1> DEFINE N == Len(inbox)
           b == Head(inbox)
           I == Tail(inbox)
           result == Stages(Base(b, Len(b)), Ordered(Collected(b)))
<1>2. inbox # << >> /\ inbox \in Seq(Seq(Changes)) /\ N \in Nat /\ N # 0
  BY <1>0 DEF DidChange, TypeOK
<1>3. /\ I \in Seq(Seq(Changes)) /\ Len(I) = N - 1 /\ b = inbox[1] /\ b \in Seq(Changes)
      /\ \A n \in 1..N - 1 : I[n] = inbox[n + 1]
  BY <1>2, HeadTailProperties
<1>4. b # << >> /\ \A n \in 1..N - 1 : I[n] # << >>
  <2>1. DOMAIN inbox = 1..N /\ \A n \in DOMAIN inbox : inbox[n] # << >>
    BY <1>0, <1>2 DEF TypeOK
  <2>2. 1 \in 1..N /\ \A n \in 1..N - 1 : n + 1 \in 1..N
    BY <1>2
  <2> HIDE DEF b, I, N
  <2> QED
    BY <1>3, <2>1, <2>2
<1>5. /\ inbox' = I /\ UNCHANGED <<editor, batch, edits>>
      /\ crashed' = ~result.ok
      /\ text' = IF result.ok THEN result.text ELSE text
      /\ tainted' = IF \A i \in DOMAIN b : b[i].full THEN FALSE ELSE tainted \/ ~BottomUp(b)
      /\ ~crashed
  BY DEF DidChange
<1>6. /\ h \in [0..N -> Seq(Nat)]
      /\ \A n \in 1..N : Leads(h[n - 1], inbox[n], h[n])
      /\ Leads(h[N], batch, editor)
  BY <1>1 DEF Chain
<1> HIDE DEF I, b, result, N
<1>H. PICK H : H = [n \in 0..N - 1 |-> h[n + 1]]
  OBVIOUS
<1>7. H \in [0..N - 1 -> Seq(Nat)] /\ \A n \in 0..N - 1 : H[n] = h[n + 1]
  BY <1>2, <1>6, <1>H
<1>8. Leads(h[0], b, H[0])
  BY <1>2, <1>3, <1>6, <1>7
<1>9. \A n \in 1..N - 1 : Leads(H[n - 1], I[n], H[n])
  <2> TAKE n \in 1..N - 1
  <2>1. Leads(h[(n + 1) - 1], inbox[n + 1], h[n + 1])
    BY <1>2, <1>6
  <2>a. n \in 0..N - 1 /\ n - 1 \in 0..N - 1 /\ (n - 1) + 1 = n /\ (n + 1) - 1 = n
    BY <1>2
  <2>2. H[n - 1] = h[(n + 1) - 1] /\ H[n] = h[n + 1] /\ I[n] = inbox[n + 1]
    BY <1>3, <1>7, <2>a
  <2> QED
    BY <2>1, <2>2
<1>10. Leads(H[N - 1], batch, editor)
  BY <1>2, <1>6, <1>7
<1>11. tainted' \/ result = [text |-> H[0], ok |-> TRUE]
  <2>1. CASE \A i \in DOMAIN b : b[i].full
    BY <1>3, <1>4, <1>8, <2>1, FullsAreMirrored DEF result
  <2>2. CASE ~(\A i \in DOMAIN b : b[i].full) /\ ~tainted /\ BottomUp(b)
    <3>1. Leads(text, b, H[0])
      BY <1>1, <1>8, <2>2
    <3> QED
      BY <1>3, <1>4, <2>2, <3>1, RangesAreMirrored DEF result
  <2> QED
    BY <1>5, <2>1, <2>2, Zenon
<1>12. TypeOK'
  <2>1. tainted' \in BOOLEAN /\ crashed' \in BOOLEAN
    BY <1>0, <1>5 DEF TypeOK, BottomUp
  <2>2. DOMAIN I = 1..N - 1
    BY <1>3
  <2> QED
    BY <1>0, <1>3, <1>4, <1>5, <2>1, <2>2 DEF TypeOK
<1>13. InStep'
  <2>1. Chain(H)'
    BY <1>3, <1>5, <1>7, <1>9, <1>10 DEF Chain
  <2>2. tainted' \/ H[0] = text'
    BY <1>5, <1>11
  <2> QED
    BY <2>1, <2>2 DEF InStep
<1>14. NeverOutOfBounds'
  <2>1. tainted' \/ result.ok = TRUE
    BY <1>11
  <2> QED
    BY <1>5, <2>1 DEF NeverOutOfBounds
<1> QED
  BY <1>12, <1>13, <1>14 DEF IInv

(* The server is in step with the messages on their way, for any texts and *)
(* bounds.                                                                 *)
THEOREM Invariance == Spec => []IInv
<1>1. ASSUME IInv, [Next]_vars PROVE IInv'
  <2>1. CASE UNCHANGED vars
    <3>1. TypeOK'
      BY <1>1, <2>1 DEF IInv, TypeOK, vars
    <3>2. InStep'
      BY <1>1, <2>1 DEF IInv, InStep, Chain, vars
    <3> QED
      BY <1>1, <2>1, <3>1, <3>2 DEF IInv, NeverOutOfBounds, vars
  <2> QED
    BY <1>1, <2>1, EditKeeps, ReloadKeeps, SendKeeps, DidChangeKeeps DEF Next
<1> QED
  BY <1>1, InitIInv, PTL DEF Spec

(* When no message is on its way, the server has the text of the editor,   *)
(* unless a message was not bottom-up (TextMirrored): didChange in         *)
(* main.rs.                                                                *)
THEOREM TextMirroredHolds == Spec => []TextMirrored
<1>1. IInv => TextMirrored
  <2> SUFFICES ASSUME IInv, inbox = << >>, batch = << >>, ~tainted
               PROVE  text = editor
    BY DEF TextMirrored
  <2>1. PICK h : Chain(h) /\ h[0] = text
    BY DEF IInv, InStep
  <2>2. Leads(text, << >>, editor)
    BY <2>1 DEF Chain
  <2> QED
    BY <2>2 DEF Leads
<1> QED
  BY <1>1, Invariance, PTL

(* replace_range panics only after a message that was not bottom-up        *)
(* (NeverOutOfBounds).                                                     *)
THEOREM NeverOutOfBoundsHolds == Spec => []NeverOutOfBounds
<1>1. IInv => NeverOutOfBounds
  BY DEF IInv
<1> QED
  BY <1>1, Invariance, PTL
=============================================================================
