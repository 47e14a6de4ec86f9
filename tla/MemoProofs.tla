----------------------------- MODULE MemoProofs -----------------------------
(***************************************************************************)
(* Proofs about Memo, for any finite set of paths, any graph of includes   *)
(* and any number of workers, texts, Files and changes of the settings.    *)
(***************************************************************************)
EXTENDS Memo, FiniteSetTheorems, SequenceTheorems, TLAPS

-----------------------------------------------------------------------------
(* The inductive invariant *)

TypeOK ==
  /\ disk \in [Paths -> Nat \cup {None}]
  /\ last \in Nat
  /\ config \in Settings
  /\ path \in Seq(Paths) /\ text \in Seq(Nat) /\ since \in Seq(Nat)
  /\ memo \in Seq(Memos \cup {None})
  /\ Len(path) = Len(text) /\ Len(since) = Len(text) /\ Len(memo) = Len(text)
  /\ files \in [Paths -> FileIds \cup {None}]
  /\ \A f \in FileIds : memo[f] # None =>
       memo[f].inc \in FileIds \cup {None} /\ memo[f].reads \subseteq FileIds
  /\ dirty \subseteq FileIds /\ verified \subseteq FileIds
  /\ view \in [Workers -> Settings \cup {None}]
  /\ hollow \subseteq FileIds /\ late \subseteq FileIds

(* A File is known under its own path or was deleted, and then it is       *)
(* empty.                                                                  *)
Known ==
  /\ \A p \in Paths : files[p] # None => path[files[p]] = p
  /\ \A f \in FileIds : files[path[f]] # f => text[f] = 0

(* What was verified in this revision was computed from its text and from  *)
(* symbols that are verified; no symbols were computed from themselves.    *)
Current(f) ==
  /\ memo[f] # None
  /\ memo[f].text = text[f]
  /\ f \notin dirty
  /\ memo[f].reads \subseteq verified
Consistent ==
  /\ \A f \in verified : Current(f)
  /\ \A f \in FileIds : memo[f] # None => f \notin memo[f].reads

(* No file was edited under settings that some clone does not have yet, so *)
(* whoever computes the edited text has them.                              *)
Aged ==
  \A f \in FileIds :
    /\ since[f] <= config.version
    /\ \A w \in Workers : view[w] # None => since[f] <= view[w].version
    /\ memo[f] # None /\ memo[f].text = text[f] /\ text[f] # 0
         => memo[f].version >= since[f]

(* A deleted File with symbols either still has those of the text before,  *)
(* or whoever included it and read them was told.                          *)
Gone(g) == files[path[g]] # g
Told ==
  \A g \in FileIds \ hollow :
    Gone(g) /\ memo[g] # None /\ memo[g].text = 0 =>
      \A f \in FileIds :
        memo[f] # None /\ memo[f].inc = g /\ g \in memo[f].reads => f \in dirty

(* A version names one state of the settings, and no clone or memo is      *)
(* ahead of the database.                                                  *)
Versions ==
  /\ \A w \in Workers : view[w] # None =>
       /\ view[w].version <= config.version
       /\ view[w].version = config.version => view[w] = config
  /\ \A f \in FileIds : memo[f] # None => memo[f].version <= config.version

(* A script that is not included although the settings of now were used    *)
(* was not there, and is not unless it was created since then.             *)
Missed(f) ==
  /\ memo[f] # None /\ memo[f].text # 0 /\ memo[f].inc = None
  /\ memo[f].version = config.version /\ config.root
  /\ Included[path[f]] # None
  /\ f \notin late
Absent ==
  \A f \in FileIds : Missed(f) =>
    disk[Included[path[f]]] = None /\ files[Included[path[f]]] = None

IInv == TypeOK /\ Known /\ Consistent /\ Aged /\ Told /\ Versions /\ Absent

-----------------------------------------------------------------------------
(* Opening files *)

(* What a finite set is turned into is a sequence of each of its elements, *)
(* once.                                                                   *)
LEMMA SetToSeqOnce ==
  ASSUME NEW S, IsFiniteSet(S)
  PROVE  /\ SetToSeq(S) \in Seq(S)
         /\ \A i, j \in 1..Len(SetToSeq(S)) :
              SetToSeq(S)[i] = SetToSeq(S)[j] => i = j
         /\ \A x \in S : \E i \in 1..Len(SetToSeq(S)) : SetToSeq(S)[i] = x
<1> DEFINE N == Cardinality(S)
           s == SetToSeq(S)
<1>1. N \in Nat /\ ExistsBijection(1..N, S)
  BY FS_CardinalityType
<1>2. PICK b \in Bijection(1..N, S) : TRUE
  BY <1>1 DEF ExistsBijection
<1>3. b \in [1..N -> S] /\ IsInjective(b)
  BY <1>2 DEF Bijection, Injection, IsInjective
<1>4. s \in [1..N -> S] /\ IsInjective(s)
  BY <1>3 DEF SetToSeq
<1>5. s \in Seq(S) /\ Len(s) = N
  BY <1>1, <1>4
<1>6. \A i, j \in 1..N : s[i] = s[j] => i = j
  BY <1>4 DEF IsInjective
<1>7. IsFiniteSet(1..N) /\ Cardinality(1..N) = N
  BY <1>1, FS_Interval
<1>8. s \in Injection(1..N, S)
  BY <1>4, <1>6 DEF Injection, IsInjective
<1>9. s \in Surjection(1..N, S)
  BY <1>7, <1>8, FS_Injection
<1>10. \A x \in S : \E i \in 1..N : s[i] = x
  BY <1>9 DEF Surjection
<1>. QED BY <1>5, <1>6, <1>10

(* Each element of a concatenation.                                        *)
LEMMA Concat ==
  ASSUME NEW S, NEW a \in Seq(S), NEW b \in Seq(S), NEW L, NEW n, Len(a) = L, Len(b) = n
  PROVE  /\ a \o b \in Seq(S) /\ Len(a \o b) = L + n
         /\ \A i \in 1..L + n : (a \o b)[i] = IF i <= L THEN a[i] ELSE b[i - L]
BY ConcatProperties

(* What is known after a set of paths was opened: the Files made before    *)
(* are as they were, and each path has a File of its own without symbols.  *)
Opened(new) ==
  /\ path' \in Seq(Paths) /\ text' \in Seq(Nat) /\ since' \in Seq(Nat)
  /\ memo' \in Seq(Memos \cup {None})
  /\ Len(path') = Len(text') /\ Len(since') = Len(text') /\ Len(memo') = Len(text')
  /\ FileIds \subseteq FileIds'
  /\ \A f \in FileIds :
       path'[f] = path[f] /\ text'[f] = text[f] /\ memo'[f] = memo[f] /\ since'[f] = since[f]
  /\ \A f \in FileIds' \ FileIds :
       memo'[f] = None /\ since'[f] = 0 /\ files'[path'[f]] = f
  /\ files' \in [Paths -> FileIds' \cup {None}]
  /\ \A p \in Paths \ new : files'[p] = files[p]
  /\ \A p \in new : files'[p] \notin FileIds /\ path'[files'[p]] = p

LEMMA OpenOpens ==
  ASSUME TypeOK, NEW new \in SUBSET Paths, \A p \in new : disk[p] # None, Open(new)
  PROVE  Opened(new)
<1> DEFINE s == SetToSeq(new)
           n == Len(s)
           L == Len(text)
<1>1. IsFiniteSet(new)
  BY MemoAssumption, FS_Subset
<1>2. /\ s \in Seq(new)
      /\ \A i, j \in 1..n : s[i] = s[j] => i = j
      /\ \A p \in new : \E i \in 1..n : s[i] = p
  BY <1>1, SetToSeqOnce
<1>3. n \in Nat /\ L \in Nat /\ s \in Seq(Paths) /\ \A i \in 1..n : s[i] \in new
  BY <1>2 DEF TypeOK
<1>4. \A i \in 1..n : disk[s[i]] \in Nat
  BY <1>3 DEF TypeOK
<1> DEFINE t == [i \in 1..n |-> disk[s[i]]]
           m == [i \in 1..n |-> None]
           z == [i \in 1..n |-> 0]
<1>5. /\ t \in Seq(Nat) /\ Len(t) = n
      /\ m \in Seq(Memos \cup {None}) /\ Len(m) = n
      /\ z \in Seq(Nat) /\ Len(z) = n
  BY <1>3, <1>4
<1>6. /\ path' = path \o s /\ text' = text \o t /\ memo' = memo \o m /\ since' = since \o z
      /\ files' = [p \in Paths |->
           IF p \in new THEN L + CHOOSE i \in 1..n : s[i] = p ELSE files[p]]
  BY DEF Open
<1>7. /\ path \in Seq(Paths) /\ text \in Seq(Nat) /\ since \in Seq(Nat)
      /\ memo \in Seq(Memos \cup {None})
      /\ Len(path) = L /\ Len(since) = L /\ Len(memo) = L
  BY DEF TypeOK
<1> HIDE DEF s, n, L, t, m, z
<1>8. /\ path' \in Seq(Paths) /\ Len(path') = L + n
      /\ \A f \in 1..L + n : path'[f] = IF f <= L THEN path[f] ELSE s[f - L]
  BY <1>3, <1>6, <1>7, Concat DEF n
<1>9. /\ text' \in Seq(Nat) /\ Len(text') = L + n
      /\ \A f \in 1..L + n : text'[f] = IF f <= L THEN text[f] ELSE t[f - L]
  BY <1>5, <1>6, <1>7, Concat DEF L
<1>10. /\ memo' \in Seq(Memos \cup {None}) /\ Len(memo') = L + n
       /\ \A f \in 1..L + n : memo'[f] = IF f <= L THEN memo[f] ELSE m[f - L]
  <2>1. memo \o m \in Seq(Memos \cup {None}) /\ Len(memo \o m) = L + n
    BY <1>5, <1>7, Concat
  <2>2. \A f \in 1..L + n : (memo \o m)[f] = IF f <= L THEN memo[f] ELSE m[f - L]
    BY SMTT(30), <1>5, <1>7, Concat
  <2>. QED BY <1>6, <2>1, <2>2
<1>11. /\ since' \in Seq(Nat) /\ Len(since') = L + n
       /\ \A f \in 1..L + n : since'[f] = IF f <= L THEN since[f] ELSE z[f - L]
  <2>1. since \o z \in Seq(Nat) /\ Len(since \o z) = L + n
    BY <1>5, <1>7, Concat
  <2>2. \A f \in 1..L + n : (since \o z)[f] = IF f <= L THEN since[f] ELSE z[f - L]
    BY SMTT(30), <1>5, <1>7, Concat
  <2>. QED BY <1>6, <2>1, <2>2
<1>12. FileIds = 1..L /\ FileIds' = 1..L + n
  BY <1>7, <1>9 DEF FileIds, L
<1>13. \A p \in new : \E i \in 1..n : s[i] = p /\ files'[p] = L + i
  BY <1>2, <1>6
<1>14. \A p \in new : files'[p] \in FileIds' \ FileIds /\ path'[files'[p]] = p
  BY SMTT(30), <1>3, <1>8, <1>12, <1>13
<1>15. \A f \in FileIds' \ FileIds :
         memo'[f] = None /\ since'[f] = 0 /\ files'[path'[f]] = f
  <2> SUFFICES ASSUME NEW f \in FileIds' \ FileIds
               PROVE  memo'[f] = None /\ since'[f] = 0 /\ files'[path'[f]] = f
    OBVIOUS
  <2>1. f \in 1..L + n /\ ~ f <= L /\ f - L \in 1..n
    BY <1>3, <1>12
  <2>2. path'[f] = s[f - L] /\ s[f - L] \in new
    BY <1>3, <1>8, <2>1
  <2>3. PICK i \in 1..n : s[i] = s[f - L] /\ files'[s[f - L]] = L + i
    BY <1>13, <2>2
  <2>4. i = f - L
    BY <1>2, <2>1, <2>3
  <2>5. memo'[f] = m[f - L] /\ since'[f] = z[f - L]
    BY <1>10, <1>11, <2>1
  <2>6. m[f - L] = None /\ z[f - L] = 0
    BY <2>1 DEF m, z
  <2>7. L + i = f
    BY <1>3, <1>12, <2>4
  <2>. QED BY <2>2, <2>3, <2>5, <2>6, <2>7
<1>16. files' \in [Paths -> FileIds' \cup {None}]
  <2>1. \A p \in Paths \ new : files'[p] \in FileIds \cup {None}
    BY <1>6 DEF TypeOK
  <2>2. FileIds \subseteq FileIds'
    BY <1>3, <1>12
  <2>. QED BY <1>6, <1>14, <2>1, <2>2
<1>17. \A f \in FileIds :
         path'[f] = path[f] /\ text'[f] = text[f] /\ memo'[f] = memo[f] /\ since'[f] = since[f]
  BY <1>3, <1>8, <1>9, <1>10, <1>11, <1>12
<1>18. FileIds \subseteq FileIds'
  BY <1>3, <1>12
<1>. QED BY <1>6, <1>8, <1>9, <1>10, <1>11, <1>14, <1>15, <1>16, <1>17, <1>18 DEF Opened

-----------------------------------------------------------------------------
(* Opening files and editing one, whichever action does it *)

(* Files that are opened keep the invariant: nobody has used them yet.     *)
LEMMA OpenKeeps ==
  ASSUME IInv, NEW new \in SUBSET Paths, \A p \in new : disk[p] # None /\ files[p] = None,
         Opened(new), UNCHANGED <<disk, last, dirty, verified, view, history>>,
         config' \in Settings,
         config' = config \/ config'.version = config.version + 1
  PROVE  IInv'
<1>1. /\ FileIds \subseteq FileIds'
      /\ \A f \in FileIds :
           path'[f] = path[f] /\ text'[f] = text[f] /\ memo'[f] = memo[f] /\ since'[f] = since[f]
      /\ \A f \in FileIds' \ FileIds :
           memo'[f] = None /\ since'[f] = 0 /\ files'[path'[f]] = f
      /\ \A p \in Paths \ new : files'[p] = files[p]
      /\ \A p \in new : files'[p] \notin FileIds /\ path'[files'[p]] = p
  BY DEF Opened
<1>2. TypeOK'
  <2>1. \A f \in FileIds' : memo'[f] # None =>
          memo'[f].inc \in FileIds' \cup {None} /\ memo'[f].reads \subseteq FileIds'
    <3> SUFFICES ASSUME NEW f \in FileIds', memo'[f] # None
                 PROVE  memo'[f].inc \in FileIds' \cup {None} /\ memo'[f].reads \subseteq FileIds'
      OBVIOUS
    <3>1. f \in FileIds /\ memo'[f] = memo[f]
      BY <1>1
    <3>2. memo[f].inc \in FileIds \cup {None} /\ memo[f].reads \subseteq FileIds
      BY <3>1 DEF IInv, TypeOK
    <3>. QED BY <1>1, <3>1, <3>2
  <2>. QED BY <1>1, <2>1 DEF IInv, TypeOK, Opened, history
<1>8. config.version \in Nat /\ config'.version \in Nat /\ config.version <= config'.version
  BY DEF IInv, TypeOK, Settings
<1>3. \A f \in FileIds : files'[path'[f]] = f <=> files[path[f]] = f
  BY <1>1, MemoAssumption DEF IInv, TypeOK, FileIds
<1>4. Known'
  <2>1. \A p \in Paths : files'[p] # None => path'[files'[p]] = p
    BY <1>1 DEF IInv, TypeOK, Known
  <2>2. \A f \in FileIds' : files'[path'[f]] # f => text'[f] = 0
    BY <1>1, <1>3 DEF IInv, Known
  <2>. QED BY <2>1, <2>2 DEF Known
<1>5. Consistent'
  <2>1. \A f \in verified' : Current(f)'
    BY <1>1 DEF IInv, TypeOK, Consistent, Current
  <2>2. \A f \in FileIds' : memo'[f] # None => f \notin memo'[f].reads
    BY <1>1 DEF IInv, Consistent
  <2>. QED BY <2>1, <2>2 DEF Consistent
<1>6. Aged'
  <2>1. ASSUME NEW f \in FileIds' \ FileIds
        PROVE  /\ since'[f] <= config'.version
               /\ \A w \in Workers : view'[w] # None => since'[f] <= view'[w].version
               /\ memo'[f] = None
    BY <1>1, <2>1 DEF IInv, TypeOK, Settings
  <2>2. ASSUME NEW f \in FileIds
        PROVE  /\ since'[f] <= config'.version
               /\ \A w \in Workers : view'[w] # None => since'[f] <= view'[w].version
               /\ memo'[f] # None /\ memo'[f].text = text'[f] /\ text'[f] # 0
                    => memo'[f].version >= since'[f]
    <3>1. since[f] \in Nat
      BY DEF IInv, TypeOK, FileIds
    <3>. QED BY <1>1, <1>8, <3>1 DEF IInv, Aged
  <2>. QED BY <2>1, <2>2 DEF Aged
<1>7. Told'
  <2> SUFFICES ASSUME NEW g \in FileIds', g \notin hollow, files'[path'[g]] # g,
                      memo'[g] # None, memo'[g].text = 0,
                      NEW f \in FileIds', memo'[f] # None, memo'[f].inc = g,
                      g \in memo'[f].reads
               PROVE  f \in dirty
    BY DEF Told, Gone, history
  <2>1. g \in FileIds /\ f \in FileIds
    BY <1>1
  <2>2. Gone(g) /\ memo[g] = memo'[g] /\ memo[f] = memo'[f]
    BY <1>1, <1>3, <2>1 DEF Gone
  <2>. QED BY <2>1, <2>2 DEF IInv, Told
<1>9. Versions'
  <2>1. \A w \in Workers : view[w] # None => view[w].version \in Nat
    BY DEF IInv, TypeOK, Settings
  <2>2. \A w \in Workers : view'[w] # None =>
          /\ view'[w].version <= config'.version
          /\ view'[w].version = config'.version => view'[w] = config'
    BY <1>8, <2>1 DEF IInv, Versions
  <2>3. \A f \in FileIds : memo[f] # None => memo[f].version \in Nat
    BY DEF IInv, TypeOK, Memos, FileIds
  <2>4. \A f \in FileIds' : memo'[f] # None => memo'[f].version <= config'.version
    BY <1>1, <1>8, <2>3 DEF IInv, Versions
  <2>. QED BY <2>2, <2>4 DEF Versions
<1>10. Absent'
  <2> SUFFICES ASSUME NEW f \in FileIds', Missed(f)'
               PROVE  disk[Included[path'[f]]] = None /\ files'[Included[path'[f]]] = None
    BY DEF Absent
  <2>1. f \in FileIds /\ memo'[f] = memo[f] /\ path'[f] = path[f] /\ path[f] \in Paths
    BY <1>1 DEF Missed, IInv, TypeOK, FileIds
  <2>2. memo[f].version \in Nat /\ memo[f].version <= config.version
    BY <2>1 DEF Missed, IInv, Versions, TypeOK, Memos, FileIds
  <2>3. config' = config
    BY <1>8, <2>1, <2>2 DEF Missed
  <2>4. Missed(f)
    BY <2>1, <2>3 DEF Missed, history
  <2>5. Included[path[f]] \in Paths
    BY <2>1, <2>4, MemoAssumption DEF Missed
  <2>6. disk[Included[path[f]]] = None /\ files[Included[path[f]]] = None
    BY <2>1, <2>4 DEF IInv, Absent
  <2>7. Included[path[f]] \notin new
    BY <2>6
  <2>. QED BY <1>1, <2>1, <2>5, <2>6, <2>7
<1>. QED BY <1>2, <1>4, <1>5, <1>6, <1>7, <1>9, <1>10 DEF IInv

(* A new text of one File: its memo is as old as the settings, unless it   *)
(* was computed from that text.                                            *)
LEMMA SetTextKeeps ==
  ASSUME IInv, NEW f \in FileIds, NEW x \in Nat, SetText(f, x),
         UNCHANGED <<config, path, memo, view>>
  PROVE  /\ text' \in Seq(Nat) /\ Len(text') = Len(text) /\ FileIds' = FileIds
         /\ \A g \in FileIds : text'[g] = IF g = f THEN x ELSE text[g]
         /\ since' \in Seq(Nat) /\ Len(since') = Len(since)
         /\ Consistent' /\ Aged' /\ Versions'
<1>1. /\ text' \in Seq(Nat) /\ Len(text') = Len(text) /\ FileIds' = FileIds
      /\ \A g \in FileIds : text'[g] = IF g = f THEN x ELSE text[g]
  BY DEF IInv, TypeOK, SetText, FileIds
<1> DEFINE v == IF Undone(f, x) THEN 0 ELSE config.version
<1>2. config.version \in Nat /\ v \in Nat
  BY DEF IInv, TypeOK, Settings
<1>3. /\ since' \in Seq(Nat) /\ Len(since') = Len(since)
      /\ \A g \in FileIds : since'[g] = IF g = f THEN v ELSE since[g]
  BY SMTT(30), <1>2 DEF IInv, TypeOK, SetText, FileIds
<1>4. Consistent'
  BY <1>1 DEF IInv, SetText, Consistent
<1>6. Versions'
  BY <1>1 DEF IInv, Versions
<1>5. Aged'
  <2> SUFFICES ASSUME NEW g \in FileIds
               PROVE  /\ since'[g] <= config'.version
                      /\ \A w \in Workers : view'[w] # None => since'[g] <= view'[w].version
                      /\ memo'[g] # None /\ memo'[g].text = text'[g] /\ text'[g] # 0
                           => memo'[g].version >= since'[g]
    BY <1>1 DEF Aged
  <2>1. \A w \in Workers : view'[w] = None
    BY DEF SetText, Idle
  <2>2. CASE g # f
    BY <1>1, <1>3, <2>1, <2>2 DEF IInv, Aged
  <2>3. CASE g = f
    <3>1. since'[f] = v /\ text'[f] = x /\ v <= config.version
      BY <1>1, <1>2, <1>3
    <3>2. memo[f] # None /\ memo[f].text = x => v = 0 /\ memo[f].version \in Nat
      BY DEF Undone, IInv, TypeOK, Memos, FileIds
    <3>. QED BY <2>1, <2>3, <3>1, <3>2
  <2>. QED BY <2>2, <2>3
<1>. QED BY <1>1, <1>3, <1>4, <1>5, <1>6

-----------------------------------------------------------------------------
(* The actions that edit a File *)

LEMMA EditKeeps == ASSUME IInv, NEW p \in Paths, Edit(p) PROVE IInv'
<1> DEFINE f == files[p]
<1>1. f \in FileIds /\ path[f] = p
  BY DEF Edit, IInv, TypeOK, Known
<1>2. PICK x \in Nat : SetText(f, x) /\ last' \in Nat
  BY MemoAssumption DEF Edit, IInv, TypeOK
<1>3. UNCHANGED <<disk, config, files, path, memo, dirty, view, hollow, late>>
  BY DEF Edit, history
<1>4. /\ text' \in Seq(Nat) /\ Len(text') = Len(text) /\ FileIds' = FileIds
      /\ \A g \in FileIds : text'[g] = IF g = f THEN x ELSE text[g]
      /\ since' \in Seq(Nat) /\ Len(since') = Len(since)
      /\ Consistent' /\ Aged' /\ Versions'
  BY <1>1, <1>2, <1>3, SetTextKeeps
<1>5. TypeOK'
  BY <1>2, <1>3, <1>4 DEF SetText, IInv, TypeOK
<1>6. Known'
  BY ZenonT(60), <1>1, <1>3, <1>4 DEF IInv, TypeOK, Known
<1>7. Told'
  BY <1>3, <1>4 DEF IInv, Told, Gone
<1>8. Absent'
  BY <1>3, <1>4 DEF IInv, Absent, Missed
<1>. QED BY <1>4, <1>5, <1>6, <1>7, <1>8 DEF IInv

LEMMA NoticeKeeps == ASSUME IInv, NEW p \in Paths, Notice(p) PROVE IInv'
<1>1. CASE files[p] = None
  <2>1. /\ Open({p}) /\ disk[p] # None
        /\ UNCHANGED <<disk, last, config, dirty, verified, view, history>>
    BY <1>1 DEF Notice
  <2>2. Opened({p})
    BY <2>1, OpenOpens DEF IInv
  <2>3. config' \in Settings
    BY <2>1 DEF IInv, TypeOK
  <2>. QED BY <1>1, <2>1, <2>2, <2>3, OpenKeeps
<1>2. CASE files[p] # None
  <2> DEFINE f == files[p]
  <2>1. f \in FileIds /\ path[f] = p
    BY <1>2 DEF IInv, TypeOK, Known
  <2>2. disk[p] \in Nat /\ SetText(f, disk[p])
    BY <1>2 DEF Notice, IInv, TypeOK
  <2>3. UNCHANGED <<disk, last, config, files, path, memo, dirty, view, hollow, late>>
    BY <1>2 DEF Notice, history
  <2>4. /\ text' \in Seq(Nat) /\ Len(text') = Len(text) /\ FileIds' = FileIds
        /\ \A g \in FileIds : text'[g] = IF g = f THEN disk[p] ELSE text[g]
        /\ since' \in Seq(Nat) /\ Len(since') = Len(since)
        /\ Consistent' /\ Aged' /\ Versions'
    BY <2>1, <2>2, <2>3, SetTextKeeps
  <2>5. TypeOK'
    BY <2>2, <2>3, <2>4 DEF SetText, IInv, TypeOK
  <2>6. Known'
    BY <2>1, <2>3, <2>4 DEF IInv, TypeOK, Known
  <2>7. Told'
    BY <2>3, <2>4 DEF IInv, Told, Gone
  <2>8. Absent'
    BY <2>3, <2>4 DEF IInv, Absent, Missed
  <2>. QED BY <2>4, <2>5, <2>6, <2>7, <2>8 DEF IInv
<1>. QED BY <1>1, <1>2

(* A File that is forgotten is empty from then on.  If its symbols are     *)
(* those of an empty text it is hollow, so nobody has to be told.          *)
LEMMA NoticeGoneKeeps == ASSUME IInv, NEW p \in Paths, NoticeGone(p) PROVE IInv'
<1> DEFINE f == files[p]
<1>1. f \in FileIds /\ path[f] = p /\ f # None
  BY DEF NoticeGone, IInv, TypeOK, Known
<1>2. /\ SetText(f, 0)
      /\ files' = [files EXCEPT ![p] = None]
      /\ hollow' = IF Undone(f, 0) THEN hollow \cup {f} ELSE hollow
      /\ UNCHANGED <<disk, last, config, path, memo, dirty, view, late>>
  BY DEF NoticeGone
<1>3. /\ text' \in Seq(Nat) /\ Len(text') = Len(text) /\ FileIds' = FileIds
      /\ \A g \in FileIds : text'[g] = IF g = f THEN 0 ELSE text[g]
      /\ since' \in Seq(Nat) /\ Len(since') = Len(since)
      /\ Consistent' /\ Aged' /\ Versions'
  BY <1>1, <1>2, SetTextKeeps
<1>4. TypeOK'
  BY <1>1, <1>2, <1>3 DEF SetText, IInv, TypeOK
<1>5. \A q \in Paths : files'[q] = IF q = p THEN None ELSE files[q]
  BY <1>2 DEF IInv, TypeOK
<1>6. \A g \in FileIds : path[g] \in Paths
  BY DEF IInv, TypeOK, FileIds
<1>7. Known'
  <2>1. \A q \in Paths : files'[q] # None => path'[files'[q]] = q
    BY <1>1, <1>2, <1>5 DEF IInv, Known
  <2>2. \A g \in FileIds : files'[path'[g]] # g => text'[g] = 0
    BY <1>1, <1>2, <1>3, <1>5, <1>6 DEF IInv, Known
  <2>. QED BY <1>3, <2>1, <2>2 DEF Known
<1>8. Told'
  <2> SUFFICES ASSUME NEW g \in FileIds, g \notin hollow', files'[path[g]] # g,
                      memo[g] # None, memo[g].text = 0,
                      NEW h \in FileIds, memo[h] # None, memo[h].inc = g, g \in memo[h].reads
               PROVE  h \in dirty
    BY <1>2, <1>3 DEF Told, Gone
  <2>1. g # f
    BY <1>2 DEF Undone
  <2>2. Gone(g)
    BY <1>1, <1>5, <1>6, <2>1 DEF Gone
  <2>. QED BY <1>2, <2>2 DEF IInv, Told
<1>9. Absent'
  <2> SUFFICES ASSUME NEW g \in FileIds, Missed(g)
               PROVE  disk[Included[path[g]]] = None /\ files'[Included[path[g]]] = None
    BY <1>2, <1>3 DEF Absent, Missed
  <2>1. Included[path[g]] \in Paths
    BY <1>6, MemoAssumption DEF Missed
  <2>. QED BY <1>5, <2>1 DEF IInv, Absent
<1>. QED BY <1>3, <1>4, <1>7, <1>8, <1>9 DEF IInv

-----------------------------------------------------------------------------
(* The actions that open Files *)

LEMMA ConfigureKeeps == ASSUME IInv, Configure PROVE IInv'
<1>1. PICK root \in BOOLEAN :
        /\ config' = [root |-> root, version |-> config.version + 1]
        /\ IF root /\ ~ config.root
           THEN Open(OnDiskOnly(Paths))
           ELSE UNCHANGED <<inputs, memo>>
  BY DEF Configure
<1>2. UNCHANGED <<disk, last, dirty, verified, view, hollow, late>>
  BY DEF Configure, history
<1>3. config.version \in Nat
  BY DEF IInv, TypeOK, Settings
<1>4. config' \in Settings /\ config'.version = config.version + 1
  BY <1>1, <1>3 DEF Settings
<1>5. CASE Open(OnDiskOnly(Paths))
  <2>1. /\ OnDiskOnly(Paths) \in SUBSET Paths
        /\ \A p \in OnDiskOnly(Paths) : disk[p] # None /\ files[p] = None
    BY DEF OnDiskOnly
  <2>2. Opened(OnDiskOnly(Paths))
    BY <1>5, <2>1, OpenOpens DEF IInv
  <2>. QED BY <1>2, <1>4, <2>1, <2>2, OpenKeeps DEF history
<1>6. CASE UNCHANGED <<inputs, memo>>
  <2>1. TypeOK'
    BY <1>2, <1>4, <1>6 DEF inputs, IInv, TypeOK, FileIds
  <2>2. Aged'
    <3>1. \A f \in FileIds : since[f] \in Nat
      BY DEF IInv, TypeOK, FileIds
    <3>. QED BY <1>2, <1>3, <1>4, <1>6, <3>1 DEF inputs, IInv, Aged, FileIds
  <2>3. Versions'
    <3>1. \A w \in Workers : view[w] # None => view[w].version \in Nat
      BY DEF IInv, TypeOK, Settings
    <3>2. \A f \in FileIds : memo[f] # None => memo[f].version \in Nat
      BY DEF IInv, TypeOK, Memos, FileIds
    <3>. QED BY <1>2, <1>3, <1>4, <1>6, <3>1, <3>2 DEF inputs, IInv, Versions, FileIds
  <2>4. Absent'
    <3>1. \A f \in FileIds : ~ Missed(f)'
      <4>1. \A f \in FileIds : memo[f] # None =>
              memo[f].version \in Nat /\ memo[f].version <= config.version
        BY DEF IInv, Versions, TypeOK, Memos, FileIds
      <4>. QED BY <1>3, <1>4, <1>6, <4>1 DEF Missed
    <3>. QED BY <1>6, <3>1 DEF inputs, Absent, FileIds
  <2>. QED BY <1>2, <1>6, <2>1, <2>2, <2>3, <2>4
           DEF inputs, IInv, Known, Consistent, Current, Told, Gone, FileIds
<1>. QED BY <1>1, <1>5, <1>6

LEMMA RegisterKeeps == ASSUME IInv, NEW w \in Workers, Register(w) PROVE IInv'
<1>1. PICK f \in FileIds : Open(OnDiskOnly({Script(f, view[w])} \cap Paths))
  BY DEF Register
<1> DEFINE new == OnDiskOnly({Script(f, view[w])} \cap Paths)
<1>2. UNCHANGED <<disk, last, config, dirty, verified, view, history>>
  BY DEF Register
<1>3. new \in SUBSET Paths /\ \A p \in new : disk[p] # None /\ files[p] = None
  BY DEF OnDiskOnly
<1> HIDE DEF new
<1>4. Opened(new)
  BY <1>1, <1>3, OpenOpens DEF IInv, new
<1>5. config' \in Settings
  BY <1>2 DEF IInv, TypeOK
<1>. QED BY <1>2, <1>3, <1>4, <1>5, OpenKeeps

-----------------------------------------------------------------------------
(* The actions of workers *)

(* A file becomes dirty only by a computation of a file whose symbols it   *)
(* read, and then it is not in use: what it read is not verified.          *)
LEMMA ComputeKeeps == ASSUME IInv, NEW w \in Workers, Compute(w) PROVE IInv'
<1>1. PICK f \in FileIds \ verified, reads \in SUBSET verified :
       LET script == Script(f, view[w])
           inc == IF script = None THEN None ELSE files[script]
           new == Symbols(text[f], view[w].version, inc, reads)
       IN
       /\ Outdated(f) = TRUE
       /\ OnDiskOnly({script} \cap Paths) = {}
       /\ LookedInto(inc, reads)
       /\ memo' = [memo EXCEPT ![f] = new]
       /\ \/ dirty' = (dirty \ {f}) \cup Readers(f)
          \/ SameSymbols(memo[f], new) /\ dirty' = dirty \ {f}
       /\ verified' = verified \cup {f}
       /\ late' = late \ {f}
  BY DEF Compute
<1> DEFINE script == Script(f, view[w])
           inc == IF script = None THEN None ELSE files[script]
           new == Symbols(text[f], view[w].version, inc, reads)
<1>2. UNCHANGED <<disk, last, config, inputs, view, hollow>> /\ view[w] # None
  BY DEF Compute
<1>3. /\ text[f] \in Nat /\ view[w] \in Settings /\ view[w].version \in Nat /\ path[f] \in Paths
      /\ verified \subseteq FileIds /\ FileIds \subseteq Nat /\ f \notin reads
  BY <1>1, <1>2 DEF IInv, TypeOK, FileIds, Settings
<1>4. script \in Paths \cup {None}
  BY <1>3, MemoAssumption DEF Script
<1>5. /\ inc \in FileIds \cup {None} /\ (inc # None => files[path[inc]] = inc)
      /\ script # None => inc = files[script]
  BY <1>1, <1>4 DEF IInv, TypeOK, Known
<1>6. /\ new \in Memos /\ new # None
      /\ new.text = text[f]
      /\ text[f] # 0 => new.version = view[w].version /\ new.inc = inc
      /\ text[f] = 0 => new.version = 0
      /\ new.inc \in {inc, None}
      /\ new.reads \subseteq verified /\ f \notin new.reads
  BY SMTT(30), <1>3, <1>5, MemoAssumption DEF Symbols, Memos, FileIds, IInv, TypeOK
<1>15. text[f] # 0 /\ view[w].root /\ new.inc = None /\ Included[path[f]] # None
        => disk[Included[path[f]]] = None /\ files[Included[path[f]]] = None
  <2> SUFFICES ASSUME text[f] # 0, view[w].root, new.inc = None, Included[path[f]] # None
               PROVE  disk[Included[path[f]]] = None /\ files[Included[path[f]]] = None
    OBVIOUS
  <2>1. script = Included[path[f]] /\ script \in Paths
    BY <1>4 DEF Script
  <2>2. files[script] = None
    BY <1>5, <1>6, <2>1
  <2>3. OnDiskOnly({script} \cap Paths) = {}
    BY <1>1
  <2>. QED BY <2>1, <2>2, <2>3 DEF OnDiskOnly
<1> HIDE DEF script, inc, new
<1>7. /\ memo' \in Seq(Memos \cup {None}) /\ Len(memo') = Len(memo)
      /\ \A g \in FileIds : memo'[g] = IF g = f THEN new ELSE memo[g]
  BY <1>1, <1>6 DEF IInv, TypeOK, FileIds, new, inc, script
<1>8. /\ FileIds' = FileIds
      /\ verified' = verified \cup {f} /\ late' = late \ {f}
      /\ dirty' \subseteq dirty \cup Readers(f) /\ f \notin verified
      /\ \/ Readers(f) \subseteq dirty'
         \/ SameSymbols(memo[f], new) /\ dirty' = dirty \ {f}
      /\ dirty \ {f} \subseteq dirty'
  BY <1>1, <1>2 DEF FileIds, inputs, new, inc, script
<1>9. f \notin dirty' /\ Readers(f) \subseteq FileIds
  <2>1. f \notin Readers(f)
    BY DEF IInv, Consistent, Readers
  <2>. QED BY <1>1, <2>1 DEF Readers
<1>10. TypeOK'
  <2>1. \A g \in FileIds : memo'[g] # None =>
          memo'[g].inc \in FileIds \cup {None} /\ memo'[g].reads \subseteq FileIds
    BY <1>3, <1>5, <1>6, <1>7 DEF IInv, TypeOK
  <2>2. dirty' \subseteq FileIds /\ verified' \subseteq FileIds /\ late' \subseteq FileIds
    BY <1>8, <1>9 DEF IInv, TypeOK
  <2>. QED BY <1>2, <1>7, <1>8, <2>1, <2>2 DEF inputs, IInv, TypeOK
<1>11. Known'
  BY <1>2, <1>8 DEF inputs, IInv, Known
<1>12. Consistent'
  <2>1. ASSUME NEW g \in verified PROVE Current(g)'
    <3>1. Current(g) /\ g \in FileIds
      BY <1>3 DEF IInv, Consistent
    <3>2. memo'[g] = memo[g]
      BY <1>7, <1>8, <3>1
    <3>3. g \notin Readers(f)
      BY <1>8, <3>1 DEF Readers, Current
    <3>. QED BY <1>2, <1>8, <3>1, <3>2, <3>3 DEF inputs, Current
  <2>2. Current(f)'
    BY <1>2, <1>6, <1>7, <1>8, <1>9 DEF inputs, Current
  <2>3. \A g \in FileIds' : memo'[g] # None => g \notin memo'[g].reads
    BY <1>6, <1>7, <1>8 DEF IInv, Consistent
  <2>. QED BY <1>8, <2>1, <2>2, <2>3 DEF Consistent
<1>13. Aged'
  BY <1>2, <1>6, <1>7, <1>8 DEF inputs, IInv, Aged
<1>14. Told'
  <2> SUFFICES ASSUME NEW g \in FileIds, g \notin hollow, Gone(g),
                      memo'[g] # None, memo'[g].text = 0,
                      NEW h \in FileIds, memo'[h] # None, memo'[h].inc = g, g \in memo'[h].reads
               PROVE  h \in dirty'
    BY <1>2, <1>8 DEF inputs, Told, Gone
  <2>1. h # f
    BY <1>3, <1>5, <1>6, <1>7, MemoAssumption DEF Gone
  <2>2. h \in dirty => h \in dirty'
    BY <1>8, <2>1
  <2>3. memo[h] # None /\ memo[h].inc = g /\ g \in memo[h].reads
    BY <1>7, <2>1
  <2>4. CASE g = f /\ Readers(f) \subseteq dirty'
    BY <2>3, <2>4 DEF Readers
  <2>5. CASE g = f /\ SameSymbols(memo[f], new)
    <3>1. memo[f] # None /\ memo[f].text = new.text
      <4>1. memo[f] \in Memos
        BY <2>5 DEF SameSymbols, IInv, TypeOK, FileIds
      <4>2. [memo[f] EXCEPT !.reads = new.reads].text = memo[f].text
        BY <4>1 DEF Memos
      <4>. QED BY <2>5, <4>2 DEF SameSymbols
    <3>2. memo[g].text = 0
      BY <1>7, <2>5, <3>1
    <3>. QED BY <2>2, <2>3, <2>5, <3>1, <3>2 DEF IInv, Told
  <2>6. CASE g # f
    BY <1>7, <2>2, <2>3, <2>6 DEF IInv, Told
  <2>. QED BY <1>8, <2>4, <2>5, <2>6
<1>16. Versions'
  <2>1. new.version <= config.version
    <3>1. view[w].version <= config.version /\ config.version \in Nat
      BY <1>2 DEF IInv, Versions, TypeOK, Settings
    <3>. QED BY <1>6, <3>1
  <2>. QED BY <1>2, <1>7, <1>8, <2>1 DEF IInv, Versions
<1>17. Absent'
  <2> SUFFICES ASSUME NEW g \in FileIds, Missed(g)'
               PROVE  disk[Included[path[g]]] = None /\ files[Included[path[g]]] = None
    BY <1>2, <1>8 DEF inputs, Absent
  <2>1. CASE g = f
    <3>1. memo'[f] = new
      BY <1>7
    <3>2. text[f] # 0 /\ new.inc = None /\ Included[path[f]] # None /\ config.root
          /\ new.version = config.version
      BY <1>2, <1>6, <2>1, <3>1 DEF Missed, inputs
    <3>3. view[w] = config
      BY <1>2, <1>6, <3>2 DEF IInv, Versions
    <3>. QED BY <1>15, <2>1, <3>2, <3>3
  <2>2. CASE g # f
    <3>1. Missed(g)
      BY <1>2, <1>7, <1>8, <2>2 DEF Missed, inputs
    <3>. QED BY <3>1 DEF IInv, Absent
  <2>. QED BY <2>1, <2>2
<1>. QED BY <1>10, <1>11, <1>12, <1>13, <1>14, <1>16, <1>17 DEF IInv

LEMMA VerifyKeeps == ASSUME IInv, NEW w \in Workers, Verify(w) PROVE IInv'
<1>1. PICK f \in FileIds \ verified : Valid(f) /\ verified' = verified \cup {f}
  BY DEF Verify
<1>2. UNCHANGED <<disk, last, config, inputs, memo, dirty, view, hollow, late>>
  BY DEF Verify, history
<1>3. TypeOK' /\ Known' /\ Aged' /\ Told' /\ Versions' /\ Absent'
  BY <1>1, <1>2 DEF inputs, IInv, TypeOK, Known, Aged, Told, Gone, Versions, Absent, Missed, FileIds
<1>4. Consistent'
  BY <1>1, <1>2 DEF inputs, IInv, Valid, Consistent, Current, FileIds
<1>. QED BY <1>3, <1>4 DEF IInv

(* A clone that is made has the settings as they are, so nobody edited     *)
(* under newer ones.                                                       *)
LEMMA ViewKeeps ==
  ASSUME IInv, NEW w \in Workers, Start(w) \/ Stop(w) PROVE IInv'
<1>1. UNCHANGED <<disk, last, config, inputs, symbols, hollow, late>>
  BY DEF Start, Stop, history
<1>2. view' = [view EXCEPT ![w] = config] \/ view' = [view EXCEPT ![w] = None]
  BY DEF Start, Stop
<1>3. TypeOK' /\ Known' /\ Told'
  BY <1>1, <1>2 DEF inputs, symbols, IInv, TypeOK, Known, Told, Gone, FileIds
<1>4. Consistent'
  BY <1>1 DEF inputs, symbols, IInv, Consistent, Current, FileIds
<1>5. Absent'
  BY <1>1 DEF inputs, symbols, IInv, Absent, Missed, FileIds
<1>6. Versions'
  BY <1>1, <1>2 DEF inputs, symbols, IInv, TypeOK, Settings, Versions, FileIds
<1>7. Aged'
  BY <1>1, <1>2 DEF inputs, symbols, IInv, TypeOK, Aged, FileIds
<1>. QED BY <1>3, <1>4, <1>5, <1>6, <1>7 DEF IInv

(* A script that is created may be missed by those who looked for it.      *)
LEMMA DiskKeeps ==
  ASSUME IInv, NEW p \in Paths, CreateScript(p) \/ RemoveScript(p) PROVE IInv'
<1>1. UNCHANGED <<config, inputs, symbols, view, hollow>>
  BY DEF CreateScript, RemoveScript, history
<1>3. late' \in SUBSET FileIds
  BY DEF CreateScript, RemoveScript, history, IInv, TypeOK
<1>2. last' \in Nat /\ disk' \in [Paths -> Nat \cup {None}]
  <2>1. CASE CreateScript(p)
    <3>1. last' \in Nat
      BY <2>1 DEF CreateScript, IInv, TypeOK
    <3>2. \E x \in Nat : disk' = [disk EXCEPT ![p] = x]
      BY <2>1, <3>1 DEF CreateScript
    <3>. QED BY <3>1, <3>2 DEF IInv, TypeOK
  <2>2. CASE RemoveScript(p)
    BY <2>2 DEF RemoveScript, IInv, TypeOK
  <2>. QED BY <2>1, <2>2
<1>4. Absent'
  <2> SUFFICES ASSUME NEW f \in FileIds, Missed(f)'
               PROVE  disk'[Included[path[f]]] = None /\ files[Included[path[f]]] = None
    BY <1>1 DEF inputs, Absent, FileIds
  <2>1. Missed(f)
    BY <1>1 DEF inputs, symbols, Missed, CreateScript, RemoveScript, history
  <2>2. Included[path[f]] \in Paths
    BY <2>1, MemoAssumption DEF Missed, IInv, TypeOK, FileIds
  <2>3. disk'[Included[path[f]]] = disk[Included[path[f]]] \/ disk'[Included[path[f]]] = None
    <3>1. CASE CreateScript(p)
      <4>1. Included[path[f]] # p
        BY <3>1 DEF CreateScript, Missed
      <4>. QED BY <2>2, <3>1, <4>1 DEF CreateScript, IInv, TypeOK
    <3>2. CASE RemoveScript(p)
      BY <2>2, <3>2 DEF RemoveScript, IInv, TypeOK
    <3>. QED BY <3>1, <3>2
  <2>. QED BY <2>1, <2>3 DEF IInv, Absent
<1>. QED BY <1>1, <1>2, <1>3, <1>4 DEF inputs, symbols, IInv, TypeOK, Known, Consistent, Current,
                           Aged, Told, Gone, Versions, FileIds

-----------------------------------------------------------------------------
(* The inductive invariant holds, and what it implies *)

LEMMA InitIInv == Init => IInv
<1> SUFFICES ASSUME Init PROVE IInv
  OBVIOUS
<1>1. FileIds = {}
  BY DEF Init, FileIds
<1>2. TypeOK
  BY <1>1, MemoAssumption DEF Init, TypeOK, Settings, FileIds
<1>. QED BY <1>1, <1>2
         DEF Init, IInv, Known, Consistent, Aged, Told, Versions, Absent

LEMMA NextIInv == IInv /\ [Next]_vars => IInv'
<1> SUFFICES ASSUME IInv, [Next]_vars PROVE IInv'
  OBVIOUS
<1>1. CASE UNCHANGED vars
  BY <1>1 DEF vars, inputs, symbols, history, IInv, TypeOK, Known, Consistent, Current, Aged,
              Told, Gone, Versions, Absent, Missed, FileIds
<1>2. CASE Next
  BY <1>2, EditKeeps, NoticeKeeps, NoticeGoneKeeps, ConfigureKeeps, RegisterKeeps,
     ComputeKeeps, VerifyKeeps, ViewKeeps, DiskKeeps
     DEF Next, WorkerStep
<1>. QED BY <1>1, <1>2

THEOREM Invariance == Spec => []IInv
BY InitIInv, NextIInv, PTL DEF Spec

(* Whatever workers run with settings of the past, the symbols of a file   *)
(* are not older than the settings under which it was edited last.         *)
THEOREM EditAppliesSettingsHolds == Spec => []EditAppliesSettings
<1>1. IInv => EditAppliesSettings
  BY DEF IInv, TypeOK, Consistent, Current, Aged, EditAppliesSettings
<1>. QED BY <1>1, Invariance, PTL

(* Who read the symbols of a script notices its deletion, unless they were *)
(* those of an empty text (delete_file, import_members).                   *)
THEOREM ReaderNoticesDeletionHolds == Spec => []ReaderNoticesDeletion
<1>1. ASSUME IInv, NEW f \in verified, memo[f].inc \in memo[f].reads,
             files[path[memo[f].inc]] # memo[f].inc, memo[f].inc \notin hollow
      PROVE  FALSE
  <2> DEFINE g == memo[f].inc
  <2>1. f \in FileIds /\ memo[f] # None /\ f \notin dirty /\ g \in verified /\ g \in FileIds
    BY <1>1 DEF IInv, TypeOK, Consistent, Current
  <2>2. memo[g] # None /\ memo[g].text = text[g] /\ text[g] = 0
    BY <1>1, <2>1 DEF IInv, Consistent, Current, Known
  <2>. QED BY <1>1, <2>1, <2>2 DEF IInv, Told, Gone
<1>2. IInv => ReaderNoticesDeletion
  BY <1>1 DEF ReaderNoticesDeletion
<1>. QED BY <1>2, Invariance, PTL

(* A known script is missed only by files whose symbols were computed      *)
(* under other settings or before it was on disk (get_script,              *)
(* open_file_from_path).                                                   *)
THEOREM MissedScriptHasCauseHolds == Spec => []MissedScriptHasCause
<1>1. ASSUME IInv, NEW f \in verified, text[f] # 0, Included[path[f]] # None,
             memo[f].inc = None, memo[f].version = config.version, config.root, f \notin late
      PROVE  files[Included[path[f]]] = None
  <2>1. f \in FileIds /\ memo[f] # None /\ memo[f].text # 0
    BY <1>1 DEF IInv, TypeOK, Consistent, Current
  <2>2. Missed(f)
    BY <1>1, <2>1 DEF Missed
  <2>. QED BY <1>1, <2>1, <2>2 DEF IInv, Absent
<1>2. IInv => MissedScriptHasCause
  BY <1>1 DEF MissedScriptHasCause
<1>. QED BY <1>2, Invariance, PTL
=============================================================================
