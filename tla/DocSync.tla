------------------------------ MODULE DocSync -------------------------------
(***************************************************************************)
(* didChange (crates/server/src/main.rs): the text of one open document in *)
(* the editor and in the server.                                           *)
(*                                                                         *)
(* The editor applies the changes of a message one after the other, so a   *)
(* range is meant for the text that the changes before it left.  The       *)
(* server converts all ranges with the line index of the text it had       *)
(* before the message, sorts them, and applies them from the last to the   *)
(* first.  The document is one line, so that a position is an offset.      *)
(***************************************************************************)
EXTENDS Naturals, Sequences, SequencesExt

CONSTANTS
  Texts,         \* the texts the document is opened with
  MaxLen,        \* bound: length of the document
  MaxEdit,       \* bound: changes made
  MaxBatch       \* bound: changes in a message

ASSUME DocSyncAssumption ==
  /\ MaxLen \in Nat /\ MaxEdit \in Nat /\ MaxBatch \in Nat
  /\ \A t \in Texts : t \in Seq(Nat) /\ Len(t) <= MaxLen

VARIABLES
  editor,        \* the text in the editor
  batch,         \* changes made and not sent yet
  inbox,         \* messages on their way
  text,          \* File::text
  crashed,       \* replace_range panicked
  edits,
  tainted        \* history: a message that is not bottom-up was applied

vars == <<editor, batch, inbox, text, crashed, edits, tainted>>

(* A change replaces the characters after offset "from" up to "to"; a full *)
(* change replaces the whole text.                                         *)
Change(from, to, new) == [full |-> FALSE, from |-> from, to |-> to, new |-> new]
Full(new) == [full |-> TRUE, from |-> 0, to |-> 0, new |-> new]

ReplaceRange(t, c) == SubSeq(t, 1, c.from) \o c.new \o SubSeq(t, c.to + 1, Len(t))

Init ==
  /\ text \in Texts
  /\ editor = text
  /\ batch = << >> /\ inbox = << >>
  /\ crashed = FALSE
  /\ edits = 0
  /\ tainted = FALSE

-----------------------------------------------------------------------------
(* The editor *)

(* What a change inserts tells it from the others.                         *)
News == {<< >>, <<edits + 1>>}

Edit ==
  /\ edits < MaxEdit /\ Len(batch) < MaxBatch
  /\ \E new \in News, to \in 0..Len(editor) : \E from \in 0..to :
       LET c == Change(from, to, new) IN
       /\ Len(ReplaceRange(editor, c)) <= MaxLen
       /\ editor' = ReplaceRange(editor, c)
       /\ batch' = Append(batch, c)
  /\ edits' = edits + 1
  /\ UNCHANGED <<inbox, text, crashed, tainted>>

(* The whole text is sent, for instance after the file was reloaded.       *)
Reload ==
  /\ edits < MaxEdit /\ Len(batch) < MaxBatch
  /\ \E new \in News :
       /\ editor' = new
       /\ batch' = Append(batch, Full(new))
  /\ edits' = edits + 1
  /\ UNCHANGED <<inbox, text, crashed, tainted>>

(* The changes of several cursors are sent from the bottom of the document *)
(* to the top: each one ends before the one before it starts.              *)
BottomUp(b) ==
  \/ \A i \in DOMAIN b : b[i].full
  \/ /\ \A i \in DOMAIN b : ~ b[i].full
     /\ \A i \in 1..Len(b) - 1 : b[i + 1].to <= b[i].from /\ b[i + 1].from < b[i].from

Send ==
  /\ batch # << >>
  /\ inbox' = Append(inbox, batch)
  /\ batch' = << >>
  /\ UNCHANGED <<editor, text, crashed, edits, tainted>>

-----------------------------------------------------------------------------
(* The server *)

(* The text after the full changes among the first n, which replace it as  *)
(* the ranges are being collected.                                         *)
Base(b, n) ==
  LET full == {i \in 1..n : b[i].full} IN
  IF full = {} THEN text ELSE b[CHOOSE i \in full : \A j \in full : j <= i].new

(* The elements of S in the order Before: the n-th has n - 1 before it.    *)
InOrder(S, Before(_, _)) ==
  [n \in 1..Cardinality(S) |->
     CHOOSE i \in S : Cardinality({j \in S : Before(j, i)}) = n - 1]

(* Fault: a range that ends with the text is dropped.                      *)
CollectedShort(b) ==
  LET kept == {i \in DOMAIN b : ~ b[i].full /\ b[i].to < Len(Base(b, i))} IN
  [n \in 1..Cardinality(kept) |-> b[InOrder(kept, <)[n]]]

(* text_range fails for a range beyond the text the server had, and a      *)
(* range beyond the text at hand is logged; both are dropped.              *)
Collected(b) ==
  LET kept == {i \in DOMAIN b : /\ ~ b[i].full
                                /\ b[i].to <= Len(text)
                                /\ b[i].to <= Len(Base(b, i))} IN
  [n \in 1..Cardinality(kept) |-> b[InOrder(kept, <)[n]]]

(* Fault: the changes are not sorted, only reversed.                       *)
OrderedUnsorted(cs) == Reverse(cs)

(* sort_by_key is stable; the result is applied in reverse order: first    *)
(* the range that starts last, and of two that start together the second.  *)
Ordered(cs) ==
  LET Sooner(i, j) == \/ cs[i].from > cs[j].from
                      \/ cs[i].from = cs[j].from /\ i > j IN
  [n \in DOMAIN cs |-> cs[InOrder(DOMAIN cs, Sooner)[n]]]

(* The text once the first n changes are applied, << >> after a panic.     *)
Stages(start, cs) ==
  LET stage[n \in 0..Len(cs)] ==
        IF n = 0 THEN [text |-> start, ok |-> TRUE]
        ELSE LET s == stage[n - 1] IN
             IF s.ok /\ cs[n].to <= Len(s.text)
             THEN [text |-> ReplaceRange(s.text, cs[n]), ok |-> TRUE]
             ELSE [text |-> << >>, ok |-> FALSE]
  IN stage[Len(cs)]

(* A panic ends the main thread and with it the server.                    *)
DidChange ==
  /\ inbox # << >> /\ ~ crashed
  /\ LET b == Head(inbox)
         result == Stages(Base(b, Len(b)), Ordered(Collected(b))) IN
     /\ crashed' = ~ result.ok
     /\ text' = IF result.ok THEN result.text ELSE text
     /\ tainted' = IF \A i \in DOMAIN b : b[i].full THEN FALSE
                   ELSE tainted \/ ~ BottomUp(b)
  /\ inbox' = Tail(inbox)
  /\ UNCHANGED <<editor, batch, edits>>

Next == Edit \/ Reload \/ Send \/ DidChange

Spec == Init /\ [][Next]_vars

-----------------------------------------------------------------------------
(* Properties *)

(* When no message is on its way the server has the text of the editor, as *)
(* long as every message since the last full text was bottom-up.  Other    *)
(* messages are legal and may not be applied as the editor did; the next   *)
(* full text repairs that.                                                 *)
TextMirrored == inbox = << >> /\ batch = << >> => text = editor \/ tainted

(* Applying a bottom-up message, however many stand before it, is never    *)
(* out of the bounds of the text.                                          *)
NeverOutOfBounds == crashed => tainted

=============================================================================
