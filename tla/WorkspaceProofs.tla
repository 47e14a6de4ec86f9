--------------------------- MODULE WorkspaceProofs --------------------------
(***************************************************************************)
(* Proofs about Workspace, for any paths and any number of workers, texts, *)
(* Files and messages.                                                     *)
(***************************************************************************)
EXTENDS Workspace, SequenceTheorems, TLAPS

-----------------------------------------------------------------------------
(* The inductive invariant *)

Steps == {"idle", "look", "read", "enter", "bind", "url", "found"}
MainSteps == Steps \cup {"set", "unurl", "unbind"}
Served == {"none", "worker", "load", "open", "watch", "change", "delete"}

Ops == [pc : MainSteps, by : Served, key : Keys \cup {None}, text : Nat \cup {None},
        file : Nat \cup {None}]
Sent == [kind : {"open", "change", "watch", "delete", "load"}, key : Keys,
         from : Nat, to : Nat]

(* What each step of an operation has at hand.                             *)
Fits(t, o, ids) ==
  /\ o.pc = "idle" => o = Idle
  /\ o.pc # "idle" => o.key \in Keys
  /\ o.pc \in {"enter", "bind", "set", "unurl", "unbind"} => o.text \in Nat
  /\ o.pc \in {"bind", "url", "found", "set", "unurl", "unbind"} => o.file \in ids
  /\ o.pc \in {"look", "read", "enter"} => o.file = None
  /\ o.pc \in {"unurl", "unbind"} => o.by = "delete"
  /\ o.pc \in {"look", "read"} => o.by \in {"worker", "load"}
  /\ o.by = "change" => o.pc = "set"
  /\ o.pc = "set" => o.by \in {"open", "change", "watch", "delete"}
  /\ t \in Workers => o.pc \in Steps /\ o.by \in {"none", "worker"}
Shaped(t) == Fits(t, op[t], FileIds)

TypeOK ==
  /\ disk \in [Keys -> Nat \cup {None}] /\ editor \in [Keys -> Nat \cup {None}]
  /\ last \in Nat
  /\ inbox \in Seq(Sent) /\ events \in Seq(Sent)
  /\ \A i \in DOMAIN events : events[i].kind \in {"watch", "delete"}
  /\ text \in Seq(Nat)
  /\ files \in [Keys -> FileIds \cup {None}]
  /\ urls \subseteq FileIds
  /\ op \in [Threads -> Ops]
  /\ \A t \in Threads : Shaped(t)
  /\ blame \in [Keys -> SUBSET Causes]
  /\ touched \subseteq Keys

(* A File is registered under one path, the one that every thread has in   *)
(* mind that works on it; nobody else has a File that is not yet bound.    *)
Owned ==
  /\ \A j, k \in Keys : files[j] = files[k] /\ files[k] # None => j = k
  /\ \A t \in Threads, k \in Keys :
       op[t].file # None /\ files[k] = op[t].file => op[t].key = k
  /\ \A t \in Threads : op[t].pc = "bind" =>
       /\ op[t].file \notin Registered
       /\ \A u \in Threads \ {t} : op[u].file # op[t].file
  /\ op[Main].pc = "set" /\ op[Main].by = "delete" => op[Main].file \notin Registered

HasUrl ==
  \A f \in Registered \ urls :
    \E t \in Threads : op[t].file = f /\ op[t].pc \in {"url", "unbind"}

(* A worker was given a File that has its url, or that another thread is   *)
(* about to give its url, or that the main thread took the url from and    *)
(* waits to empty.                                                         *)
Excused(f) ==
  Registering(f) \/ (Deleting(f) /\ op[Main].pc \in {"unbind", "set"})
Given ==
  \A w \in Workers : op[w].pc = "found" /\ op[w].file \notin urls => Excused(op[w].file)

(* What the main thread looked up holds for a path that no worker is after *)
Alone ==
  /\ \A w \in Workers : op[w].pc # "idle" => op[w].key \in touched
  /\ op[Main].key \notin touched =>
       /\ op[Main].pc \in {"read", "enter", "bind"} => files[op[Main].key] = None
       /\ op[Main].pc \in {"url", "unurl", "unbind"} => files[op[Main].key] = op[Main].file
  /\ touched = {} => urls \subseteq Registered
  /\ touched = {} /\ op[Main].pc = "unbind" => op[Main].file \notin urls
  /\ \A k \in Keys \ touched : blame[k] \subseteq {"overwritten", "deleted"}
  /\ op[Main].pc = "set" /\ op[Main].by # "delete" =>
       files[op[Main].key] = op[Main].file \/ "rebound" \in blame[op[Main].key]

(* The messages about the text of document k, in order: each edit was made *)
(* to the text that the message before it left, and the last one left what *)
(* the editor has.                                                         *)
About(i, k) == inbox[i].key = k /\ inbox[i].kind \in {"open", "change"}
Adjacent(i, j, k) == \A m \in DOMAIN inbox : i < m /\ m < j => ~ About(m, k)
First(i, k) == About(i, k) /\ \A m \in DOMAIN inbox : m < i => ~ About(m, k)
Last(i, k) == About(i, k) /\ \A m \in DOMAIN inbox : i < m => ~ About(m, k)
Chain(k) ==
  /\ \A i, j \in DOMAIN inbox :
       /\ i < j /\ About(i, k) /\ About(j, k) /\ inbox[j].kind = "change"
       /\ Adjacent(i, j, k)
       => inbox[j].from = inbox[i].to
  /\ editor[k] # None => \A i \in DOMAIN inbox : Last(i, k) => inbox[i].to = editor[k]
Chained == \A k \in Keys : Chain(k)

(* The text that document k has, or has when the main thread is done with  *)
(* it; and whether the model claims to know.                               *)
Serving(k) ==
  /\ op[Main].key = k
  /\ op[Main].by \in {"open", "change"}
  /\ op[Main].pc \in {"set", "enter", "bind"}
Now(k) ==
  IF Serving(k) THEN op[Main].text
  ELSE IF files[k] = None THEN None ELSE text[files[k]]
Opening(k) == Serving(k) /\ op[Main].by = "open" /\ op[Main].pc # "bind"
Trusted(k) ==
  /\ editor[k] # None
  /\ \A i \in DOMAIN inbox : inbox[i].key = k => inbox[i].kind # "open"
  /\ blame[k] = {} \/ Opening(k)

(* The next edit of a document was made to the text that the server has,   *)
(* or the server has the editor's.                                         *)
Follows(k) ==
  Trusted(k) =>
    /\ Now(k) # None
    /\ \A i \in DOMAIN inbox : First(i, k) => inbox[i].from = Now(k)
    /\ (\A i \in DOMAIN inbox : ~ About(i, k)) => Now(k) = editor[k]
Synced == \A k \in Keys : Follows(k)

(* A File that is about to be bound for a document has its text.           *)
Ready == op[Main].pc = "bind" => text[op[Main].file] = op[Main].text

IInv == TypeOK /\ Owned /\ HasUrl /\ Given /\ Alone /\ Chained /\ Synced /\ Ready

-----------------------------------------------------------------------------
(* The queues and the operations *)

LEMMA SendFacts ==
  ASSUME TypeOK, NEW m \in Sent, Send(m)
  PROVE  /\ Len(inbox) \in Nat /\ DOMAIN inbox = 1..Len(inbox)
         /\ inbox' \in Seq(Sent) /\ DOMAIN inbox' = 1..Len(inbox) + 1
         /\ \A i \in DOMAIN inbox : inbox'[i] = inbox[i]
         /\ inbox'[Len(inbox) + 1] = m
<1>1. inbox \in Seq(Sent) /\ inbox' = Append(inbox, m)
  BY DEF TypeOK, Send
<1>2. Len(inbox) \in Nat /\ DOMAIN inbox = 1..Len(inbox)
  BY <1>1
<1>3. /\ Append(inbox, m) \in Seq(Sent) /\ Len(Append(inbox, m)) = Len(inbox) + 1
      /\ \A i \in 1..Len(inbox) : Append(inbox, m)[i] = inbox[i]
      /\ Append(inbox, m)[Len(inbox) + 1] = m
  BY <1>1, AppendProperties
<1>. QED BY <1>1, <1>2, <1>3

LEMMA TakeFacts ==
  ASSUME TypeOK, NEW kind, Take(kind)
  PROVE  /\ op[Main] = Idle
         /\ Len(inbox) \in Nat \ {0} /\ DOMAIN inbox = 1..Len(inbox)
         /\ Head(inbox) \in Sent /\ Head(inbox) = inbox[1] /\ inbox[1].kind = kind
         /\ inbox' \in Seq(Sent) /\ DOMAIN inbox' = 1..Len(inbox) - 1
         /\ \A i \in DOMAIN inbox' : inbox'[i] = inbox[i + 1]
<1>1. /\ inbox \in Seq(Sent) /\ inbox # << >> /\ inbox' = Tail(inbox)
      /\ Head(inbox).kind = kind /\ op[Main] = Idle
  BY DEF TypeOK, Take
<1>2. Len(inbox) \in Nat \ {0} /\ DOMAIN inbox = 1..Len(inbox)
  BY <1>1
<1>3. Head(inbox) = inbox[1] /\ Head(inbox) \in Sent
  BY <1>1, HeadTailProperties
<1>4. /\ Tail(inbox) \in Seq(Sent) /\ Len(Tail(inbox)) = Len(inbox) - 1
      /\ \A i \in 1..Len(Tail(inbox)) : Tail(inbox)[i] = inbox[i + 1]
  BY <1>1, HeadTailProperties
<1>. QED BY <1>1, <1>2, <1>3, <1>4

LEMMA GoFacts ==
  ASSUME TypeOK, NEW t \in Threads, NEW o \in Ops, Go(t, o)
  PROVE  /\ op' \in [Threads -> Ops] /\ op'[t] = o
         /\ \A u \in Threads : u # t => op'[u] = op[u]
BY DEF TypeOK, Go

(* What the thread that takes a step has in mind, and what it changes.     *)
LEMMA StepFacts ==
  ASSUME TypeOK, NEW t \in Threads, op[t].pc # "idle"
  PROVE  /\ op[t] \in Ops /\ op[t].key \in Keys
         /\ files[op[t].key] \in FileIds \cup {None}
         /\ disk[op[t].key] \in Nat \cup {None}
         /\ op[t].pc \in {"enter", "bind", "set", "unurl", "unbind"} => op[t].text \in Nat
         /\ op[t].pc \in {"bind", "url", "found", "set", "unurl", "unbind"} => op[t].file \in FileIds
         /\ FileIds \subseteq Nat /\ None \notin FileIds
         /\ op[t].pc \in {"set", "unurl", "unbind"} => t = Main
BY WorkspaceAssumption DEF TypeOK, Shaped, Fits, FileIds, Threads, Steps

-----------------------------------------------------------------------------
(* Type correctness *)

LEMMA TypeInit == Init => TypeOK
BY WorkspaceAssumption
   DEF Init, TypeOK, Shaped, Fits, Threads, Idle, Op, Ops, MainSteps, Steps, Served, FileIds

LEMMA TypeClient == TypeOK /\ ClientStep => TypeOK'
<1> SUFFICES ASSUME TypeOK, ClientStep PROVE TypeOK'
  OBVIOUS
<1>1. ASSUME UNCHANGED <<maps, text, op, history>>,
             disk' \in [Keys -> Nat \cup {None}], editor' \in [Keys -> Nat \cup {None}],
             last' \in Nat, inbox' \in Seq(Sent), events' \in Seq(Sent),
             \A i \in DOMAIN events' : events'[i].kind \in {"watch", "delete"}
      PROVE  TypeOK'
  BY <1>1 DEF maps, history, TypeOK, Shaped, FileIds
<1>2. ASSUME NEW m \in Sent, Fire(m), m.kind \in {"watch", "delete"}
      PROVE  /\ events' \in Seq(Sent)
             /\ \A i \in DOMAIN events' : events'[i].kind \in {"watch", "delete"}
  <2>1. events \in Seq(Sent) /\ events' = Append(events, m)
    BY <1>2 DEF TypeOK, Fire
  <2>2. /\ Append(events, m) \in Seq(Sent) /\ Len(Append(events, m)) = Len(events) + 1
        /\ \A i \in 1..Len(events) : Append(events, m)[i] = events[i]
        /\ Append(events, m)[Len(events) + 1] = m
    BY <2>1, AppendProperties
  <2>3. DOMAIN events' = 1..Len(events) + 1 /\ DOMAIN events = 1..Len(events)
        /\ Len(events) \in Nat
    BY <2>1, <2>2
  <2>. QED BY <1>2, <2>1, <2>2, <2>3 DEF TypeOK
<1>3. ASSUME NEW k \in Keys, ClientOpen(k) PROVE TypeOK'
  <2>1. editor' \in [Keys -> Nat \cup {None}] /\ editor'[k] \in Nat
    BY <1>3, WorkspaceAssumption DEF ClientOpen, TypeOK
  <2>2. Message("open", k, 0, editor'[k]) \in Sent
    BY <2>1 DEF Message, Sent
  <2>3. inbox' \in Seq(Sent)
    BY <1>3, <2>2, SendFacts DEF ClientOpen
  <2>. QED BY <1>1, <1>3, <2>1, <2>3 DEF ClientOpen, TypeOK
<1>4. ASSUME NEW k \in Keys, ClientEdit(k) PROVE TypeOK'
  <2>1. editor' \in [Keys -> Nat \cup {None}] /\ editor[k] \in Nat /\ last' \in Nat
    BY <1>4 DEF ClientEdit, TypeOK
  <2>2. Message("change", k, editor[k], last') \in Sent
    BY <2>1 DEF Message, Sent
  <2>3. inbox' \in Seq(Sent)
    BY <1>4, <2>2, SendFacts DEF ClientEdit
  <2>. QED BY <1>1, <1>4, <2>1, <2>3 DEF ClientEdit, TypeOK
<1>5. ASSUME NEW k \in Keys, ClientClose(k) PROVE TypeOK'
  <2>1. editor' \in [Keys -> Nat \cup {None}]
    BY <1>5 DEF ClientClose, TypeOK
  <2>. QED BY <1>1, <1>5, <2>1 DEF ClientClose, queues, TypeOK
<1>6. ASSUME NEW k \in Keys, ClientSave(k) PROVE TypeOK'
  <2>1. disk' \in [Keys -> Nat \cup {None}]
    BY <1>6 DEF ClientSave, TypeOK
  <2>2. Message("watch", k, 0, 0) \in Sent /\ Message("watch", k, 0, 0).kind = "watch"
    BY DEF Message, Sent
  <2>. QED BY <1>1, <1>2, <1>6, <2>1, <2>2 DEF ClientSave, TypeOK
<1>7. ASSUME NEW k \in Keys, ClientRemove(k) PROVE TypeOK'
  <2>1. disk' \in [Keys -> Nat \cup {None}]
    BY <1>7 DEF ClientRemove, TypeOK
  <2>2. Message("delete", k, 0, 0) \in Sent /\ Message("delete", k, 0, 0).kind = "delete"
    BY DEF Message, Sent
  <2>. QED BY <1>1, <1>2, <1>7, <2>1, <2>2 DEF ClientRemove, TypeOK
<1>8. CASE ClientNotify
  <2>1. events \in Seq(Sent) /\ events # << >> /\ events' = Tail(events) /\ Send(Head(events))
    BY <1>8 DEF ClientNotify, TypeOK
  <2>2. /\ Head(events) \in Sent /\ events' \in Seq(Sent)
        /\ \A i \in 1..Len(events') : events'[i] = events[i + 1] /\ i + 1 \in DOMAIN events
    <3>1. /\ Head(events) \in Sent /\ Tail(events) \in Seq(Sent)
          /\ Len(Tail(events)) = Len(events) - 1
          /\ \A i \in 1..Len(Tail(events)) : Tail(events)[i] = events[i + 1]
      BY <2>1, HeadTailProperties
    <3>2. DOMAIN events = 1..Len(events) /\ Len(events) \in Nat
      BY <2>1
    <3>. QED BY <2>1, <3>1, <3>2
  <2>3. inbox' \in Seq(Sent)
    BY <2>1, <2>2, SendFacts
  <2>4. \A i \in DOMAIN events' : events'[i].kind \in {"watch", "delete"}
    <3>1. DOMAIN events' = 1..Len(events')
      BY <2>2
    <3>. QED BY <2>2, <3>1 DEF TypeOK
  <2>. QED BY <1>1, <1>8, <2>2, <2>3, <2>4 DEF ClientNotify, client, TypeOK
<1>9. ASSUME NEW k \in Keys, ClientConfigure(k) PROVE TypeOK'
  <2>1. Message("load", k, 0, 0) \in Sent
    BY DEF Message, Sent
  <2>2. inbox' \in Seq(Sent)
    BY <1>9, <2>1, SendFacts DEF ClientConfigure
  <2>. QED BY <1>1, <1>9, <2>2 DEF ClientConfigure, client, TypeOK
<1>. QED BY <1>3, <1>4, <1>5, <1>6, <1>7, <1>8, <1>9 DEF ClientStep

(* A thread goes on with an operation that fits.                           *)
LEMMA TypeGo ==
  ASSUME TypeOK, NEW t \in Threads, NEW o \in Ops, Go(t, o), Fits(t, o, FileIds'),
         UNCHANGED <<client, events>>, inbox' \in Seq(Sent),
         text' \in Seq(Nat), FileIds \subseteq FileIds',
         files' \in [Keys -> FileIds' \cup {None}], urls' \subseteq FileIds',
         blame' \in [Keys -> SUBSET Causes], touched' \subseteq Keys
  PROVE  TypeOK'
<1>1. /\ op' \in [Threads -> Ops] /\ op'[t] = o
      /\ \A u \in Threads : u # t => op'[u] = op[u]
  BY GoFacts
<1>2. ASSUME NEW u \in Threads PROVE Fits(u, op'[u], FileIds')
  <2>1. CASE u = t
    BY <1>1, <2>1
  <2>2. CASE u # t
    <3>1. op'[u] = op[u] /\ Fits(u, op[u], FileIds)
      BY <1>1, <2>2 DEF TypeOK, Shaped
    <3>2. Fits(u, op[u], FileIds')
      BY <3>1 DEF Fits
    <3>. QED BY <3>1, <3>2
  <2>. QED BY <2>1, <2>2
<1>3. \A u \in Threads : Shaped(u)'
  BY <1>2 DEF Shaped
<1>. QED BY <1>1, <1>3 DEF client, TypeOK

LEMMA IdleFits ==
  ASSUME NEW t \in Threads, NEW ids PROVE Idle \in Ops /\ Fits(t, Idle, ids)
BY DEF Idle, Op, Ops, Fits, MainSteps, Steps, Served

LEMMA TypeOpen ==
  ASSUME TypeOK, NEW t \in Threads, OpenStep(t) PROVE TypeOK'
<1> DEFINE k == op[t].key
<1>1. /\ op[t].pc # "idle"
      /\ UNCHANGED <<client, queues>> /\ touched' \subseteq Keys
  BY DEF OpenStep, Look, Read, EnterKnown, EnterNew, Bind, Url, Idle, Op, history, TypeOK
<1>2. /\ op[t] \in Ops /\ k \in Keys /\ Fits(t, op[t], FileIds)
      /\ files[k] \in FileIds \cup {None} /\ disk[k] \in Nat \cup {None}
      /\ FileIds \subseteq Nat
  BY <1>1, StepFacts DEF TypeOK, Shaped
<1>3. inbox' \in Seq(Sent) /\ UNCHANGED <<client, events>>
  BY <1>1 DEF queues, TypeOK
<1>4. /\ text \in Seq(Nat) /\ files \in [Keys -> FileIds \cup {None}] /\ urls \subseteq FileIds
      /\ blame \in [Keys -> SUBSET Causes] /\ touched \subseteq Keys
  BY DEF TypeOK
<1>5. CASE Look(t)
  <2> DEFINE o == IF files[k] = None THEN [op[t] EXCEPT !.pc = "read"]
                  ELSE IF t \in Workers THEN [op[t] EXCEPT !.pc = "found", !.file = files[k]]
                  ELSE Idle
  <2>1. /\ op[t].pc = "look" /\ Go(t, o)
        /\ UNCHANGED <<maps, text, history>> /\ FileIds' = FileIds
    BY <1>5 DEF Look, Found, FileIds
  <2>2. o \in Ops /\ Fits(t, o, FileIds)
    <3>1. CASE files[k] = None
      BY <1>2, <2>1, <3>1 DEF Ops, MainSteps, Steps, Fits
    <3>2. CASE files[k] # None /\ t \in Workers
      BY <1>2, <2>1, <3>2 DEF Ops, MainSteps, Steps, Fits
    <3>3. CASE files[k] # None /\ t \notin Workers
      BY <3>3, IdleFits
    <3>. QED BY <3>1, <3>2, <3>3
  <2>. QED BY <1>3, <1>4, <2>1, <2>2, TypeGo DEF maps, history
<1>6. CASE Read(t)
  <2> DEFINE o == IF disk[k] = None THEN Idle
                  ELSE [op[t] EXCEPT !.pc = "enter", !.text = disk[k]]
  <2>1. /\ op[t].pc = "read" /\ Go(t, o)
        /\ UNCHANGED <<maps, text, history>> /\ FileIds' = FileIds
    BY <1>6 DEF Read, FileIds
  <2>2. o \in Ops /\ Fits(t, o, FileIds)
    BY <1>2, <2>1, IdleFits DEF Ops, MainSteps, Steps, Fits
  <2>. QED BY <1>3, <1>4, <2>1, <2>2, TypeGo DEF maps, history
<1>7. CASE EnterKnown(t)
  <2> DEFINE o == [op[t] EXCEPT !.pc = "url", !.file = files[k]]
  <2>1. /\ op[t].pc = "enter" /\ Go(t, o) /\ files[k] # None
        /\ UNCHANGED <<maps, text, touched>> /\ FileIds' = FileIds
    BY <1>7 DEF EnterKnown, FileIds
  <2>2. o \in Ops /\ Fits(t, o, FileIds)
    BY <1>2, <2>1 DEF Ops, MainSteps, Steps, Fits
  <2>3. blame' \in [Keys -> SUBSET Causes]
    BY SMTT(30), <1>2, <1>4, <1>7 DEF EnterKnown, Causes
  <2>. QED BY <1>3, <1>4, <2>1, <2>2, <2>3, TypeGo DEF maps
<1>8. CASE EnterNew(t)
  <2> DEFINE o == [op[t] EXCEPT !.pc = "bind", !.file = Len(text')]
  <2>1. /\ op[t].pc = "enter" /\ Go(t, o)
        /\ text' = Append(text, op[t].text)
        /\ UNCHANGED <<maps, touched>>
    BY <1>8 DEF EnterNew
  <2>2. op[t].text \in Nat
    BY <1>2, <2>1 DEF Fits
  <2>3. /\ text' \in Seq(Nat) /\ Len(text') = Len(text) + 1 /\ Len(text) \in Nat
    BY <1>4, <2>1, <2>2, AppendProperties
  <2>4. FileIds \subseteq FileIds' /\ Len(text') \in FileIds' /\ Len(text') \in Nat
    BY <1>4, <2>3 DEF FileIds
  <2>5. o \in Ops /\ Fits(t, o, FileIds')
    BY <1>2, <2>1, <2>4 DEF Ops, MainSteps, Steps, Fits
  <2>6. blame' \in [Keys -> SUBSET Causes]
    BY <1>2, <1>4, <1>8 DEF EnterNew, Causes
  <2>7. files' \in [Keys -> FileIds' \cup {None}] /\ urls' \subseteq FileIds'
    BY <1>4, <2>1, <2>4 DEF maps
  <2>. QED BY <1>3, <1>4, <2>1, <2>3, <2>4, <2>5, <2>6, <2>7, TypeGo
<1>9. CASE Bind(t)
  <2> DEFINE o == [op[t] EXCEPT !.pc = "url"]
  <2>1. /\ op[t].pc = "bind" /\ Go(t, o)
        /\ files' = [files EXCEPT ![k] = op[t].file]
        /\ UNCHANGED <<urls, text, touched>> /\ FileIds' = FileIds
    BY <1>9 DEF Bind, FileIds
  <2>2. o \in Ops /\ Fits(t, o, FileIds) /\ op[t].file \in FileIds
    BY <1>2, <2>1 DEF Ops, MainSteps, Steps, Fits
  <2>3. blame' \in [Keys -> SUBSET Causes]
    BY <1>2, <1>4, <1>9 DEF Bind, Causes
  <2>4. files' \in [Keys -> FileIds \cup {None}]
    BY <1>2, <1>4, <2>1, <2>2
  <2>. QED BY <1>3, <1>4, <2>1, <2>2, <2>3, <2>4, TypeGo
<1>10. CASE Url(t)
  <2> DEFINE o == IF t \in Workers THEN [op[t] EXCEPT !.pc = "found", !.file = op[t].file]
                  ELSE Idle
  <2>1. /\ op[t].pc = "url" /\ Go(t, o) /\ urls' = urls \cup {op[t].file}
        /\ UNCHANGED <<files, text, history>> /\ FileIds' = FileIds
    BY <1>10 DEF Url, Found, FileIds
  <2>2. urls' \subseteq FileIds
    BY <1>2, <1>4, <2>1 DEF Fits
  <2>3. o \in Ops /\ Fits(t, o, FileIds)
    <3>1. CASE t \in Workers
      BY <1>2, <2>1, <3>1 DEF Ops, MainSteps, Steps, Fits
    <3>2. CASE t \notin Workers
      BY <3>2, IdleFits
    <3>. QED BY <3>1, <3>2
  <2>. QED BY <1>3, <1>4, <2>1, <2>2, <2>3, TypeGo DEF history
<1>. QED BY <1>5, <1>6, <1>7, <1>8, <1>9, <1>10 DEF OpenStep

LEMMA TypeResolve ==
  ASSUME TypeOK, NEW w \in Workers, NEW k \in Keys, Resolve(w, k) PROVE TypeOK'
<1> DEFINE o == Op("look", "worker", k, None, None)
<1>1. /\ Go(w, o) /\ touched' = touched \cup {k} /\ w \in Threads
      /\ UNCHANGED <<client, queues, maps, text, blame>> /\ FileIds' = FileIds
  BY DEF Resolve, FileIds, Threads
<1>2. o \in Ops /\ Fits(w, o, FileIds)
  BY WorkspaceAssumption DEF Op, Ops, Fits, MainSteps, Steps, Served, Idle
<1>. QED BY <1>1, <1>2, TypeGo DEF queues, maps, TypeOK

(* A handler ends.                                                         *)
LEMMA AnswerFacts ==
  ASSUME TypeOK, NEW w \in Workers, Answer(w)
  PROVE  /\ w \in Threads /\ w # Main /\ Main \in Threads
         /\ op[w].pc = "found" /\ op'[w] = Idle /\ op'[Main] = op[Main]
         /\ \A u \in Threads \ {w} : op'[u] = op[u]
         /\ UNCHANGED <<client, queues, maps, text, history>>
BY WorkspaceAssumption DEF Answer, Go, Threads, TypeOK

LEMMA TypeAnswer ==
  ASSUME TypeOK, NEW w \in Workers, Answer(w) PROVE TypeOK'
<1>1. w \in Threads /\ Go(w, Idle) /\ UNCHANGED <<client, queues, maps, text, history>>
  BY AnswerFacts DEF Answer
<1>2. FileIds' = FileIds /\ Idle \in Ops /\ Fits(w, Idle, FileIds)
  BY <1>1, IdleFits DEF FileIds
<1>. QED BY <1>1, <1>2, TypeGo DEF queues, maps, history, TypeOK

(* What the main thread does with the message that it takes.               *)
LEMMA Taken ==
  ASSUME TypeOK, TakeOpen \/ TakeWatch \/ TakeChange \/ TakeDelete \/ TakeLoad
  PROVE  /\ \E kind : Take(kind)
         /\ UNCHANGED <<client, events, maps, text, history>>
         /\ \/ UNCHANGED op
            \/ \E o \in Ops : Fits(Main, o, FileIds) /\ Go(Main, o)
<1> DEFINE m == Head(inbox)
           f == files[m.key]
<1>1. PICK kind : Take(kind)
  BY DEF TakeOpen, TakeWatch, TakeChange, TakeDelete, TakeLoad
<1>2. m \in Sent /\ m.key \in Keys /\ m.to \in Nat
  BY <1>1, TakeFacts DEF Sent
<1>3. f \in FileIds \cup {None} /\ disk[m.key] \in Nat \cup {None} /\ FileIds \subseteq Nat
  BY <1>2 DEF TypeOK, FileIds
<1>4. Main \notin Workers
  BY WorkspaceAssumption
<1>5. ASSUME NEW kind2 \in {"open", "watch"}, NEW x \in Nat, Sync(kind2, m.key, x)
      PROVE  \E o \in Ops : Fits(Main, o, FileIds) /\ Go(Main, o)
  <2>1. CASE f # None
    <3> DEFINE o == Op("set", kind2, m.key, x, f)
    <3>1. o \in Ops /\ Fits(Main, o, FileIds)
      BY <1>2, <1>3, <1>4, <2>1 DEF Op, Ops, Fits, MainSteps, Steps, Served
    <3>. QED BY <1>5, <2>1, <3>1 DEF Sync
  <2>2. CASE f = None
    <3> DEFINE o == Op("enter", kind2, m.key, x, None)
    <3>1. o \in Ops /\ Fits(Main, o, FileIds)
      BY <1>2, <1>3, <1>4 DEF Op, Ops, Fits, MainSteps, Steps, Served
    <3>. QED BY <1>5, <2>2, <3>1 DEF Sync
  <2>. QED BY <2>1, <2>2
<1>6. CASE TakeOpen
  BY <1>1, <1>2, <1>5, <1>6 DEF TakeOpen
<1>7. CASE TakeWatch
  BY <1>1, <1>3, <1>5, <1>7 DEF TakeWatch
<1>8. CASE TakeChange
  <2> DEFINE x == IF text[f] = m.from THEN m.to ELSE Garbled
             o == Op("set", "change", m.key, x, f)
  <2>1. x \in Nat
    BY <1>2, WorkspaceAssumption DEF Garbled
  <2>2. CASE f # None
    <3>1. o \in Ops /\ Fits(Main, o, FileIds)
      BY <1>2, <1>3, <1>4, <2>1, <2>2 DEF Op, Ops, Fits, MainSteps, Steps, Served
    <3>. QED BY <1>1, <1>8, <2>2, <3>1 DEF TakeChange
  <2>. QED BY <1>1, <1>8, <2>2 DEF TakeChange
<1>9. CASE TakeDelete
  <2> DEFINE o == Op("unurl", "delete", m.key, 0, f)
  <2>1. CASE f # None
    <3>1. o \in Ops /\ Fits(Main, o, FileIds)
      BY <1>2, <1>3, <1>4, <2>1 DEF Op, Ops, Fits, MainSteps, Steps, Served
    <3>. QED BY <1>1, <1>9, <2>1, <3>1 DEF TakeDelete
  <2>. QED BY <1>1, <1>9, <2>1 DEF TakeDelete
<1>10. CASE TakeLoad
  <2> DEFINE o == Op("look", "load", m.key, None, None)
  <2>1. o \in Ops /\ Fits(Main, o, FileIds)
    BY <1>2, <1>4 DEF Op, Ops, Fits, MainSteps, Steps, Served
  <2>. QED BY <1>1, <1>10, <2>1 DEF TakeLoad
<1>. QED BY <1>6, <1>7, <1>8, <1>9, <1>10

LEMMA TypeTake ==
  ASSUME TypeOK, TakeOpen \/ TakeWatch \/ TakeChange \/ TakeDelete \/ TakeLoad
  PROVE  TypeOK'
<1>1. /\ \E kind : Take(kind)
      /\ UNCHANGED <<client, events, maps, text, history>>
      /\ \/ UNCHANGED op
         \/ \E o \in Ops : Fits(Main, o, FileIds) /\ Go(Main, o)
  BY Taken
<1>2. inbox' \in Seq(Sent) /\ FileIds' = FileIds /\ Main \in Threads
  BY <1>1, TakeFacts DEF FileIds, Threads
<1>3. CASE UNCHANGED op
  BY <1>1, <1>2, <1>3 DEF client, maps, history, TypeOK, Shaped
<1>4. ASSUME NEW o \in Ops, Fits(Main, o, FileIds), Go(Main, o) PROVE TypeOK'
  BY <1>1, <1>2, <1>4, TypeGo DEF maps, history, TypeOK
<1>. QED BY <1>1, <1>3, <1>4

LEMMA TypeMain ==
  ASSUME TypeOK, RemoveUrl \/ RemoveFile \/ SetText PROVE TypeOK'
<1> DEFINE k == op[Main].key
           f == op[Main].file
<1>1. op[Main].pc # "idle" /\ Main \in Threads /\ op[Main].pc \in {"set", "unurl", "unbind"}
  BY DEF RemoveUrl, RemoveFile, SetText, Threads
<1>2. /\ op[Main] \in Ops /\ k \in Keys /\ Fits(Main, op[Main], FileIds)
      /\ f \in FileIds /\ op[Main].text \in Nat
  BY <1>1, StepFacts DEF TypeOK, Shaped
<1>3. inbox \in Seq(Sent) /\ text \in Seq(Nat) /\ files \in [Keys -> FileIds \cup {None}]
      /\ urls \subseteq FileIds /\ blame \in [Keys -> SUBSET Causes] /\ touched \subseteq Keys
  BY DEF TypeOK
<1>4. CASE RemoveUrl
  <2> DEFINE o == [op[Main] EXCEPT !.pc = "unbind"]
  <2>1. /\ op[Main].pc = "unurl" /\ urls' = urls \ {f} /\ Go(Main, o)
        /\ UNCHANGED <<client, queues, files, text, history>> /\ FileIds' = FileIds
    BY <1>4 DEF RemoveUrl, FileIds
  <2>2. o \in Ops /\ Fits(Main, o, FileIds)
    BY <1>2, <2>1 DEF Ops, MainSteps, Fits
  <2>. QED BY <1>1, <1>3, <2>1, <2>2, TypeGo DEF queues, history
<1>5. CASE RemoveFile
  <2> DEFINE o == [op[Main] EXCEPT !.pc = "set"]
  <2>1. /\ op[Main].pc = "unbind" /\ files' = [files EXCEPT ![k] = None] /\ Go(Main, o)
        /\ UNCHANGED <<client, queues, urls, text, touched>> /\ FileIds' = FileIds
    BY <1>5 DEF RemoveFile, FileIds
  <2>2. o \in Ops /\ Fits(Main, o, FileIds)
    BY <1>2, <2>1 DEF Ops, MainSteps, Fits
  <2>3. blame' \in [Keys -> SUBSET Causes]
    <3>1. \/ blame' = [blame EXCEPT ![k] = @ \cup {"deleted"}]
          \/ blame' = blame
      BY <1>5 DEF RemoveFile
    <3>2. {"deleted"} \subseteq Causes
      BY DEF Causes
    <3>. QED BY <1>2, <1>3, <3>1, <3>2
  <2>4. files' \in [Keys -> FileIds \cup {None}]
    BY <1>3, <2>1
  <2>. QED BY <1>1, <1>3, <2>1, <2>2, <2>3, <2>4, TypeGo DEF queues
<1>6. CASE SetText
  <2>1. /\ text' = [text EXCEPT ![f] = op[Main].text] /\ Go(Main, Idle)
        /\ UNCHANGED <<client, queues, maps, touched>>
    BY <1>6 DEF SetText
  <2>2. text' \in Seq(Nat) /\ FileIds' = FileIds
    BY <1>2, <1>3, <2>1 DEF FileIds
  <2>3. blame' \in [Keys -> SUBSET Causes]
    BY <1>2, <1>3, <1>6 DEF SetText, Causes
  <2>4. Idle \in Ops /\ Fits(Main, Idle, FileIds)
    BY <1>1, IdleFits
  <2>. QED BY <1>1, <1>3, <2>1, <2>2, <2>3, <2>4, TypeGo DEF queues, maps
<1>. QED BY <1>4, <1>5, <1>6

LEMMA TypeStep == TypeOK /\ [Next]_vars => TypeOK'
<1> SUFFICES ASSUME TypeOK, [Next]_vars PROVE TypeOK'
  OBVIOUS
<1>1. CASE UNCHANGED vars
  BY <1>1 DEF vars, client, queues, maps, history, TypeOK, Shaped, FileIds
<1>2. CASE Next
  BY <1>2, TypeClient, TypeTake, TypeMain, TypeOpen, TypeResolve, TypeAnswer DEF Next, MainStep
<1>. QED BY <1>1, <1>2

-----------------------------------------------------------------------------
(* The effect of each step on the operations                               *)

Same(t) == op'[t].key = op[t].key /\ op'[t].by = op[t].by
Handed(t, f) ==
  IF t \in Workers THEN Same(t) /\ op'[t].pc = "found" /\ op'[t].file = f ELSE op'[t] = Idle
LEMMA OpenMoves ==
  ASSUME TypeOK, NEW t \in Threads
  PROVE  /\ OpenStep(t) => op[t].pc # "idle" /\ \A u \in Threads \ {t} : op'[u] = op[u]
         /\ Look(t) => /\ op[t].pc = "look" /\ UNCHANGED <<maps, text, blame>>
                       /\ op[t].file = None
                       /\ \/ Handed(t, files[op[t].key]) /\ files[op[t].key] # None
                          \/ Same(t) /\ op'[t].pc = "read" /\ op'[t].file = None
                             /\ files[op[t].key] = None
         /\ Read(t) => /\ op[t].pc = "read" /\ UNCHANGED <<maps, text, blame>>
                       /\ op[t].file = None
                       /\ \/ op'[t] = Idle
                          \/ Same(t) /\ op'[t].pc = "enter" /\ op'[t].file = None
         /\ EnterKnown(t) => /\ op[t].pc = "enter" /\ UNCHANGED <<maps, text>>
                             /\ op[t].file = None /\ files[op[t].key] # None
                             /\ Same(t) /\ op'[t].pc = "url" /\ op'[t].file = files[op[t].key]
         /\ EnterNew(t) => /\ op[t].pc = "enter" /\ UNCHANGED maps
                           /\ op[t].file = None /\ files[op[t].key] = None
                           /\ Same(t) /\ op'[t].pc = "bind" /\ op'[t].text = op[t].text
                           /\ op'[t].file \notin FileIds /\ op'[t].file # None
                           /\ op'[t].file \in FileIds' /\ text'[op'[t].file] = op[t].text
         /\ Bind(t) => /\ op[t].pc = "bind" /\ UNCHANGED <<urls, text>>
                       /\ Same(t) /\ op'[t].pc = "url" /\ op'[t].file = op[t].file
                       /\ \A k \in Keys :
                            files'[k] = IF k = op[t].key THEN op[t].file ELSE files[k]
         /\ Url(t) => /\ op[t].pc = "url" /\ UNCHANGED <<files, text, blame>>
                      /\ Handed(t, op[t].file) /\ urls' = urls \cup {op[t].file}
<1> DEFINE k == op[t].key
<1>1. op \in [Threads -> Ops] /\ op[t] \in Ops /\ files \in [Keys -> FileIds \cup {None}]
  BY DEF TypeOK
<1>2. OpenStep(t) => op[t].pc # "idle"
  BY DEF OpenStep, Look, Read, EnterKnown, EnterNew, Bind, Url
<1>3. ASSUME NEW o, Go(t, o)
      PROVE  op'[t] = o /\ \A u \in Threads \ {t} : op'[u] = op[u]
  BY <1>1, <1>3 DEF Go
<1>4. OpenStep(t) => \A u \in Threads \ {t} : op'[u] = op[u]
  BY <1>3 DEF OpenStep, Look, Found, Read, EnterKnown, EnterNew, Bind, Url
<1>5. op[t].pc \in {"look", "read", "enter"} => op[t].file = None
  BY DEF TypeOK, Shaped, Fits
<1>6. ASSUME Look(t)
      PROVE  /\ op[t].pc = "look" /\ UNCHANGED <<maps, text, blame>>
             /\ \/ Handed(t, files[k]) /\ files[k] # None
                \/ Same(t) /\ op'[t].pc = "read" /\ op'[t].file = None /\ files[k] = None
  <2>1. op'[t] = IF files[k] = None THEN [op[t] EXCEPT !.pc = "read"]
                 ELSE IF t \in Workers THEN [op[t] EXCEPT !.pc = "found", !.file = files[k]]
                 ELSE Idle
    BY <1>3, <1>6 DEF Look, Found
  <2>. QED BY <1>1, <1>5, <1>6, <2>1 DEF Look, Handed, history, Same, Ops
<1>7. ASSUME Read(t)
      PROVE  /\ op[t].pc = "read" /\ UNCHANGED <<maps, text, blame>>
             /\ \/ op'[t] = Idle
                \/ Same(t) /\ op'[t].pc = "enter" /\ op'[t].file = None
  <2>1. op'[t] = IF disk[k] = None THEN Idle
                 ELSE [op[t] EXCEPT !.pc = "enter", !.text = disk[k]]
    BY <1>3, <1>7 DEF Read
  <2>. QED BY <1>1, <1>5, <1>7, <2>1 DEF Read, history, Same, Ops
<1>8. ASSUME EnterKnown(t)
      PROVE  /\ op[t].pc = "enter" /\ UNCHANGED <<maps, text>> /\ files[k] # None
             /\ Same(t) /\ op'[t].pc = "url" /\ op'[t].file = files[k]
  <2>1. op'[t] = [op[t] EXCEPT !.pc = "url", !.file = files[k]]
    BY <1>3, <1>8 DEF EnterKnown
  <2>. QED BY <1>1, <1>8, <2>1 DEF EnterKnown, Same, Ops
<1>9. ASSUME EnterNew(t)
      PROVE  /\ op[t].pc = "enter" /\ UNCHANGED maps /\ files[k] = None
             /\ Same(t) /\ op'[t].pc = "bind" /\ op'[t].text = op[t].text
             /\ op'[t].file \notin FileIds /\ op'[t].file # None
             /\ op'[t].file \in FileIds' /\ text'[op'[t].file] = op[t].text
  <2>1. op'[t] = [op[t] EXCEPT !.pc = "bind", !.file = Len(text')]
    BY <1>3, <1>9 DEF EnterNew
  <2>2. text' = Append(text, op[t].text) /\ text \in Seq(Nat) /\ op[t].text \in Nat
    BY <1>9, StepFacts DEF EnterNew, TypeOK
  <2>3. /\ Len(text') = Len(text) + 1 /\ Len(text) \in Nat /\ text' \in Seq(Nat)
        /\ text'[Len(text) + 1] = op[t].text
    BY <2>2, AppendProperties
  <2>4. /\ Len(text') \notin FileIds /\ Len(text') # None
        /\ Len(text') \in FileIds' /\ text'[Len(text')] = op[t].text
    BY <2>2, <2>3, WorkspaceAssumption DEF FileIds
  <2>. QED BY <1>1, <1>9, <2>1, <2>4 DEF EnterNew, Same, Ops
<1>10. ASSUME Bind(t)
       PROVE  /\ op[t].pc = "bind" /\ UNCHANGED <<urls, text>>
              /\ Same(t) /\ op'[t].pc = "url" /\ op'[t].file = op[t].file
              /\ \A j \in Keys : files'[j] = IF j = k THEN op[t].file ELSE files[j]
  <2>1. op'[t] = [op[t] EXCEPT !.pc = "url"]
    BY <1>3, <1>10 DEF Bind
  <2>2. \A j \in Keys : files'[j] = IF j = k THEN op[t].file ELSE files[j]
    BY <1>1, <1>10 DEF Bind
  <2>. QED BY <1>1, <1>10, <2>1, <2>2 DEF Bind, Same, Ops
<1>11. ASSUME Url(t)
       PROVE  /\ op[t].pc = "url" /\ UNCHANGED <<files, text, blame>>
              /\ Handed(t, op[t].file) /\ urls' = urls \cup {op[t].file}
  <2>1. op'[t] = IF t \in Workers THEN [op[t] EXCEPT !.pc = "found", !.file = op[t].file]
                 ELSE Idle
    BY <1>3, <1>11 DEF Url, Found
  <2>. QED BY <1>1, <1>11, <2>1 DEF Url, Handed, Same, Ops, history
<1>. QED BY <1>2, <1>4, <1>5, <1>6, <1>7, <1>8, <1>9, <1>10, <1>11

(* What any of these steps leaves alone.                                   *)
LEMMA OpenEffect ==
  ASSUME TypeOK, NEW t \in Threads, OpenStep(t)
  PROVE  /\ UNCHANGED <<client, queues, touched>>
         /\ \A k \in Keys : k # op[t].key => files'[k] = files[k] /\ blame'[k] = blame[k]
         /\ FileIds \subseteq FileIds' /\ \A f \in FileIds : text'[f] = text[f]
<1> DEFINE k == op[t].key
<1>1. UNCHANGED <<client, queues, touched>>
  BY DEF OpenStep, Look, Read, EnterKnown, EnterNew, Bind, Url, history
<1>2. \A j \in Keys : j # k => files'[j] = files[j] /\ blame'[j] = blame[j]
  BY DEF OpenStep, Look, Read, EnterKnown, EnterNew, Bind, Url, history, maps, TypeOK
<1>3. FileIds \subseteq FileIds' /\ \A f \in FileIds : text'[f] = text[f]
  <2>1. CASE EnterNew(t)
    <3>1. text' = Append(text, op[t].text) /\ op[t].text \in Nat /\ text \in Seq(Nat)
      BY <2>1, StepFacts DEF EnterNew, TypeOK
    <3>2. /\ Len(text') = Len(text) + 1 /\ text' \in Seq(Nat) /\ Len(text) \in Nat
          /\ \A f \in 1..Len(text) : text'[f] = text[f]
      BY <3>1, AppendProperties
    <3>. QED BY <3>1, <3>2 DEF FileIds
  <2>2. CASE UNCHANGED text
    BY <2>2 DEF FileIds
  <2>. QED BY <2>1, <2>2 DEF OpenStep, Look, Read, EnterKnown, Bind, Url
<1>. QED BY <1>1, <1>2, <1>3

-----------------------------------------------------------------------------
(* Who has which File *)

LEMMA OwnedInit == Init => Owned
BY WorkspaceAssumption DEF Init, Owned, Threads, Idle, Op, Registered

LEMMA OwnedOpen ==
  ASSUME TypeOK, Owned, NEW t \in Threads, OpenStep(t) PROVE Owned'
<1> DEFINE k == op[t].key
<1>1. op[t].pc # "idle" /\ \A u \in Threads \ {t} : op'[u] = op[u]
  BY OpenMoves
<1>2. k \in Keys /\ files[k] \in FileIds \cup {None} /\ None \notin FileIds
  BY <1>1, StepFacts
<1>3. \A u \in Threads : op[u].file \in FileIds \cup {None}
  <2>1. ASSUME NEW u \in Threads PROVE op[u].file \in FileIds \cup {None}
    BY DEF TypeOK, Shaped, Fits, Ops, MainSteps, Steps, Idle, Op
  <2>. QED BY <2>1
<1>4. files \in [Keys -> FileIds \cup {None}] /\ Main \in Threads
  BY DEF TypeOK, Threads
<1>5. CASE (Look(t) \/ Read(t) \/ Url(t)) /\ op'[t].file \in {op[t].file, None}
  <2>1. /\ UNCHANGED files /\ op'[t].pc \notin {"bind", "set"}
        /\ op'[t].file = None \/ (op'[t].file = op[t].file /\ op'[t].key = k)
    BY <1>5, OpenMoves DEF Idle, Op, Handed, Same, maps
  <2>2. \A u \in Threads, j \in Keys :
          op'[u].file # None /\ files'[j] = op'[u].file => op'[u].key = j
    BY <1>1, <2>1 DEF Owned
  <2>3. \A u \in Threads : /\ op'[u].file \in {op[u].file, None}
                           /\ op'[u].pc \in {"bind", "set"} => op[u] = op'[u]
    BY <1>1, <2>1
  <2>4. None \notin Registered /\ Registered' = Registered
    BY <1>2, <2>1 DEF Registered
  <2>5. \A u \in Threads : op[u].pc = "bind" => op[u].file \in FileIds
    BY StepFacts
  <2>6. \A j, l \in Keys : files'[j] = files'[l] /\ files'[l] # None => j = l
    BY <2>1 DEF Owned
  <2>7. ASSUME NEW u \in Threads, op'[u].pc = "bind"
        PROVE  /\ op'[u].file \notin Registered'
               /\ \A v \in Threads \ {u} : op'[v].file # op'[u].file
    BY <1>2, <2>3, <2>4, <2>5, <2>7 DEF Owned
  <2>8. op'[Main].pc = "set" /\ op'[Main].by = "delete" => op'[Main].file \notin Registered'
    BY <1>4, <2>3, <2>4 DEF Owned
  <2>. QED BY <2>2, <2>6, <2>7, <2>8 DEF Owned
<1>6. CASE (Look(t) \/ EnterKnown(t)) /\ op'[t].file \notin {op[t].file, None}
  <2>1. /\ UNCHANGED files /\ files[k] # None
        /\ op'[t].file = files[k] /\ op'[t].key = k /\ op'[t].pc \in {"url", "found"}
    BY <1>6, OpenMoves DEF Same, Handed, Idle, Op, maps
  <2>2. files[k] \in Registered
    BY <1>2, <2>1 DEF Registered
  <2>. QED BY <1>1, <1>2, <1>4, <2>1, <2>2 DEF Owned, Registered
<1>7. CASE EnterNew(t)
  <2>1. /\ UNCHANGED files
        /\ op'[t].file \notin FileIds /\ op'[t].file # None
        /\ op'[t].key = k /\ op'[t].pc = "bind"
    BY <1>7, OpenMoves DEF Same, maps
  <2>2. Registered' = Registered /\ Registered \subseteq FileIds
    BY <1>4, <2>1 DEF Registered
  <2>3. \A u \in Threads, j \in Keys :
          op'[u].file # None /\ files'[j] = op'[u].file => op'[u].key = j
    BY <1>1, <1>4, <2>1 DEF Owned
  <2>4. ASSUME NEW u \in Threads, op'[u].pc = "bind"
        PROVE  /\ op'[u].file \notin Registered'
               /\ \A v \in Threads \ {u} : op'[v].file # op'[u].file
    <3>1. CASE u = t
      BY <1>1, <1>3, <2>1, <2>2, <3>1
    <3>2. CASE u # t
      BY <1>1, <1>3, <2>1, <2>2, <2>4, <3>2, <1>2, StepFacts DEF Owned
    <3>. QED BY <3>1, <3>2
  <2>5. op'[Main].pc = "set" /\ op'[Main].by = "delete" => op'[Main].file \notin Registered'
    BY <1>1, <1>4, <2>1, <2>2 DEF Owned
  <2>6. \A j, l \in Keys : files'[j] = files'[l] /\ files'[l] # None => j = l
    BY <2>1 DEF Owned
  <2>. QED BY <2>3, <2>4, <2>5, <2>6 DEF Owned
<1>8. CASE Bind(t)
  <2>1. /\ op[t].pc = "bind"
        /\ op'[t].file = op[t].file /\ op'[t].key = k /\ op'[t].pc = "url"
        /\ \A j \in Keys : files'[j] = IF j = k THEN op[t].file ELSE files[j]
    BY <1>8, OpenMoves DEF Same
  <2>3. op[t].file \notin Registered /\ op[t].file \in FileIds
        /\ \A u \in Threads \ {t} : op[u].file # op[t].file
    BY <1>1, <2>1, StepFacts DEF Owned
  <2>4. \A j, l \in Keys : files'[j] = files'[l] /\ files'[l] # None => j = l
    BY <1>2, <2>1, <2>3 DEF Owned, Registered
  <2>5. \A u \in Threads, j \in Keys :
          op'[u].file # None /\ files'[j] = op'[u].file => op'[u].key = j
    BY <1>1, <1>2, <2>1, <2>3 DEF Owned, Registered
  <2>6. Registered' \subseteq Registered \cup {op[t].file}
    BY <1>2, <2>1 DEF Registered
  <2>7. ASSUME NEW u \in Threads, op'[u].pc = "bind"
        PROVE  /\ op'[u].file \notin Registered'
               /\ \A v \in Threads \ {u} : op'[v].file # op'[u].file
    BY <1>1, <2>1, <2>3, <2>6, <2>7 DEF Owned
  <2>8. op'[Main].pc = "set" /\ op'[Main].by = "delete" => op'[Main].file \notin Registered'
    BY <1>1, <1>4, <2>1, <2>3, <2>6 DEF Owned
  <2>. QED BY <2>4, <2>5, <2>7, <2>8 DEF Owned
<1>9. op'[t].file \in {op[t].file, None} => ~ EnterKnown(t)
  BY <1>2, OpenMoves
<1>10. op'[t].file \notin {op[t].file, None} => ~ Read(t) /\ ~ Url(t)
  BY OpenMoves DEF Handed, Idle, Op
<1>. QED BY <1>5, <1>6, <1>7, <1>8, <1>9, <1>10 DEF OpenStep

LEMMA OwnedTake ==
  ASSUME TypeOK, Owned, TakeOpen \/ TakeWatch \/ TakeChange \/ TakeDelete \/ TakeLoad
  PROVE  Owned'
<1> DEFINE m == Head(inbox)
<1>1. PICK kind : Take(kind)
  BY Taken
<1>2. m \in Sent /\ op[Main] = Idle /\ m.key \in Keys
  BY <1>1, TakeFacts DEF Sent
<1>3. /\ UNCHANGED files /\ op \in [Threads -> Ops] /\ Main \in Threads
      /\ files[m.key] \in FileIds \cup {None} /\ None \notin FileIds
  BY SMTT(30), <1>2, Taken, WorkspaceAssumption DEF maps, TypeOK, Threads, FileIds
<1>4. \/ op' = op
      \/ /\ \A u \in Threads \ {Main} : op'[u] = op[u]
         /\ op'[Main].key = m.key
         /\ op'[Main].pc # "bind" /\ (op'[Main].pc = "set" => op'[Main].by # "delete")
         /\ op'[Main].file \in {None, files[m.key]}
  <2>1. CASE TakeOpen
    BY <1>3, <2>1 DEF TakeOpen, Sync, Go, Op
  <2>2. CASE TakeWatch
    BY <1>3, <2>2 DEF TakeWatch, Sync, Go, Op
  <2>3. CASE TakeChange
    BY <1>3, <2>3 DEF TakeChange, Go, Op
  <2>4. CASE TakeDelete
    BY <1>3, <2>4 DEF TakeDelete, Go, Op
  <2>5. CASE TakeLoad
    BY <1>3, <2>5 DEF TakeLoad, Go, Op
  <2>. QED BY <2>1, <2>2, <2>3, <2>4, <2>5
<1>. QED BY <1>2, <1>3, <1>4 DEF Owned, Registered, Idle, Op

LEMMA OwnedMain ==
  ASSUME TypeOK, Owned, RemoveUrl \/ RemoveFile \/ SetText PROVE Owned'
<1> DEFINE k == op[Main].key
           f == op[Main].file
<1>1. op[Main].pc # "idle" /\ Main \in Threads /\ op[Main].pc \in {"set", "unurl", "unbind"}
  BY DEF RemoveUrl, RemoveFile, SetText, Threads
<1>2. /\ op[Main] \in Ops /\ k \in Keys /\ f \in FileIds /\ None \notin FileIds
      /\ op \in [Threads -> Ops] /\ files \in [Keys -> FileIds \cup {None}]
  BY <1>1, StepFacts DEF TypeOK
<1>3. CASE RemoveUrl \/ SetText
  <2>1. /\ UNCHANGED files /\ \A u \in Threads \ {Main} : op'[u] = op[u]
        /\ op'[Main].pc \notin {"bind", "set"}
        /\ (op'[Main].file = None \/ (op'[Main].file = f /\ op'[Main].key = k))
    <3>1. CASE RemoveUrl
      <4>1. op' = [op EXCEPT ![Main] = [op[Main] EXCEPT !.pc = "unbind"]] /\ UNCHANGED files
        BY <3>1 DEF RemoveUrl, Go
      <4>2. op'[Main] = [op[Main] EXCEPT !.pc = "unbind"]
        BY <1>1, <1>2, <4>1
      <4>3. op'[Main].pc = "unbind" /\ op'[Main].file = f /\ op'[Main].key = k
        BY <1>2, <4>2 DEF Ops
      <4>4. \A u \in Threads \ {Main} : op'[u] = op[u]
        BY <1>2, <4>1
      <4>. QED BY <4>1, <4>3, <4>4
    <3>2. CASE SetText
      BY <1>1, <1>2, <3>2 DEF SetText, Go, Idle, Op, maps
    <3>. QED BY <1>3, <3>1, <3>2
  <2>2. \A u \in Threads, j \in Keys :
          op'[u].file # None /\ files'[j] = op'[u].file => op'[u].key = j
    BY <1>1, <2>1 DEF Owned
  <2>3. \A u \in Threads : /\ op'[u].file \in {op[u].file, None}
                           /\ op'[u].pc = "bind" => op[u] = op'[u]
    BY <2>1
  <2>4. None \notin Registered /\ Registered \subseteq FileIds /\ Registered' = Registered
    BY <1>2, <2>1 DEF Registered
  <2>5. \A u \in Threads : op[u].pc = "bind" => op[u].file \in FileIds
    BY StepFacts
  <2>. QED BY <1>1, <1>2, <2>1, <2>2, <2>3, <2>4, <2>5 DEF Owned
<1>4. CASE RemoveFile
  <2>1. /\ \A u \in Threads \ {Main} : op'[u] = op[u]
        /\ op'[Main].pc = "set" /\ op'[Main].file = f /\ op'[Main].key = k
        /\ \A j \in Keys : files'[j] = IF j = k THEN None ELSE files[j]
    BY <1>1, <1>2, <1>4 DEF RemoveFile, Go, Ops
  <2>2. f \notin Registered' /\ Registered' \subseteq Registered
    BY <1>1, <1>2, <2>1 DEF Owned, Registered
  <2>3. \A u \in Threads, j \in Keys :
          op'[u].file # None /\ files'[j] = op'[u].file => op'[u].key = j
    BY <1>1, <1>2, <2>1 DEF Owned
  <2>4. \A u \in Threads : op'[u].file = op[u].file /\ (op'[u].pc = "bind" => op[u].pc = "bind")
    BY <2>1
  <2>. QED BY <1>1, <2>1, <2>2, <2>3, <2>4 DEF Owned
<1>. QED BY <1>3, <1>4

LEMMA OwnedStep == TypeOK /\ Owned /\ [Next]_vars => Owned'
<1> SUFFICES ASSUME TypeOK, Owned, [Next]_vars PROVE Owned'
  OBVIOUS
<1>1. CASE UNCHANGED <<maps, op>>
  BY <1>1 DEF maps, Owned, Registered
<1>2. ASSUME NEW w \in Workers, NEW k \in Keys, Resolve(w, k) PROVE Owned'
  <2>1. /\ op[w] = Idle /\ w # Main /\ w \in Threads /\ UNCHANGED files
        /\ op' = [op EXCEPT ![w] = Op("look", "worker", k, None, None)]
        /\ op \in [Threads -> Ops]
    BY <1>2, WorkspaceAssumption DEF Resolve, Go, maps, Threads, TypeOK
  <2>2. /\ \A u \in Threads : op'[u].file = op[u].file
        /\ \A u \in Threads : op[u].file # None => op'[u].key = op[u].key
        /\ \A u \in Threads : op'[u].pc = "bind" => op[u].pc = "bind"
        /\ op'[Main] = op[Main]
    BY <2>1 DEF Idle, Op, Threads
  <2>. QED BY <2>1, <2>2 DEF Owned, Registered
<1>3. CASE ClientStep
  BY <1>1, <1>3 DEF ClientStep, ClientOpen, ClientEdit, ClientClose, ClientSave, ClientRemove,
                    ClientNotify, ClientConfigure
<1>5. ASSUME NEW w \in Workers, Answer(w) PROVE Owned'
  <2>1. /\ w \in Threads /\ op'[w] = Idle /\ op'[Main] = op[Main] /\ UNCHANGED files
        /\ \A u \in Threads \ {w} : op'[u] = op[u]
    BY <1>5, AnswerFacts DEF maps
  <2>2. /\ \A u \in Threads : op'[u].file \in {op[u].file, None}
        /\ \A u \in Threads : op'[u].file # None => op'[u] = op[u]
        /\ \A u \in Threads : op'[u].pc = "bind" => op'[u] = op[u]
    BY <2>1 DEF Idle, Op
  <2>3. \A u \in Threads : op[u].pc = "bind" => op[u].file # None
    BY StepFacts
  <2>. QED BY <2>1, <2>2, <2>3 DEF Owned, Registered
<1>4. CASE Next
  BY <1>2, <1>3, <1>4, <1>5, OwnedOpen, OwnedTake, OwnedMain DEF Next, MainStep
<1>. QED BY <1>1, <1>4 DEF vars

-----------------------------------------------------------------------------
(* Registered Files and their urls *)

LEMMA HasUrlInit == Init => HasUrl
BY DEF Init, HasUrl, Registered

(* A File is between its two accesses from when it is registered until it  *)
(* has a url, and from when its url is removed until it is forgotten.      *)
LEMMA HasUrlStep == TypeOK /\ Owned /\ HasUrl /\ [Next]_vars => HasUrl'
<1> SUFFICES ASSUME TypeOK, Owned, HasUrl, [Next]_vars PROVE HasUrl'
  OBVIOUS
<1>1. CASE UNCHANGED <<maps, op>>
  BY <1>1 DEF maps, HasUrl, Registered
<1>2. ASSUME NEW t \in Threads, Registered' \subseteq Registered, urls \subseteq urls',
             \A u \in Threads \ {t} : op'[u] = op[u],
             \/ op[t].pc \notin {"url", "unbind"}
             \/ op[t].file \in urls' \/ op[t].file \notin Registered'
      PROVE  HasUrl'
  <2> SUFFICES ASSUME NEW f \in Registered' \ urls'
               PROVE  \E u \in Threads : op'[u].file = f /\ op'[u].pc \in {"url", "unbind"}
    BY DEF HasUrl
  <2>1. PICK u \in Threads : op[u].file = f /\ op[u].pc \in {"url", "unbind"}
    BY <1>2 DEF HasUrl
  <2>2. u # t
    BY <1>2, <2>1
  <2>. QED BY <1>2, <2>1, <2>2
<1>3. ASSUME NEW t \in Threads, OpenStep(t) PROVE HasUrl'
  <2>1. \A u \in Threads \ {t} : op'[u] = op[u]
    BY <1>3, OpenMoves
  <2>2. CASE Look(t) \/ Read(t) \/ EnterKnown(t) \/ EnterNew(t)
    <3>1. op[t].pc \notin {"url", "unbind"} /\ UNCHANGED maps
      BY <2>2, OpenMoves
    <3>. QED BY <1>2, <2>1, <3>1 DEF maps, Registered
  <2>3. CASE Bind(t)
    <3>1. /\ op[t].pc = "bind" /\ UNCHANGED urls
          /\ op'[t].pc = "url" /\ op'[t].file = op[t].file
          /\ \A k \in Keys : files'[k] = IF k = op[t].key THEN op[t].file ELSE files[k]
      BY <2>3, OpenMoves
    <3>2. Registered' \subseteq Registered \cup {op[t].file}
      BY <3>1 DEF Registered
    <3> SUFFICES ASSUME NEW f \in Registered' \ urls'
                 PROVE  \E u \in Threads : op'[u].file = f /\ op'[u].pc \in {"url", "unbind"}
      BY DEF HasUrl
    <3>3. CASE f = op[t].file
      BY <3>1, <3>3
    <3>4. CASE f # op[t].file
      <4>1. PICK u \in Threads : op[u].file = f /\ op[u].pc \in {"url", "unbind"}
        BY <3>1, <3>2, <3>4 DEF HasUrl
      <4>. QED BY <2>1, <3>4, <4>1
    <3>. QED BY <3>3, <3>4
  <2>4. CASE Url(t)
    <3>1. UNCHANGED files /\ urls' = urls \cup {op[t].file}
      BY <2>4, OpenMoves
    <3>. QED BY <1>2, <2>1, <3>1 DEF Registered
  <2>. QED BY <1>3, <2>2, <2>3, <2>4 DEF OpenStep
<1>4. CASE TakeOpen \/ TakeWatch \/ TakeChange \/ TakeDelete \/ TakeLoad
  <2>1. /\ UNCHANGED maps /\ op[Main] = Idle /\ Main \in Threads
        /\ \A u \in Threads \ {Main} : op'[u] = op[u]
    BY <1>4, Taken, TakeFacts DEF Threads, Go, TypeOK
  <2>. QED BY <1>2, <2>1 DEF maps, Registered, Idle, Op
<1>5. CASE RemoveUrl
  <2> DEFINE f == op[Main].file
  <2>1. /\ op[Main].pc = "unurl" /\ Main \in Threads /\ op[Main] \in Ops
        /\ op' = [op EXCEPT ![Main] = [op[Main] EXCEPT !.pc = "unbind"]]
        /\ urls' = urls \ {f} /\ UNCHANGED files
    BY <1>5 DEF RemoveUrl, Go, Threads, TypeOK
  <2>2. op'[Main].pc = "unbind" /\ op'[Main].file = f
    BY <2>1 DEF TypeOK, Ops
  <2>3. \A u \in Threads \ {Main} : op'[u] = op[u]
    BY <2>1 DEF TypeOK
  <2> SUFFICES ASSUME NEW g \in Registered' \ urls', g # f
               PROVE  \E u \in Threads : op'[u].file = g /\ op'[u].pc \in {"url", "unbind"}
    BY <2>1, <2>2 DEF HasUrl
  <2>4. PICK u \in Threads : op[u].file = g /\ op[u].pc \in {"url", "unbind"}
    BY <2>1 DEF HasUrl, Registered
  <2>. QED BY <2>1, <2>3, <2>4
<1>6. CASE RemoveFile
  <2>1. /\ op[Main].pc = "unbind" /\ Main \in Threads
        /\ files' = [files EXCEPT ![op[Main].key] = None] /\ UNCHANGED urls
        /\ \A u \in Threads \ {Main} : op'[u] = op[u]
    BY <1>6 DEF RemoveFile, Go, Threads, TypeOK
  <2>2. op[Main].file \in FileIds /\ op[Main].key \in Keys /\ None \notin FileIds
    BY <2>1, StepFacts
  <2>3. \A k \in Keys : files'[k] = IF k = op[Main].key THEN None ELSE files[k]
    BY <2>1, <2>2 DEF TypeOK
  <2>4. Registered' \subseteq Registered
    BY <2>3 DEF Registered
  <2>5. op[Main].file \notin Registered'
    BY <2>1, <2>2, <2>3 DEF Owned, Registered
  <2>. QED BY <1>2, <2>1, <2>4, <2>5
<1>7. CASE SetText
  <2>1. /\ op[Main].pc = "set" /\ Main \in Threads /\ UNCHANGED maps
        /\ \A u \in Threads \ {Main} : op'[u] = op[u]
    BY <1>7 DEF SetText, Go, Threads, TypeOK
  <2>. QED BY <1>2, <2>1 DEF maps, Registered
<1>8. ASSUME NEW w \in Workers, NEW k \in Keys, Resolve(w, k) PROVE HasUrl'
  <2>1. /\ op[w] = Idle /\ w \in Threads /\ UNCHANGED maps
        /\ \A u \in Threads \ {w} : op'[u] = op[u]
    BY <1>8 DEF Resolve, Go, Threads, TypeOK
  <2>. QED BY <1>2, <2>1 DEF maps, Registered, Idle, Op
<1>9. CASE ClientStep
  BY <1>1, <1>9 DEF ClientStep, ClientOpen, ClientEdit, ClientClose, ClientSave, ClientRemove,
                    ClientNotify, ClientConfigure
<1>10. ASSUME NEW w \in Workers, Answer(w) PROVE HasUrl'
  <2>1. /\ op[w].pc = "found" /\ w \in Threads /\ UNCHANGED maps
        /\ \A u \in Threads \ {w} : op'[u] = op[u]
    BY <1>10, AnswerFacts
  <2>. QED BY <1>2, <2>1 DEF maps, Registered
<1>. QED BY <1>1, <1>3, <1>4, <1>5, <1>6, <1>7, <1>8, <1>9, <1>10 DEF Next, MainStep, vars

-----------------------------------------------------------------------------
(* The Files that handlers were given and their urls *)

LEMMA GivenInit == Init => Given
BY DEF Init, Given, Threads, Idle, Op

(* A handler is given a registered File, which has its url or is excused.  *)
(* The excuse lasts until the File has its url, or until every handler has *)
(* ended.                                                                  *)
LEMMA GivenStep == TypeOK /\ HasUrl /\ Given /\ [Next]_vars => Given'
<1> SUFFICES ASSUME TypeOK, HasUrl, Given, [Next]_vars PROVE Given'
  OBVIOUS
<1>0. Main \in Threads /\ Main \notin Workers /\ Workers \subseteq Threads
  BY WorkspaceAssumption DEF Threads
<1>1. ASSUME NEW t \in Threads, \A u \in Threads \ {t} : op'[u] = op[u], urls \subseteq urls',
             \/ op[t].pc \notin {"url", "unbind", "set"}
             \/ (op[t].pc = "url" /\ op[t].file \in urls')
             \/ (Same(t) /\ op'[t].file = op[t].file /\ op[t].pc = "unbind" /\ op'[t].pc = "set"),
             \/ t = Main \/ op'[t].pc # "found"
             \/ op'[t].file \in Registered \cup urls'
      PROVE  Given'
  <2> SUFFICES ASSUME NEW w \in Workers, op'[w].pc = "found", op'[w].file \notin urls'
               PROVE  Excused(op[w].file)'
    BY DEF Given
  <2>1. PICK f : f = op'[w].file
    OBVIOUS
  <2>6. Excused(f)' => Excused(op[w].file)'
    BY <2>1 DEF Excused, Registering, Deleting
  <2>2. Excused(f)
    <3>1. CASE w # t
      BY <1>0, <1>1, <2>1, <3>1 DEF Given
    <3>2. CASE w = t
      <4>1. f \in Registered \ urls
        BY <1>0, <1>1, <2>1, <3>2
      <4>2. PICK u \in Threads : op[u].file = f /\ op[u].pc \in {"url", "unbind"}
        BY <4>1 DEF HasUrl
      <4>3. op[u].pc = "unbind" => u = Main /\ op[u].by = "delete"
        BY <1>0, <4>2 DEF TypeOK, Shaped, Fits, Threads, Steps
      <4>. QED BY <4>2, <4>3 DEF Excused, Registering, Deleting
    <3>. QED BY <3>1, <3>2
  <2>3. f \notin urls'
    BY <2>1
  <2>4. CASE Registering(f)
    <3>1. PICK u \in Threads : op[u].file = f /\ op[u].pc = "url"
      BY <2>4 DEF Registering
    <3>2. op'[u] = op[u]
      BY <1>1, <2>3, <3>1
    <3>. QED BY <2>6, <3>1, <3>2 DEF Excused, Registering
  <2>5. CASE Deleting(f) /\ op[Main].pc \in {"unbind", "set"}
    <3>1. CASE op'[Main] = op[Main]
      BY <2>5, <2>6, <3>1 DEF Excused, Deleting
    <3>2. CASE t = Main
      BY <1>1, <2>5, <2>6, <3>2 DEF Excused, Deleting, Same
    <3>. QED BY <1>0, <1>1, <3>1, <3>2
  <2>. QED BY <2>2, <2>4, <2>5 DEF Excused
<1>2. CASE UNCHANGED <<maps, op>>
  BY <1>2 DEF maps, Given, Excused, Registering, Deleting
<1>3. ASSUME NEW t \in Threads, OpenStep(t) PROVE Given'
  <2>1. \A u \in Threads \ {t} : op'[u] = op[u]
    BY <1>3, OpenMoves
  <2>2. CASE Read(t) \/ EnterKnown(t) \/ EnterNew(t) \/ Bind(t)
    BY <1>1, <2>1, <2>2, OpenMoves DEF maps, Idle, Op
  <2>3. CASE Look(t)
    <3>1. /\ op[t].pc = "look" /\ op[t].file = None /\ UNCHANGED maps
          /\ \/ op'[t].pc # "found"
             \/ op'[t].file = files[op[t].key] /\ files[op[t].key] # None
      BY <2>3, OpenMoves DEF Handed, Idle, Op
    <3>2. op[t].key \in Keys
      BY <3>1, StepFacts
    <3>. QED BY <1>1, <2>1, <3>1, <3>2 DEF maps, Registered
  <2>4. CASE Url(t)
    <3>1. /\ op[t].pc = "url" /\ urls' = urls \cup {op[t].file}
          /\ op'[t].pc # "found" \/ op'[t].file = op[t].file
      BY <2>4, OpenMoves DEF Handed, Idle, Op
    <3>. QED BY <1>1, <2>1, <3>1
  <2>. QED BY <1>3, <2>2, <2>3, <2>4 DEF OpenStep
<1>4. CASE TakeOpen \/ TakeWatch \/ TakeChange \/ TakeDelete \/ TakeLoad
  <2>1. /\ UNCHANGED maps /\ op[Main] = Idle
        /\ \A u \in Threads \ {Main} : op'[u] = op[u]
    BY <1>0, <1>4, Taken, TakeFacts DEF Go, TypeOK
  <2>. QED BY <1>0, <1>1, <2>1 DEF maps, Idle, Op
<1>5. CASE RemoveUrl
  <2> DEFINE f == op[Main].file
  <2>1. /\ op[Main].pc = "unurl" /\ op[Main] \in Ops /\ op[Main].by = "delete"
        /\ op' = [op EXCEPT ![Main] = [op[Main] EXCEPT !.pc = "unbind"]]
        /\ urls' = urls \ {f} /\ op \in [Threads -> Ops]
    BY <1>0, <1>5 DEF RemoveUrl, Go, TypeOK, Shaped, Fits
  <2>2. op'[Main].pc = "unbind" /\ op'[Main].file = f /\ op'[Main].by = "delete"
    BY <1>0, <2>1 DEF Ops
  <2>3. \A u \in Threads \ {Main} : op'[u] = op[u]
    BY <2>1
  <2> SUFFICES ASSUME NEW w \in Workers, op[w].pc = "found", op[w].file \notin urls'
               PROVE  Excused(op[w].file)'
    BY <1>0, <2>3 DEF Given
  <2>4. CASE op[w].file = f
    <3>1. op'[w].file = f
      BY <1>0, <2>3, <2>4
    <3>. QED BY <2>2, <3>1 DEF Excused, Deleting
  <2>5. CASE op[w].file # f
    <3>1. Registering(op[w].file)
      BY <2>1, <2>5 DEF Given, Excused, Deleting
    <3>2. PICK u \in Threads : op[u].file = op[w].file /\ op[u].pc = "url"
      BY <3>1 DEF Registering
    <3>3. op'[u] = op[u] /\ op'[w] = op[w]
      BY <1>0, <2>1, <2>3, <3>2
    <3>. QED BY <3>2, <3>3 DEF Excused, Registering
  <2>. QED BY <2>4, <2>5
<1>6. CASE RemoveFile
  <2>1. /\ op[Main].pc = "unbind" /\ UNCHANGED urls /\ op[Main] \in Ops
        /\ op \in [Threads -> Ops]
        /\ op' = [op EXCEPT ![Main] = [op[Main] EXCEPT !.pc = "set"]]
    BY <1>0, <1>6 DEF RemoveFile, Go, TypeOK
  <2>2. Same(Main) /\ op'[Main].file = op[Main].file /\ op'[Main].pc = "set"
    BY <1>0, <2>1 DEF Ops, Same
  <2>. QED BY <1>0, <1>1, <2>1, <2>2
<1>7. CASE SetText
  <2>1. \A w \in Workers : op'[w] = op[w] /\ op[w] = Idle
    BY <1>0, <1>7 DEF SetText, Go, TypeOK
  <2>. QED BY <2>1 DEF Given, Idle, Op
<1>8. ASSUME NEW w \in Workers, NEW k \in Keys, Resolve(w, k) PROVE Given'
  <2>1. /\ op[w] = Idle /\ w \in Threads /\ UNCHANGED maps /\ op'[w].pc = "look"
        /\ \A u \in Threads \ {w} : op'[u] = op[u]
    BY <1>8 DEF Resolve, Go, Op, Threads, TypeOK
  <2>. QED BY <1>1, <2>1 DEF maps, Idle, Op
<1>9. ASSUME NEW w \in Workers, Answer(w) PROVE Given'
  BY <1>1, <1>9, AnswerFacts DEF maps, Idle, Op
<1>10. CASE ClientStep
  BY <1>2, <1>10 DEF ClientStep, ClientOpen, ClientEdit, ClientClose, ClientSave, ClientRemove,
                     ClientNotify, ClientConfigure
<1>. QED BY <1>2, <1>3, <1>4, <1>5, <1>6, <1>7, <1>8, <1>9, <1>10 DEF Next, MainStep, vars

-----------------------------------------------------------------------------
(* What the main thread knows while it is alone with a path *)

LEMMA AloneInit == Init => Alone
BY WorkspaceAssumption DEF Init, Alone, Threads, Idle, Op, Registered

(* Client and message steps leave files, urls and blame as they are.       *)
LEMMA AloneOpen ==
  ASSUME TypeOK, Owned, Alone, NEW t \in Threads, OpenStep(t) PROVE Alone'
<1> DEFINE k == op[t].key
           K == op[Main].key
<1>1. /\ op[t].pc # "idle" /\ \A u \in Threads \ {t} : op'[u] = op[u]
      /\ Main \in Threads /\ Main \notin Workers /\ Workers \subseteq Threads
  BY OpenMoves, WorkspaceAssumption DEF Threads
<1>2. /\ k \in Keys /\ files[k] \in FileIds \cup {None} /\ None \notin FileIds
      /\ op[t].pc \notin {"set", "unurl", "unbind"}
  <2>1. op[t].pc \notin {"set", "unurl", "unbind"}
    BY DEF OpenStep, Look, Read, EnterKnown, EnterNew, Bind, Url
  <2>. QED BY <1>1, <2>1, StepFacts
<1>3. /\ touched' = touched
      /\ \A j \in Keys : j # k => files'[j] = files[j] /\ blame'[j] = blame[j]
  BY OpenEffect
<1>4. t # Main => k \in touched
  BY <1>1 DEF Alone, Threads
<1>5. op'[t] = Idle \/ Same(t)
  BY OpenMoves DEF OpenStep, Handed
<1>11. t = Main => op'[t].pc # "found"
  BY <1>1, OpenMoves DEF OpenStep, Handed, Idle, Op
<1>6. \A w \in Workers : op'[w].pc # "idle" => op'[w].key \in touched'
  BY <1>1, <1>3, <1>4, <1>5 DEF Alone, Same, Idle, Op
<1>7. ASSUME op'[Main].key \notin touched'
      PROVE  /\ op'[Main].pc \in {"read", "enter", "bind"} => files'[op'[Main].key] = None
             /\ op'[Main].pc \in {"url", "unurl", "unbind"} =>
                  files'[op'[Main].key] = op'[Main].file
  <2>1. CASE t = Main
    <3>1. CASE op'[t] = Idle
      BY <2>1, <3>1 DEF Idle, Op
    <3>2. CASE Same(t)
      <4>1. K \notin touched /\ op'[Main].key = K
        BY <1>3, <1>7, <2>1, <3>2 DEF Same
      <4>2. CASE Look(t) \/ Read(t) \/ EnterKnown(t) \/ EnterNew(t)
        BY <1>1, <2>1, <4>1, <4>2, OpenMoves DEF Alone, maps, Handed, Idle, Op
      <4>3. CASE Bind(t)
        BY <1>2, <2>1, <4>1, <4>3, OpenMoves
      <4>4. CASE Url(t)
        BY <1>1, <2>1, <4>4, OpenMoves DEF Handed, Idle, Op
      <4>. QED BY <4>2, <4>3, <4>4 DEF OpenStep
    <3>. QED BY <1>5, <3>1, <3>2
  <2>2. CASE t # Main
    <3>1. op'[Main] = op[Main] /\ K \notin touched /\ K # k
      BY <1>1, <1>3, <1>4, <1>7, <2>2
    <3>2. op[Main].pc # "idle" => files'[K] = files[K]
      BY <1>1, <1>3, <3>1, StepFacts
    <3>. QED BY <3>1, <3>2 DEF Alone
  <2>. QED BY <2>1, <2>2
<1>8. ASSUME touched' = {}
      PROVE  /\ urls' \subseteq Registered'
             /\ op'[Main].pc = "unbind" => op'[Main].file \notin urls'
  <2>1. t = Main /\ k \notin touched /\ urls \subseteq Registered
    BY <1>3, <1>4, <1>8 DEF Alone
  <2>2. CASE Look(t) \/ Read(t) \/ EnterKnown(t) \/ EnterNew(t)
    <3>1. UNCHANGED maps /\ op'[Main].pc # "unbind"
      BY <2>1, <2>2, OpenMoves DEF Handed, Idle, Op
    <3>. QED BY <2>1, <3>1 DEF maps, Registered
  <2>3. CASE Bind(t)
    <3>1. /\ op[t].pc = "bind" /\ UNCHANGED urls /\ op'[t].pc = "url"
          /\ \A j \in Keys : files'[j] = IF j = k THEN op[t].file ELSE files[j]
      BY <2>3, OpenMoves
    <3>2. files[k] = None
      BY <2>1, <3>1 DEF Alone
    <3>3. Registered \subseteq Registered'
      BY <3>1, <3>2, <1>2, StepFacts DEF Registered
    <3>. QED BY <2>1, <3>1, <3>3
  <2>4. CASE Url(t)
    <3>1. /\ op[t].pc = "url" /\ UNCHANGED files
          /\ op'[t].pc = "idle" /\ urls' = urls \cup {op[t].file}
      BY <1>1, <2>1, <2>4, OpenMoves DEF Handed, Idle, Op
    <3>2. op[t].file = files[k] /\ op[t].file # None
      BY <1>2, <2>1, <3>1, StepFacts DEF Alone
    <3>. QED BY <1>2, <2>1, <3>1, <3>2 DEF Registered
  <2>. QED BY <2>2, <2>3, <2>4 DEF OpenStep
<1>9. ASSUME NEW j \in Keys \ touched' PROVE blame'[j] \subseteq {"overwritten", "deleted"}
  <2>1. CASE j # k
    BY <1>3, <1>9, <2>1 DEF Alone
  <2>2. CASE j = k
    <3>1. t = Main /\ k \notin touched /\ blame[k] \subseteq {"overwritten", "deleted"}
      BY <1>3, <1>4, <1>9, <2>2 DEF Alone
    <3>2. CASE Look(t) \/ Read(t) \/ Url(t)
      BY <2>2, <3>1, <3>2, OpenMoves
    <3>3. ~ EnterKnown(t)
      BY <3>1, OpenMoves DEF Alone
    <3>4. CASE EnterNew(t)
      BY <1>2, <2>2, <3>1, <3>4 DEF EnterNew, TypeOK
    <3>5. CASE Bind(t)
      <4>1. files[k] = None
        BY <3>1, <3>5, OpenMoves DEF Alone
      <4>. QED BY <2>2, <3>1, <3>5, <4>1 DEF Bind
    <3>. QED BY <3>2, <3>3, <3>4, <3>5 DEF OpenStep
  <2>. QED BY <2>1, <2>2
<1>10. ASSUME op'[Main].pc = "set", op'[Main].by # "delete"
       PROVE  files'[op'[Main].key] = op'[Main].file \/ "rebound" \in blame'[op'[Main].key]
  <2>1. t # Main
    BY <1>1, <1>10, OpenMoves DEF OpenStep, Handed, Idle, Op
  <2>2. op'[Main] = op[Main] /\ K \in Keys /\ op[Main].file # None
    BY <1>1, <1>10, <2>1, StepFacts
  <2>3. CASE K # k
    BY <1>3, <1>10, <2>2, <2>3 DEF Alone
  <2>4. CASE K = k
    <3>1. CASE Bind(t)
      <4>1. files[k] # None => "rebound" \in blame'[k]
        BY <1>2, <3>1 DEF Bind, TypeOK
      <4>2. "rebound" \in blame[k] => "rebound" \in blame'[k]
        BY <1>2, <3>1 DEF Bind, TypeOK
      <4>. QED BY <1>10, <2>2, <2>4, <4>1, <4>2 DEF Alone
    <3>2. CASE Look(t) \/ Read(t) \/ EnterKnown(t) \/ EnterNew(t) \/ Url(t)
      <4>1. UNCHANGED files
        BY <3>2, OpenMoves DEF maps
      <4>2. op[t].by # "open"
        <5>1. op[t].by \in {"none", "worker"}
          BY <2>1 DEF TypeOK, Shaped, Fits, Threads
        <5>. QED BY <5>1
      <4>3. blame' = blame
        BY <3>2, <4>2, OpenMoves DEF EnterKnown, EnterNew
      <4>. QED BY <1>10, <2>2, <4>1, <4>3 DEF Alone
    <3>. QED BY <3>1, <3>2 DEF OpenStep
  <2>. QED BY <2>3, <2>4
<1>. QED BY <1>6, <1>7, <1>8, <1>9, <1>10 DEF Alone

(* What the main thread has in mind after taking a message.                *)
LEMMA TakeMoves ==
  ASSUME TypeOK, TakeOpen \/ TakeWatch \/ TakeChange \/ TakeDelete \/ TakeLoad
  PROVE  /\ op[Main] = Idle /\ Head(inbox) \in Sent
         /\ UNCHANGED <<client, events, maps, text, history>>
         /\ Main \in Threads /\ \A u \in Threads \ {Main} : op'[u] = op[u]
         /\ \/ op' = op
            \/ /\ op'[Main].key = Head(inbox).key
               /\ op'[Main].pc # "idle" /\ op'[Main].by = Head(inbox).kind
               /\ \/ /\ op'[Main].pc \in {"set", "unurl"}
                     /\ op'[Main].file = files[Head(inbox).key]
                     /\ files[Head(inbox).key] # None
                     /\ op'[Main].pc = "set" => op'[Main].by # "delete"
                  \/ op'[Main].pc = "enter" /\ files[Head(inbox).key] = None
                  \/ op'[Main].pc = "look"
<1> DEFINE m == Head(inbox)
<1>1. PICK kind : Take(kind)
  BY Taken
<1>2. m \in Sent /\ op[Main] = Idle
  BY <1>1, TakeFacts
<1>3. UNCHANGED <<client, events, maps, text, history>>
  BY Taken
<1>4. op \in [Threads -> Ops] /\ Main \in Threads
  BY DEF TypeOK, Threads
<1>5. \A u \in Threads \ {Main} : op'[u] = op[u]
  BY <1>4, Taken DEF Go
<1>6. ASSUME NEW o, Go(Main, o) PROVE op'[Main] = o
  BY <1>4, <1>6 DEF Go
<1>7. \/ op' = op
      \/ /\ op'[Main].key = m.key
         /\ op'[Main].pc # "idle" /\ op'[Main].by = m.kind
         /\ \/ /\ op'[Main].pc \in {"set", "unurl"}
               /\ op'[Main].file = files[m.key] /\ files[m.key] # None
               /\ op'[Main].pc = "set" => op'[Main].by # "delete"
            \/ op'[Main].pc = "enter" /\ files[m.key] = None
            \/ op'[Main].pc = "look"
  BY <1>6 DEF TakeOpen, TakeWatch, TakeChange, TakeDelete, TakeLoad, Take, Sync, Op
<1>. QED BY <1>2, <1>3, <1>4, <1>5, <1>7

(* What the main thread does when it serves a message.                     *)
LEMMA MainMoves ==
  ASSUME TypeOK, RemoveUrl \/ RemoveFile \/ SetText
  PROVE  /\ UNCHANGED <<client, queues, touched>>
         /\ Main \in Threads /\ \A u \in Threads \ {Main} : op'[u] = op[u]
         /\ RemoveUrl => /\ op[Main].pc = "unurl" /\ UNCHANGED <<files, text, blame>>
                         /\ urls' = urls \ {op[Main].file}
                         /\ Same(Main) /\ op'[Main].pc = "unbind"
                         /\ op'[Main].file = op[Main].file
         /\ RemoveFile => /\ op[Main].pc = "unbind" /\ UNCHANGED <<urls, text>>
                          /\ Same(Main) /\ op'[Main].pc = "set"
                          /\ op'[Main].file = op[Main].file
                          /\ \A j \in Keys :
                               /\ files'[j] = IF j = op[Main].key THEN None ELSE files[j]
                               /\ blame'[j] = IF j = op[Main].key /\ editor[j] # None
                                              THEN blame[j] \cup {"deleted"} ELSE blame[j]
         /\ SetText => /\ op[Main].pc = "set" /\ UNCHANGED maps /\ op'[Main] = Idle
                       /\ \A w \in Workers : op[w] = Idle
                       /\ \A g \in FileIds :
                            text'[g] = IF g = op[Main].file THEN op[Main].text ELSE text[g]
                       /\ \A j \in Keys :
                            /\ j # op[Main].key => blame'[j] = blame[j]
                            /\ \/ blame'[j] = blame[j]
                               \/ blame'[j] = {} /\ op[Main].by = "open"
                               \/ blame'[j] = blame[j] \cup {"overwritten"}
<1> DEFINE k == op[Main].key
           f == op[Main].file
<1>1. /\ op \in [Threads -> Ops] /\ Main \in Threads /\ op[Main] \in Ops
      /\ files \in [Keys -> FileIds \cup {None}] /\ blame \in [Keys -> SUBSET Causes]
      /\ text \in Seq(Nat)
  BY DEF TypeOK, Threads
<1>2. ASSUME NEW o, Go(Main, o)
      PROVE  op'[Main] = o /\ \A u \in Threads \ {Main} : op'[u] = op[u]
  BY <1>1, <1>2 DEF Go
<1>3. /\ UNCHANGED <<client, queues, touched>> /\ \A u \in Threads \ {Main} : op'[u] = op[u]
  BY <1>2 DEF RemoveUrl, RemoveFile, SetText, history
<1>4. ASSUME RemoveUrl
      PROVE  /\ op[Main].pc = "unurl" /\ UNCHANGED <<files, text, blame>>
             /\ urls' = urls \ {f}
             /\ Same(Main) /\ op'[Main].pc = "unbind" /\ op'[Main].file = f
  <2>1. op'[Main] = [op[Main] EXCEPT !.pc = "unbind"]
    BY <1>2, <1>4 DEF RemoveUrl
  <2>. QED BY <1>1, <1>4, <2>1 DEF RemoveUrl, history, Same, Ops
<1>5. ASSUME RemoveFile
      PROVE  /\ op[Main].pc = "unbind" /\ UNCHANGED <<urls, text>>
             /\ Same(Main) /\ op'[Main].pc = "set" /\ op'[Main].file = f
             /\ \A j \in Keys :
                  /\ files'[j] = IF j = k THEN None ELSE files[j]
                  /\ blame'[j] = IF j = k /\ editor[j] # None
                                 THEN blame[j] \cup {"deleted"} ELSE blame[j]
  <2>1. op'[Main] = [op[Main] EXCEPT !.pc = "set"]
    BY <1>2, <1>5 DEF RemoveFile
  <2>2. \A j \in Keys : files'[j] = IF j = k THEN None ELSE files[j]
    BY <1>1, <1>5 DEF RemoveFile
  <2>3. \A j \in Keys : blame'[j] = IF j = k /\ editor[j] # None
                                    THEN blame[j] \cup {"deleted"} ELSE blame[j]
    BY <1>1, <1>5 DEF RemoveFile
  <2>. QED BY <1>1, <1>5, <2>1, <2>2, <2>3 DEF RemoveFile, Same, Ops
<1>6. ASSUME SetText
      PROVE  /\ op[Main].pc = "set" /\ UNCHANGED maps /\ op'[Main] = Idle
             /\ \A w \in Workers : op[w] = Idle
             /\ \A g \in FileIds : text'[g] = IF g = f THEN op[Main].text ELSE text[g]
             /\ \A j \in Keys :
                  /\ j # k => blame'[j] = blame[j]
                  /\ \/ blame'[j] = blame[j]
                     \/ blame'[j] = {} /\ op[Main].by = "open"
                     \/ blame'[j] = blame[j] \cup {"overwritten"}
  <2>1. op'[Main] = Idle
    BY <1>2, <1>6 DEF SetText
  <2>2. \A g \in FileIds : text'[g] = IF g = f THEN op[Main].text ELSE text[g]
    BY <1>1, <1>6 DEF SetText, FileIds
  <2>3. ASSUME NEW j \in Keys
        PROVE  /\ j # k => blame'[j] = blame[j]
               /\ \/ blame'[j] = blame[j]
                  \/ blame'[j] = {} /\ op[Main].by = "open"
                  \/ blame'[j] = blame[j] \cup {"overwritten"}
    BY <1>1, <1>6 DEF SetText
  <2>. QED BY <1>6, <2>1, <2>2, <2>3 DEF SetText
<1>. QED BY <1>1, <1>3, <1>4, <1>5, <1>6

LEMMA AloneTake ==
  ASSUME TypeOK, Alone, TakeOpen \/ TakeWatch \/ TakeChange \/ TakeDelete \/ TakeLoad
  PROVE  Alone'
<1>1. /\ op[Main] = Idle /\ UNCHANGED <<maps, history>>
      /\ \A w \in Workers : op'[w] = op[w]
  BY TakeMoves, WorkspaceAssumption DEF Threads
<1>2. Registered' = Registered
  BY <1>1 DEF maps, Registered
<1>3. CASE op' = op
  BY <1>1, <1>2, <1>3 DEF maps, history, Alone
<1>4. CASE /\ op'[Main].key = Head(inbox).key
           /\ op'[Main].pc # "idle" /\ op'[Main].by = Head(inbox).kind
           /\ \/ /\ op'[Main].pc \in {"set", "unurl"}
                 /\ op'[Main].file = files[Head(inbox).key]
                 /\ files[Head(inbox).key] # None
                 /\ op'[Main].pc = "set" => op'[Main].by # "delete"
              \/ op'[Main].pc = "enter" /\ files[Head(inbox).key] = None
              \/ op'[Main].pc = "look"
  BY <1>1, <1>2, <1>4 DEF maps, history, Alone
<1>. QED BY <1>3, <1>4, TakeMoves

LEMMA AloneMain ==
  ASSUME TypeOK, Alone, RemoveUrl \/ RemoveFile \/ SetText PROVE Alone'
<1> DEFINE k == op[Main].key
           f == op[Main].file
<1>1. /\ touched' = touched /\ Main \in Threads /\ op[Main].pc # "idle"
      /\ \A w \in Workers : op'[w] = op[w]
  BY MainMoves, WorkspaceAssumption DEF Threads, RemoveUrl, RemoveFile, SetText
<1>2. k \in Keys
  BY <1>1, StepFacts
<1>3. CASE RemoveUrl
  <2>1. /\ op[Main].pc = "unurl" /\ UNCHANGED <<files, blame>> /\ urls' = urls \ {f}
        /\ op'[Main].key = k /\ op'[Main].pc = "unbind" /\ op'[Main].file = f
    BY <1>3, MainMoves DEF Same
  <2>2. Registered' = Registered
    BY <2>1 DEF Registered
  <2>. QED BY <1>1, <2>1, <2>2 DEF Alone
<1>4. CASE RemoveFile
  <2>1. /\ op[Main].pc = "unbind" /\ UNCHANGED urls
        /\ op'[Main].key = k /\ op'[Main].pc = "set" /\ op'[Main].by = op[Main].by
        /\ \A j \in Keys :
             /\ files'[j] = IF j = k THEN None ELSE files[j]
             /\ blame'[j] \subseteq blame[j] \cup {"deleted"}
    BY <1>4, MainMoves DEF Same
  <2>2. op[Main].by = "delete"
    BY <1>1, <2>1 DEF TypeOK, Shaped, Fits
  <2>3. ASSUME touched = {} PROVE urls \subseteq Registered'
    <3>1. urls \subseteq Registered /\ f \notin urls /\ files[k] = f
      BY <2>1, <2>3 DEF Alone
    <3>. QED BY <1>2, <2>1, <3>1 DEF Registered
  <2>. QED BY <1>1, <2>1, <2>2, <2>3 DEF Alone
<1>5. CASE SetText
  <2>1. /\ UNCHANGED maps /\ op'[Main].pc = "idle"
        /\ \A j \in Keys : blame'[j] \subseteq blame[j] \cup {"overwritten"}
    BY <1>5, MainMoves DEF Idle, Op
  <2>2. Registered' = Registered
    BY <2>1 DEF maps, Registered
  <2>. QED BY <1>1, <2>1, <2>2 DEF maps, Alone
<1>. QED BY <1>3, <1>4, <1>5

LEMMA AloneStep == TypeOK /\ Owned /\ Alone /\ [Next]_vars => Alone'
<1> SUFFICES ASSUME TypeOK, Owned, Alone, [Next]_vars PROVE Alone'
  OBVIOUS
<1>1. CASE UNCHANGED <<maps, op, history>>
  BY <1>1 DEF maps, history, Alone, Registered
<1>2. ASSUME NEW w \in Workers, NEW k \in Keys, Resolve(w, k) PROVE Alone'
  <2>1. /\ op[w] = Idle /\ w # Main /\ w \in Threads /\ UNCHANGED <<maps, blame>>
        /\ op' = [op EXCEPT ![w] = Op("look", "worker", k, None, None)]
        /\ op \in [Threads -> Ops] /\ touched' = touched \cup {k}
    BY <1>2, WorkspaceAssumption DEF Resolve, Go, Threads, TypeOK
  <2>2. /\ op'[Main] = op[Main] /\ op'[w].key = k
        /\ \A u \in Workers \ {w} : op'[u] = op[u]
    BY <2>1 DEF Op, Threads
  <2>3. Registered' = Registered /\ touched' # {}
    BY <2>1 DEF maps, Registered
  <2>. QED BY <2>1, <2>2, <2>3 DEF maps, Alone
<1>5. ASSUME NEW w \in Workers, Answer(w) PROVE Alone'
  <2>1. /\ op'[w] = Idle /\ op'[Main] = op[Main] /\ UNCHANGED <<maps, history>>
        /\ \A u \in Workers \ {w} : op'[u] = op[u]
    BY <1>5, AnswerFacts DEF Threads
  <2>. QED BY <2>1 DEF maps, history, Alone, Registered, Idle, Op
<1>3. CASE ClientStep
  BY <1>1, <1>3 DEF ClientStep, ClientOpen, ClientEdit, ClientClose, ClientSave, ClientRemove,
                    ClientNotify, ClientConfigure
<1>4. CASE Next
  BY <1>2, <1>3, <1>4, <1>5, AloneOpen, AloneTake, AloneMain DEF Next, MainStep
<1>. QED BY <1>1, <1>4 DEF vars

-----------------------------------------------------------------------------
(* A File that is about to be bound has the text it was made for *)

LEMMA ReadyStep == TypeOK /\ Ready /\ [Next]_vars => Ready'
<1> SUFFICES ASSUME TypeOK, Ready, [Next]_vars PROVE Ready'
  OBVIOUS
<1>1. op[Main].pc = "bind" => op[Main].file \in FileIds
  BY StepFacts DEF Threads
<1>2. CASE UNCHANGED <<text, op>>
  BY <1>2 DEF Ready
<1>3. ASSUME NEW t \in Threads, OpenStep(t) PROVE Ready'
  <2>1. CASE t = Main
    BY <1>3, <2>1, OpenMoves, WorkspaceAssumption DEF OpenStep, Ready, Handed, Idle, Op
  <2>2. CASE t # Main
    <3>1. op'[Main] = op[Main]
      BY <1>3, <2>2, OpenMoves DEF Threads
    <3>. QED BY <1>1, <1>3, <3>1, OpenEffect DEF Ready
  <2>. QED BY <2>1, <2>2
<1>4. CASE TakeOpen \/ TakeWatch \/ TakeChange \/ TakeDelete \/ TakeLoad
  BY <1>4, TakeMoves DEF Ready, Idle, Op
<1>5. CASE RemoveUrl \/ RemoveFile \/ SetText
  BY <1>5, MainMoves DEF Ready, Idle, Op
<1>6. ASSUME NEW w \in Workers, NEW k \in Keys, Resolve(w, k) PROVE Ready'
  <2>1. op'[Main] = op[Main] /\ UNCHANGED text
    BY <1>6, WorkspaceAssumption DEF Resolve, Go, Threads, TypeOK
  <2>. QED BY <2>1 DEF Ready
<1>7. CASE ClientStep
  BY <1>2, <1>7 DEF ClientStep, ClientOpen, ClientEdit, ClientClose, ClientSave, ClientRemove,
                    ClientNotify, ClientConfigure
<1>8. ASSUME NEW w \in Workers, Answer(w) PROVE Ready'
  BY <1>8, AnswerFacts DEF Ready
<1>. QED BY <1>2, <1>3, <1>4, <1>5, <1>6, <1>7, <1>8 DEF Next, MainStep, vars

-----------------------------------------------------------------------------
(* The messages about a document *)

(* A message about something else is sent.                                 *)
LEMMA SendOther ==
  ASSUME TypeOK, NEW k \in Keys, NEW m \in Sent, Send(m),
         m.key # k \/ m.kind \notin {"open", "change"}
  PROVE  /\ \A i \in DOMAIN inbox : i \in DOMAIN inbox' /\ inbox'[i] = inbox[i]
         /\ \A i \in DOMAIN inbox' : About(i, k)' => i \in DOMAIN inbox
         /\ \A i \in DOMAIN inbox : About(i, k)' <=> About(i, k)
<1>1. /\ Len(inbox) \in Nat /\ DOMAIN inbox = 1..Len(inbox)
      /\ DOMAIN inbox' = 1..Len(inbox) + 1
      /\ \A i \in DOMAIN inbox : inbox'[i] = inbox[i]
      /\ inbox'[Len(inbox) + 1] = m
  BY SendFacts
<1>. QED BY <1>1 DEF About

LEMMA ChainSend ==
  ASSUME TypeOK, NEW k \in Keys, Chain(k), NEW m \in Sent, Send(m),
         m.key # k \/ m.kind \notin {"open", "change"},
         editor'[k] = editor[k]
  PROVE  Chain(k)'
<1>1. /\ \A i \in DOMAIN inbox : i \in DOMAIN inbox' /\ inbox'[i] = inbox[i]
      /\ \A i \in DOMAIN inbox' : About(i, k)' => i \in DOMAIN inbox
      /\ \A i \in DOMAIN inbox : About(i, k)' <=> About(i, k)
  BY SendOther
<1>. QED BY <1>1 DEF Chain, Adjacent, Last

(* What the editor sends about a document.                                 *)
LEMMA ChainTell ==
  ASSUME TypeOK, NEW k \in Keys, Chain(k), NEW m \in Sent, Send(m),
         m.key = k, m.kind \in {"open", "change"}, editor'[k] = m.to,
         m.kind = "change" => editor[k] # None /\ m.from = editor[k]
  PROVE  Chain(k)'
<1>1. PICK n \in Nat :
        /\ DOMAIN inbox = 1..n - 1 /\ DOMAIN inbox' = 1..n /\ n \in DOMAIN inbox'
        /\ \A i \in DOMAIN inbox : inbox'[i] = inbox[i] /\ i < n
        /\ inbox'[n] = m
  <2> DEFINE N == Len(inbox) + 1
  <2>1. N \in Nat /\ DOMAIN inbox = 1..N - 1 /\ DOMAIN inbox' = 1..N
    BY SendFacts
  <2>2. N \in DOMAIN inbox' /\ inbox'[N] = m
    BY SendFacts, <2>1
  <2>3. \A i \in DOMAIN inbox : inbox'[i] = inbox[i] /\ i < N
    BY SendFacts, <2>1
  <2> HIDE DEF N
  <2>. QED BY <2>1, <2>2, <2>3
<1>2. \A i \in DOMAIN inbox : About(i, k)' <=> About(i, k)
  BY <1>1 DEF About
<1>3. About(n, k)'
  BY <1>1 DEF About
<1>4. ASSUME NEW i \in DOMAIN inbox', NEW j \in DOMAIN inbox', i < j,
             About(i, k)', About(j, k)', inbox'[j].kind = "change", Adjacent(i, j, k)'
      PROVE  inbox'[j].from = inbox'[i].to
  <2>1. i \in DOMAIN inbox /\ About(i, k)
    BY <1>1, <1>2, <1>4
  <2>2. CASE j = n
    <3>1. Last(i, k)
      BY <1>1, <1>2, <1>4, <2>1, <2>2 DEF Last, Adjacent
    <3>. QED BY <1>1, <1>4, <2>1, <2>2, <3>1 DEF Chain
  <2>3. CASE j # n
    <3>1. j \in DOMAIN inbox /\ About(j, k) /\ Adjacent(i, j, k)
      BY <1>1, <1>2, <1>4, <2>3 DEF Adjacent
    <3>. QED BY <1>1, <1>4, <2>1, <3>1 DEF Chain
  <2>. QED BY <2>2, <2>3
<1>5. ASSUME NEW i \in DOMAIN inbox', Last(i, k)' PROVE inbox'[i].to = editor'[k]
  <2>1. i = n
    BY <1>1, <1>3, <1>5 DEF Last
  <2>. QED BY <1>1, <2>1
<1>. QED BY <1>4, <1>5 DEF Chain

(* The message that is taken was the first one.                            *)
LEMMA TakeAbout ==
  ASSUME TypeOK, NEW kind, Take(kind), NEW k \in Keys
  PROVE  /\ 1 \in DOMAIN inbox /\ inbox[1] = Head(inbox)
         /\ \A i \in DOMAIN inbox' : i + 1 \in DOMAIN inbox /\ inbox'[i] = inbox[i + 1]
         /\ \A i \in DOMAIN inbox : i = 1 \/ (i - 1 \in DOMAIN inbox' /\ i - 1 + 1 = i)
         /\ \A i \in DOMAIN inbox' : About(i, k)' <=> About(i + 1, k)
         /\ DOMAIN inbox \subseteq Nat \ {0} /\ DOMAIN inbox' \subseteq Nat
<1>1. /\ Len(inbox) \in Nat \ {0} /\ DOMAIN inbox = 1..Len(inbox)
      /\ Head(inbox) = inbox[1]
      /\ DOMAIN inbox' = 1..Len(inbox) - 1
      /\ \A i \in DOMAIN inbox' : inbox'[i] = inbox[i + 1]
  BY TakeFacts
<1>2. \A i \in DOMAIN inbox' : About(i, k)' <=> About(i + 1, k)
  BY <1>1 DEF About
<1>. QED BY <1>1, <1>2

LEMMA ChainTake ==
  ASSUME TypeOK, NEW kind, Take(kind), UNCHANGED editor, NEW k \in Keys, Chain(k)
  PROVE  Chain(k)'
<1>1. /\ \A i \in DOMAIN inbox' : i + 1 \in DOMAIN inbox /\ inbox'[i] = inbox[i + 1]
      /\ \A i \in DOMAIN inbox : i = 1 \/ (i - 1 \in DOMAIN inbox' /\ i - 1 + 1 = i)
      /\ \A i \in DOMAIN inbox' : About(i, k)' <=> About(i + 1, k)
      /\ DOMAIN inbox \subseteq Nat \ {0} /\ DOMAIN inbox' \subseteq Nat
  BY TakeAbout
<1>2. ASSUME NEW i \in DOMAIN inbox', NEW j \in DOMAIN inbox', i < j,
             About(i, k)', About(j, k)', inbox'[j].kind = "change", Adjacent(i, j, k)'
      PROVE  inbox'[j].from = inbox'[i].to
  <2>1. ASSUME NEW m \in DOMAIN inbox, i + 1 < m, m < j + 1 PROVE ~ About(m, k)
    <3>1. m - 1 \in DOMAIN inbox' /\ i < m - 1 /\ m - 1 < j /\ m - 1 + 1 = m
      BY <1>1, <2>1
    <3>. QED BY <1>1, <1>2, <3>1 DEF Adjacent
  <2>2. Adjacent(i + 1, j + 1, k)
    BY <2>1 DEF Adjacent
  <2>3. i + 1 < j + 1
    BY <1>1, <1>2
  <2>. QED BY <1>1, <1>2, <2>2, <2>3 DEF Chain
<1>3. ASSUME NEW i \in DOMAIN inbox', Last(i, k)', editor'[k] # None
      PROVE  inbox'[i].to = editor'[k]
  <2>1. ASSUME NEW m \in DOMAIN inbox, i + 1 < m PROVE ~ About(m, k)
    <3>1. m - 1 \in DOMAIN inbox' /\ i < m - 1 /\ m - 1 + 1 = m
      BY <1>1, <2>1
    <3>. QED BY <1>1, <1>3, <3>1 DEF Last
  <2>2. Last(i + 1, k)
    BY <1>1, <1>3, <2>1 DEF Last
  <2>. QED BY <1>1, <1>3, <2>2 DEF Chain
<1>. QED BY <1>2, <1>3 DEF Chain

LEMMA ChainedStep == TypeOK /\ Chained /\ [Next]_vars => Chained'
<1> SUFFICES ASSUME TypeOK, Chained, [Next]_vars, NEW k \in Keys PROVE Chain(k)'
  BY DEF Chained
<1>1. Chain(k) /\ editor \in [Keys -> Nat \cup {None}] /\ disk \in [Keys -> Nat \cup {None}]
      /\ last \in Nat
  BY DEF Chained, TypeOK
<1>2. CASE UNCHANGED inbox /\ (editor'[k] = editor[k] \/ editor'[k] = None)
  BY <1>1, <1>2 DEF Chain, Adjacent, Last, About
<1>3. ASSUME NEW l \in Keys, ClientOpen(l) PROVE Chain(k)'
  <2> DEFINE m == Message("open", l, 0, editor'[l])
  <2>1. editor'[l] \in Nat /\ Send(m) /\ (k # l => editor'[k] = editor[k])
    BY <1>1, <1>3, WorkspaceAssumption DEF ClientOpen
  <2>2. m \in Sent /\ m.key = l /\ m.kind = "open" /\ m.to = editor'[l]
    BY <2>1 DEF Message, Sent
  <2>. QED BY <1>1, <2>1, <2>2, ChainSend, ChainTell
<1>4. ASSUME NEW l \in Keys, ClientEdit(l) PROVE Chain(k)'
  <2> DEFINE m == Message("change", l, editor[l], last')
  <2>1. /\ editor[l] \in Nat /\ last' \in Nat /\ Send(m) /\ editor'[l] = last'
        /\ editor[l] # None /\ (k # l => editor'[k] = editor[k])
    BY <1>1, <1>4, WorkspaceAssumption DEF ClientEdit
  <2>2. m \in Sent /\ m.key = l /\ m.kind = "change" /\ m.to = last' /\ m.from = editor[l]
    BY <2>1 DEF Message, Sent
  <2>. QED BY <1>1, <2>1, <2>2, ChainSend, ChainTell
<1>5. ASSUME NEW l \in Keys, ClientClose(l) PROVE Chain(k)'
  BY <1>1, <1>2, <1>5 DEF ClientClose, queues
<1>6. ASSUME NEW l \in Keys, ClientConfigure(l) PROVE Chain(k)'
  <2>1. Message("load", l, 0, 0) \in Sent /\ Message("load", l, 0, 0).kind = "load"
    BY DEF Message, Sent
  <2>. QED BY <1>1, <1>6, <2>1, ChainSend DEF ClientConfigure, client
<1>7. CASE ClientNotify
  <2>1. Head(events) \in Sent /\ Head(events).kind \in {"watch", "delete"}
    BY <1>7, HeadTailProperties DEF ClientNotify, TypeOK
  <2>. QED BY <1>1, <1>7, <2>1, ChainSend DEF ClientNotify, client
<1>8. CASE TakeOpen \/ TakeWatch \/ TakeChange \/ TakeDelete \/ TakeLoad
  BY <1>1, <1>8, Taken, ChainTake DEF client
<1>9. CASE \E l \in Keys : ClientSave(l) \/ ClientRemove(l)
  BY <1>2, <1>9 DEF ClientSave, ClientRemove
<1>10. CASE \E t \in Threads : OpenStep(t)
  BY <1>2, <1>10, OpenEffect DEF client, queues
<1>11. CASE RemoveUrl \/ RemoveFile \/ SetText
  BY <1>2, <1>11, MainMoves DEF client, queues
<1>12. CASE \E w \in Workers, l \in Keys : Resolve(w, l)
  BY <1>2, <1>12 DEF Resolve, client, queues
<1>13. CASE UNCHANGED vars
  BY <1>2, <1>13 DEF vars, client, queues
<1>14. CASE \E w \in Workers : Answer(w)
  BY <1>2, <1>14, AnswerFacts DEF client, queues
<1>. QED BY <1>3, <1>4, <1>5, <1>6, <1>7, <1>8, <1>9, <1>10, <1>11, <1>12, <1>13, <1>14
         DEF Next, MainStep, ClientStep

-----------------------------------------------------------------------------
(* The server follows the editor *)

(* Nothing was sent or taken, and the text the document has is the same.   *)
LEMMA FollowSame ==
  ASSUME NEW k \in Keys, Follows(k), UNCHANGED inbox, editor'[k] = editor[k],
         Trusted(k)' => Trusted(k) /\ Now(k)' = Now(k)
  PROVE  Follows(k)'
BY DEF Follows, First, About

(* What the main thread and the document's File decide about it.           *)
LEMMA SameText ==
  ASSUME TypeOK, NEW k \in Keys, files'[k] = files[k],
         \/ op'[Main] = op[Main]
         \/ ~ Serving(k) /\ ~ Serving(k)',
         \A f \in FileIds : f = files[k] => text'[f] = text[f]
  PROVE  /\ Now(k)' = Now(k)
         /\ Opening(k)' <=> Opening(k)
<1>1. files[k] \in FileIds \cup {None}
  BY DEF TypeOK
<1>2. (Serving(k)' <=> Serving(k)) /\ (Opening(k)' <=> Opening(k))
  BY DEF Serving, Opening
<1>3. Serving(k) => op'[Main] = op[Main]
  OBVIOUS
<1>. QED BY <1>1, <1>2, <1>3 DEF Now

(* A step that has nothing to do with the document.                        *)
LEMMA FollowApart ==
  ASSUME TypeOK, NEW k \in Keys, Follows(k), UNCHANGED inbox, editor'[k] = editor[k],
         blame'[k] = blame[k], files'[k] = files[k],
         \/ op'[Main] = op[Main]
         \/ ~ Serving(k) /\ ~ Serving(k)',
         \A f \in FileIds : f = files[k] => text'[f] = text[f]
  PROVE  Follows(k)'
<1>1. Now(k)' = Now(k) /\ (Opening(k)' <=> Opening(k))
  BY SameText
<1>2. Trusted(k)' => Trusted(k)
  BY <1>1 DEF Trusted
<1>. QED BY <1>1, <1>2, FollowSame

LEMMA FollowMain ==
  ASSUME TypeOK, Owned, Alone, Synced, RemoveUrl \/ RemoveFile \/ SetText, NEW k \in Keys
  PROVE  Follows(k)'
<1> DEFINE f == op[Main].file
           K == op[Main].key
<1>1. /\ UNCHANGED <<client, queues>> /\ Follows(k)
      /\ op[Main].pc \in {"set", "unurl", "unbind"} /\ Main \in Threads
  BY MainMoves DEF Synced, RemoveUrl, RemoveFile, SetText
<1>2. /\ UNCHANGED inbox /\ editor'[k] = editor[k]
      /\ f \in FileIds /\ files[k] \in FileIds \cup {None} /\ None \notin FileIds
      /\ op[Main].pc \in {"unurl", "unbind"} => op[Main].by = "delete"
      /\ op[Main].pc = "set" => op[Main].by \in {"open", "change", "watch", "delete"}
  BY <1>1, StepFacts DEF client, queues, TypeOK, Shaped, Fits
<1>3. CASE RemoveUrl
  <2>1. ~ Serving(k) /\ ~ Serving(k)'
    BY <1>2, <1>3, MainMoves DEF Serving, Same
  <2>. QED BY <1>1, <1>2, <1>3, <2>1, MainMoves, FollowApart
<1>4. CASE RemoveFile
  <2>1. ~ Serving(k) /\ ~ Serving(k)' /\ ~ Opening(k)'
    BY <1>2, <1>4, MainMoves DEF Serving, Opening, Same
  <2>2. CASE k # K
    BY <1>1, <1>2, <1>4, <2>1, <2>2, MainMoves, FollowApart
  <2>3. CASE k = K
    <3>1. editor'[k] # None => blame'[k] # {}
      BY <1>2, <1>4, <2>3, MainMoves
    <3>2. ~ Trusted(k)'
      BY <2>1, <3>1 DEF Trusted
    <3>. QED BY <3>2 DEF Follows
  <2>. QED BY <2>2, <2>3
<1>5. CASE SetText
  <2>1. /\ op[Main].pc = "set" /\ UNCHANGED maps /\ op'[Main] = Idle
        /\ \A g \in FileIds : text'[g] = IF g = f THEN op[Main].text ELSE text[g]
    BY <1>5, MainMoves
  <2>2. files'[k] = files[k] /\ ~ Serving(k)' /\ ~ Opening(k)'
    BY <2>1 DEF maps, Serving, Opening, Idle, Op
  <2>3. CASE k # K
    <3>1. files[k] # f
      BY <1>1, <1>2, <2>3 DEF Owned
    <3>2. blame'[k] = blame[k]
      BY <1>5, <2>3, MainMoves
    <3>. QED BY <1>1, <1>2, <2>1, <2>2, <2>3, <3>1, <3>2, FollowApart DEF Serving
  <2>4. CASE k = K
    <3>1. SUFFICES ASSUME Trusted(k)' PROVE Trusted(k) /\ Now(k)' = Now(k)
      BY <1>1, <1>2, FollowSame
    <3>2. blame'[k] = {} /\ Now(k)' = IF files[k] = None THEN None ELSE text'[files[k]]
      BY <2>2, <3>1 DEF Trusted, Now
    <3>3. CASE op[Main].by = "open"
      <4>1. Serving(k) /\ Opening(k)
        BY <2>1, <2>4, <3>3 DEF Serving, Opening
      <4>2. Trusted(k)
        BY <1>2, <3>1, <4>1 DEF Trusted
      <4>3. files[k] = f
        <5>1. files[k] # f => blame'[k] = blame[k]
          BY <1>5, <2>4, <3>3 DEF SetText
        <5>. QED BY <2>1, <2>4, <3>2, <3>3, <5>1 DEF Alone
      <4>. QED BY <1>2, <2>1, <3>2, <4>1, <4>2, <4>3 DEF Now
    <3>4. CASE op[Main].by = "change"
      <4>1. Serving(k) /\ blame'[k] = blame[k]
        BY <1>5, <2>1, <2>4, <3>4 DEF SetText, Serving
      <4>2. Trusted(k) /\ files[k] = f
        BY <1>2, <2>1, <2>4, <3>1, <3>2, <3>4, <4>1 DEF Trusted, Alone
      <4>. QED BY <1>2, <2>1, <3>2, <4>1, <4>2 DEF Now
    <3>5. CASE op[Main].by = "watch"
      <4>1. ~ Serving(k) /\ editor[k] # None
        BY <1>2, <3>1, <3>5 DEF Serving, Trusted
      <4>2. blame'[k] = blame[k] /\ text[f] = op[Main].text
        <5>1. text[f] # op[Main].text => "overwritten" \in blame'[k]
          BY <1>5, <2>4, <3>5, <4>1 DEF SetText, TypeOK
        <5>2. text[f] = op[Main].text
          BY <3>2, <5>1
        <5>. QED BY <1>5, <3>5, <5>2 DEF SetText
      <4>3. Trusted(k) /\ files[k] = f
        BY <1>2, <2>1, <2>4, <3>1, <3>2, <3>5, <4>2 DEF Trusted, Alone
      <4>. QED BY <1>2, <2>1, <3>2, <4>1, <4>2, <4>3 DEF Now
    <3>6. CASE op[Main].by = "delete"
      <4>1. ~ Serving(k) /\ blame'[k] = blame[k]
        BY <1>5, <3>6 DEF SetText, Serving
      <4>2. files[k] # f
        BY <1>2, <2>1, <3>6 DEF Owned, Registered
      <4>. QED BY <1>2, <2>1, <3>1, <3>2, <4>1, <4>2 DEF Now, Trusted
    <3>. QED BY <1>2, <2>1, <3>3, <3>4, <3>5, <3>6
  <2>. QED BY <2>3, <2>4
<1>. QED BY <1>3, <1>4, <1>5

(* A worker opens a path: a document that has a File loses it only if it   *)
(* is bound again.                                                         *)
LEMMA FollowWorker ==
  ASSUME TypeOK, Synced, NEW t \in Threads, t # Main, OpenStep(t), NEW k \in Keys
  PROVE  Follows(k)'
<1>1. /\ op'[Main] = op[Main] /\ Follows(k) /\ UNCHANGED inbox /\ editor'[k] = editor[k]
      /\ \A g \in FileIds : text'[g] = text[g]
      /\ k # op[t].key => files'[k] = files[k] /\ blame'[k] = blame[k]
  BY OpenMoves, OpenEffect DEF Synced, Threads, client, queues
<1>2. op[t].by # "open"
  BY DEF Threads, TypeOK, Shaped, Fits
<1>3. CASE k # op[t].key \/ ~ Bind(t)
  <2>1. files'[k] = files[k] /\ blame'[k] = blame[k]
    BY <1>1, <1>2, <1>3, OpenMoves DEF OpenStep, maps, EnterKnown, EnterNew
  <2>. QED BY <1>1, <2>1, FollowApart
<1>4. CASE k = op[t].key /\ Bind(t)
  <2>1. SUFFICES ASSUME Trusted(k)' PROVE Trusted(k) /\ Now(k)' = Now(k)
    BY <1>1, FollowSame
  <2>2. (Serving(k)' <=> Serving(k)) /\ (Opening(k)' <=> Opening(k))
    BY <1>1 DEF Serving, Opening
  <2>3. CASE Serving(k)
    <3>1. blame[k] \subseteq blame'[k]
      BY <1>4 DEF Bind, TypeOK
    <3>2. Trusted(k)
      BY <1>1, <2>1, <2>2, <3>1 DEF Trusted
    <3>. QED BY <1>1, <2>2, <2>3, <3>2 DEF Now
  <2>4. CASE ~ Serving(k)
    <3>1. blame'[k] = {}
      BY <2>1, <2>2, <2>4 DEF Trusted, Opening
    <3>2. files[k] = None /\ blame[k] = {}
      <4>1. /\ files[k] # None => blame' = [blame EXCEPT ![k] = @ \cup {"rebound"}]
            /\ files[k] = None => blame' = blame
        BY <1>4 DEF Bind
      <4>2. k \in DOMAIN blame
        BY DEF TypeOK
      <4>. QED BY <3>1, <4>1, <4>2
    <3>3. Trusted(k) /\ Now(k) = None
      BY <1>1, <2>1, <2>4, <3>2 DEF Trusted, Now
    <3>. QED BY <1>1, <3>3 DEF Follows
  <2>. QED BY <2>3, <2>4
<1>. QED BY <1>3, <1>4

(* The main thread opens the path of a document.                           *)
LEMMA FollowOpen ==
  ASSUME TypeOK, Synced, Ready, OpenStep(Main), NEW k \in Keys PROVE Follows(k)'
<1> DEFINE K == op[Main].key
<1>1. /\ op[Main].pc # "idle" /\ Main \in Threads
      /\ Follows(k) /\ UNCHANGED inbox /\ editor'[k] = editor[k]
      /\ \A g \in FileIds : text'[g] = text[g]
      /\ k # K => files'[k] = files[k] /\ blame'[k] = blame[k]
  BY OpenMoves, OpenEffect DEF Synced, Threads, client, queues
<1>2. op'[Main] = Idle \/ (op'[Main].key = K /\ op'[Main].by = op[Main].by)
  BY <1>1, OpenMoves DEF OpenStep, Handed, Same
<1>3. CASE k # K
  <2>1. ~ Serving(k) /\ ~ Serving(k)'
    BY <1>2, <1>3 DEF Serving, Idle, Op
  <2>. QED BY <1>1, <1>3, <2>1, FollowApart
<1>4. CASE k = K /\ (Look(Main) \/ Read(Main) \/ Url(Main))
  <2>1. files'[k] = files[k] /\ blame'[k] = blame[k]
    BY <1>1, <1>4, OpenMoves DEF maps
  <2>2. ~ Serving(k)
    BY <1>1, <1>4, OpenMoves DEF Serving
  <2>3. ~ Serving(k)'
    <3>1. op[Main].pc \in {"look", "read"} => op[Main].by \in {"worker", "load"}
      BY <1>1 DEF TypeOK, Shaped, Fits
    <3>. QED BY <1>1, <1>4, <3>1, OpenMoves, WorkspaceAssumption
         DEF Serving, Handed, Same, Idle, Op
  <2>. QED BY <1>1, <2>1, <2>2, <2>3, FollowApart
<1>5. ASSUME k = K, EnterKnown(Main) \/ EnterNew(Main) \/ Bind(Main), op[Main].by # "open"
      PROVE  Follows(k)'
  <2>1. ~ Serving(k) /\ ~ Serving(k)' /\ ~ Opening(k)'
    <3>1. op[Main].by = "change" => op[Main].pc = "set"
      BY <1>1 DEF TypeOK, Shaped, Fits
    <3>. QED BY <1>1, <1>2, <1>5, <3>1, OpenMoves DEF Serving, Opening, Idle, Op
  <2>2. CASE EnterKnown(Main) \/ EnterNew(Main)
    <3>1. files'[k] = files[k] /\ blame'[k] = blame[k]
      BY <1>1, <1>5, <2>2, OpenMoves DEF maps, EnterKnown, EnterNew
    <3>. QED BY <1>1, <2>1, <3>1, FollowApart
  <2>3. CASE Bind(Main)
    <3>1. ASSUME Trusted(k)' PROVE FALSE
      <4>0. blame'[k] = {}
        BY <2>1, <3>1 DEF Trusted
      <4>1. files[k] = None /\ blame[k] = {}
        <5>1. blame \in [Keys -> SUBSET Causes]
          BY DEF TypeOK
        <5>2. files[k] # None => blame' = [blame EXCEPT ![k] = @ \cup {"rebound"}]
          BY <1>5, <2>3 DEF Bind
        <5>3. files[k] = None => blame' = blame
          BY <1>5, <2>3 DEF Bind
        <5>. QED BY <4>0, <5>1, <5>2, <5>3
      <4>2. Trusted(k) /\ Now(k) = None
        BY <1>1, <2>1, <3>1, <4>1 DEF Trusted, Now
      <4>. QED BY <1>1, <4>2 DEF Follows
    <3>. QED BY <3>1 DEF Follows
  <2>. QED BY <1>5, <2>2, <2>3
<1>6. ASSUME k = K, EnterKnown(Main) \/ EnterNew(Main) \/ Bind(Main), op[Main].by = "open"
      PROVE  Follows(k)'
  <2>1. Serving(k) /\ Now(k) = op[Main].text
    BY <1>6, <1>1, OpenMoves DEF Serving, Now
  <2>2. SUFFICES ASSUME Trusted(k)' PROVE Trusted(k) /\ Now(k)' = op[Main].text
    BY <1>1, <2>1, FollowSame
  <2>3. CASE EnterKnown(Main)
    <3>1. /\ op[Main].pc = "enter" /\ op'[Main].pc = "url" /\ UNCHANGED <<files, text>>
          /\ files[k] # None
      BY <1>1, <1>6, <2>3, OpenMoves DEF maps
    <3>2. ~ Serving(k)' /\ ~ Opening(k)' /\ Opening(k)
      BY <1>6, <3>1, <2>1 DEF Serving, Opening
    <3>3. blame'[k] = {}
      BY <2>2, <3>2 DEF Trusted
    <3>4. text[files[k]] = op[Main].text
      <4>1. text[files[k]] # op[Main].text => blame' = [blame EXCEPT ![k] = @ \cup {"dropped"}]
        BY <1>6, <2>3 DEF EnterKnown
      <4>2. k \in DOMAIN blame
        BY DEF TypeOK
      <4>. QED BY <3>3, <4>1, <4>2
    <3>. QED BY <1>1, <2>2, <3>1, <3>2, <3>4 DEF Trusted, Now
  <2>4. CASE EnterNew(Main)
    <3>1. op[Main].pc = "enter" /\ Same(Main) /\ op'[Main].pc = "bind"
          /\ op'[Main].text = op[Main].text
      BY <1>1, <2>4, OpenMoves
    <3>2. Serving(k)' /\ Opening(k)
      BY <1>6, <3>1, <2>1 DEF Serving, Opening, Same
    <3>. QED BY <1>1, <2>2, <3>1, <3>2 DEF Trusted, Now
  <2>5. CASE Bind(Main)
    <3>1. /\ op[Main].pc = "bind" /\ op'[Main].pc = "url" /\ UNCHANGED text
          /\ files'[k] = op[Main].file
      BY <1>1, <1>6, <2>5, OpenMoves
    <3>2. ~ Serving(k)' /\ ~ Opening(k)'
      BY <3>1 DEF Serving, Opening
    <3>3. blame[k] = {}
      BY <1>6, <2>2, <2>5, <3>2 DEF Trusted, Bind, TypeOK
    <3>4. op[Main].file # None
      BY <1>1, <3>1, StepFacts
    <3>. QED BY <1>1, <2>2, <3>1, <3>2, <3>3, <3>4 DEF Trusted, Now, Ready
  <2>. QED BY <1>6, <2>3, <2>4, <2>5
<1>. QED BY <1>3, <1>4, <1>5, <1>6 DEF OpenStep

(* A message about something else is sent.                                 *)
LEMMA FollowSend ==
  ASSUME TypeOK, NEW k \in Keys, Follows(k), NEW m \in Sent, Send(m),
         m.key # k \/ m.kind \notin {"open", "change"},
         UNCHANGED <<maps, text, op, history>>, editor'[k] = editor[k]
  PROVE  Follows(k)'
<1>1. /\ \A i \in DOMAIN inbox : i \in DOMAIN inbox' /\ inbox'[i] = inbox[i]
      /\ \A i \in DOMAIN inbox' : About(i, k)' => i \in DOMAIN inbox
      /\ \A i \in DOMAIN inbox : About(i, k)' <=> About(i, k)
  BY SendOther
<1>2. /\ Now(k)' = Now(k) /\ (Opening(k)' <=> Opening(k)) /\ blame'[k] = blame[k]
  BY SameText DEF maps, history
<1>3. Trusted(k)' => Trusted(k)
  BY <1>1, <1>2 DEF Trusted
<1>. QED BY <1>1, <1>2, <1>3 DEF Follows, First

(* An edit is sent.                                                        *)
LEMMA FollowEdit ==
  ASSUME TypeOK, NEW k \in Keys, Follows(k), ClientEdit(k)
  PROVE  Follows(k)'
<1> DEFINE m == Message("change", k, editor[k], last')
<1>1. /\ editor[k] \in Nat /\ last' \in Nat /\ Send(m) /\ editor[k] # None
      /\ UNCHANGED <<maps, text, op, history>>
  BY WorkspaceAssumption DEF ClientEdit, TypeOK
<1>2. m \in Sent /\ m.key = k /\ m.kind = "change" /\ m.from = editor[k]
  BY <1>1 DEF Message, Sent
<1>3. PICK n \in Nat :
        /\ DOMAIN inbox = 1..n - 1 /\ DOMAIN inbox' = 1..n /\ n \in DOMAIN inbox'
        /\ \A i \in DOMAIN inbox : i \in DOMAIN inbox' /\ inbox'[i] = inbox[i] /\ i < n
        /\ inbox'[n] = m
  BY <1>1, <1>2, SendFacts
<1>4. About(n, k)' /\ \A i \in DOMAIN inbox : About(i, k)' <=> About(i, k)
  BY <1>2, <1>3 DEF About
<1>5. Now(k)' = Now(k) /\ (Opening(k)' <=> Opening(k)) /\ blame'[k] = blame[k]
  BY <1>1, SameText DEF maps, history
<1> SUFFICES ASSUME Trusted(k)'
             PROVE  /\ Now(k) # None
                    /\ \A i \in DOMAIN inbox' : First(i, k)' => inbox'[i].from = Now(k)
  BY <1>3, <1>4, <1>5 DEF Follows
<1>6. Trusted(k)
  BY <1>1, <1>3, <1>5 DEF Trusted
<1>7. ASSUME NEW i \in DOMAIN inbox', First(i, k)' PROVE inbox'[i].from = Now(k)
  <2>1. CASE i = n
    <3>1. \A j \in DOMAIN inbox : ~ About(j, k)
      BY <1>3, <1>4, <1>7, <2>1 DEF First
    <3>. QED BY <1>2, <1>3, <1>6, <2>1, <3>1 DEF Follows
  <2>2. CASE i # n
    <3>1. i \in DOMAIN inbox
      BY <1>3, <2>2
    <3>2. First(i, k)
      BY <1>3, <1>4, <1>7, <3>1 DEF First
    <3>. QED BY <1>3, <1>6, <3>1, <3>2 DEF Follows
  <2>. QED BY <2>1, <2>2
<1>. QED BY <1>6, <1>7 DEF Follows

LEMMA FollowClient ==
  ASSUME TypeOK, Synced, ClientStep, NEW k \in Keys PROVE Follows(k)'
<1>1. Follows(k) /\ editor \in [Keys -> Nat \cup {None}] /\ disk \in [Keys -> Nat \cup {None}]
  BY DEF Synced, TypeOK
<1>2. UNCHANGED <<maps, text, op, history>>
  BY DEF ClientStep, ClientOpen, ClientEdit, ClientClose, ClientSave, ClientRemove,
         ClientNotify, ClientConfigure
<1>3. CASE UNCHANGED inbox /\ editor'[k] = editor[k]
  BY <1>1, <1>2, <1>3, FollowApart DEF maps, history
<1>4. ASSUME editor'[k] = None PROVE Follows(k)'
  BY <1>4 DEF Follows, Trusted
<1>5. ASSUME NEW l \in Keys, ClientOpen(l) PROVE Follows(k)'
  <2> DEFINE m == Message("open", l, 0, editor'[l])
  <2>1. editor'[l] \in Nat /\ Send(m) /\ (k # l => editor'[k] = editor[k])
    BY <1>1, <1>5, WorkspaceAssumption DEF ClientOpen
  <2>2. m \in Sent /\ m.key = l /\ m.kind = "open"
    BY <2>1 DEF Message, Sent
  <2>3. CASE k # l
    BY <1>1, <1>2, <2>1, <2>2, <2>3, FollowSend
  <2>4. CASE k = l
    <3>1. \E i \in DOMAIN inbox' : inbox'[i] = m
      <4>1. inbox'[Len(inbox) + 1] = m /\ Len(inbox) + 1 \in DOMAIN inbox'
        BY <2>1, <2>2, SendFacts
      <4>. QED BY <4>1
    <3>2. ~ Trusted(k)'
      BY <2>2, <2>4, <3>1 DEF Trusted
    <3>. QED BY <3>2 DEF Follows
  <2>. QED BY <2>3, <2>4
<1>6. ASSUME NEW l \in Keys, ClientEdit(l) PROVE Follows(k)'
  <2> DEFINE m == Message("change", l, editor[l], last')
  <2>1. /\ editor[l] \in Nat /\ last' \in Nat /\ Send(m)
        /\ k # l => editor'[k] = editor[k]
    BY <1>1, <1>6, WorkspaceAssumption DEF ClientEdit, TypeOK
  <2>2. m \in Sent /\ m.key = l
    BY <2>1 DEF Message, Sent
  <2>3. CASE k # l
    BY <1>1, <1>2, <2>1, <2>2, <2>3, FollowSend
  <2>4. CASE k = l
    BY <1>1, <1>6, <2>4, FollowEdit
  <2>. QED BY <2>3, <2>4
<1>7. ASSUME NEW l \in Keys, ClientClose(l) PROVE Follows(k)'
  BY <1>1, <1>3, <1>4, <1>7 DEF ClientClose, queues
<1>8. CASE \E l \in Keys : ClientSave(l) \/ ClientRemove(l)
  BY <1>3, <1>8 DEF ClientSave, ClientRemove
<1>9. ASSUME NEW l \in Keys, ClientConfigure(l) PROVE Follows(k)'
  <2>1. Message("load", l, 0, 0) \in Sent /\ Message("load", l, 0, 0).kind = "load"
    BY DEF Message, Sent
  <2>. QED BY <1>1, <1>2, <1>9, <2>1, FollowSend DEF ClientConfigure, client
<1>10. CASE ClientNotify
  <2>1. Head(events) \in Sent /\ Head(events).kind \in {"watch", "delete"}
    BY <1>10, HeadTailProperties DEF ClientNotify, TypeOK
  <2>. QED BY <1>1, <1>2, <1>10, <2>1, FollowSend DEF ClientNotify, client
<1>. QED BY <1>5, <1>6, <1>7, <1>8, <1>9, <1>10 DEF ClientStep

(* The text with which the main thread takes a document's message.         *)
LEMMA TakeTexts ==
  ASSUME TypeOK, TakeOpen \/ TakeWatch \/ TakeChange \/ TakeDelete \/ TakeLoad
  PROVE  /\ Head(inbox).kind = "open" =>
              /\ op'[Main].key = Head(inbox).key /\ op'[Main].by = "open"
              /\ op'[Main].pc \in {"set", "enter"} /\ op'[Main].text = Head(inbox).to
         /\ Head(inbox).kind = "change" /\ files[Head(inbox).key] # None =>
              /\ op'[Main].key = Head(inbox).key /\ op'[Main].by = "change"
              /\ op'[Main].pc = "set"
              /\ text[files[Head(inbox).key]] = Head(inbox).from =>
                   op'[Main].text = Head(inbox).to
<1>1. op \in [Threads -> Ops] /\ Main \in Threads
  BY DEF TypeOK, Threads
<1>2. ASSUME NEW o, Go(Main, o) PROVE op'[Main] = o
  BY <1>1, <1>2 DEF Go
<1>3. CASE TakeOpen
  BY <1>2, <1>3 DEF TakeOpen, Take, Sync, Op
<1>4. CASE TakeChange
  BY <1>2, <1>4 DEF TakeChange, Take, Op
<1>5. CASE TakeWatch \/ TakeDelete \/ TakeLoad
  BY <1>5 DEF TakeWatch, TakeDelete, TakeLoad, Take
<1>. QED BY <1>3, <1>4, <1>5

(* A message about the document is taken: what comes next follows it.      *)
LEMMA NextAbout ==
  ASSUME TypeOK, NEW kind, Take(kind), NEW k \in Keys, Chain(k), editor[k] # None,
         About(1, k),
         \A i \in DOMAIN inbox' : inbox'[i].key = k => inbox'[i].kind # "open"
  PROVE  /\ \A i \in DOMAIN inbox' : First(i, k)' => inbox'[i].from = Head(inbox).to
         /\ (\A i \in DOMAIN inbox' : ~ About(i, k)') => editor[k] = Head(inbox).to
<1>1. /\ 1 \in DOMAIN inbox /\ inbox[1] = Head(inbox)
      /\ \A i \in DOMAIN inbox' : i + 1 \in DOMAIN inbox /\ inbox'[i] = inbox[i + 1]
      /\ \A i \in DOMAIN inbox : i = 1 \/ (i - 1 \in DOMAIN inbox' /\ i - 1 + 1 = i)
      /\ \A i \in DOMAIN inbox' : About(i, k)' <=> About(i + 1, k)
      /\ DOMAIN inbox \subseteq Nat \ {0} /\ DOMAIN inbox' \subseteq Nat
  BY TakeAbout
<1>2. ASSUME NEW i \in DOMAIN inbox', First(i, k)' PROVE inbox'[i].from = Head(inbox).to
  <2>1. About(i + 1, k) /\ inbox'[i].kind = "change"
    <3>1. About(i, k)'
      BY <1>2 DEF First
    <3>. QED BY <1>1, <3>1 DEF About
  <2>2. ASSUME NEW m \in DOMAIN inbox, 1 < m, m < i + 1 PROVE ~ About(m, k)
    <3>1. m - 1 \in DOMAIN inbox' /\ m - 1 < i /\ m - 1 + 1 = m
      BY <1>1, <2>2
    <3>. QED BY <1>1, <1>2, <3>1 DEF First
  <2>3. Adjacent(1, i + 1, k)
    BY <2>2 DEF Adjacent
  <2>4. 1 < i + 1
    <3>1. i + 1 # 1
      <4>1. i \in Nat /\ i + 1 \in Nat \ {0}
        BY <1>1
      <4>2. DOMAIN inbox' = 1..Len(inbox) - 1 /\ Len(inbox) \in Nat
        BY TakeFacts
      <4>. QED BY <4>1, <4>2
    <3>. QED BY <1>1, <3>1
  <2>. QED BY <1>1, <2>1, <2>3, <2>4 DEF Chain
<1>3. ASSUME \A i \in DOMAIN inbox' : ~ About(i, k)' PROVE editor[k] = Head(inbox).to
  <2>1. ASSUME NEW m \in DOMAIN inbox, 1 < m PROVE ~ About(m, k)
    <3>1. m - 1 \in DOMAIN inbox' /\ m - 1 + 1 = m
      BY <1>1, <2>1
    <3>. QED BY <1>1, <1>3, <3>1
  <2>2. Last(1, k)
    BY <2>1 DEF Last
  <2>. QED BY <1>1, <2>2 DEF Chain
<1>. QED BY <1>2, <1>3

LEMMA FollowTake ==
  ASSUME TypeOK, Chained, Synced, NEW k \in Keys,
         TakeOpen \/ TakeWatch \/ TakeChange \/ TakeDelete \/ TakeLoad
  PROVE  Follows(k)'
<1> DEFINE h == Head(inbox)
<1>1. /\ op[Main] = Idle /\ UNCHANGED <<client, events, maps, text, history>>
      /\ \/ op' = op
         \/ op'[Main].key = h.key /\ op'[Main].by = h.kind
      /\ h \in Sent
  BY TakeMoves
<1>2. PICK kind : Take(kind)
  BY Taken
<1>3. /\ 1 \in DOMAIN inbox /\ inbox[1] = h
      /\ \A i \in DOMAIN inbox' : i + 1 \in DOMAIN inbox /\ inbox'[i] = inbox[i + 1]
      /\ \A i \in DOMAIN inbox : i = 1 \/ (i - 1 \in DOMAIN inbox' /\ i - 1 + 1 = i)
      /\ \A i \in DOMAIN inbox' : About(i, k)' <=> About(i + 1, k)
      /\ DOMAIN inbox \subseteq Nat \ {0} /\ DOMAIN inbox' \subseteq Nat
  BY <1>2, TakeAbout
<1>4. /\ Follows(k) /\ Chain(k)
      /\ editor'[k] = editor[k] /\ files'[k] = files[k] /\ text' = text /\ blame'[k] = blame[k]
      /\ ~ Serving(k) /\ ~ Opening(k)
  BY <1>1 DEF Synced, Chained, client, maps, history, Serving, Opening, Idle, Op
<1>5. ASSUME ~ About(1, k) PROVE Follows(k)'
  <2>1. ~ Serving(k)' /\ ~ Opening(k)'
    BY <1>1, <1>3, <1>5 DEF About, Serving, Opening, Idle, Op
  <2>2. Now(k)' = Now(k)
    BY <1>4, <2>1 DEF Now
  <2>3. SUFFICES ASSUME Trusted(k)'
                 PROVE  /\ Now(k) # None
                        /\ \A i \in DOMAIN inbox' : First(i, k)' => inbox'[i].from = Now(k)
                        /\ (\A i \in DOMAIN inbox' : ~ About(i, k)') => Now(k) = editor[k]
    BY <1>4, <2>2 DEF Follows
  <2>4. Trusted(k)
    <3>1. \A i \in DOMAIN inbox : inbox[i].key = k => inbox[i].kind # "open"
      BY <1>3, <1>5, <2>3 DEF Trusted, About
    <3>. QED BY <1>4, <2>1, <2>3, <3>1 DEF Trusted
  <2>5. ASSUME NEW i \in DOMAIN inbox', First(i, k)' PROVE inbox'[i].from = Now(k)
    <3>1. ASSUME NEW m \in DOMAIN inbox, m < i + 1 PROVE ~ About(m, k)
      <4>1. CASE m = 1
        BY <1>5, <4>1
      <4>2. CASE m # 1
        <5>1. m - 1 \in DOMAIN inbox' /\ m - 1 < i /\ m - 1 + 1 = m
          BY <1>3, <3>1, <4>2
        <5>. QED BY <1>3, <2>5, <5>1 DEF First
      <4>. QED BY <4>1, <4>2
    <3>2. First(i + 1, k)
      BY <1>3, <2>5, <3>1 DEF First
    <3>. QED BY <1>3, <1>4, <2>4, <3>2 DEF Follows
  <2>6. ASSUME \A i \in DOMAIN inbox' : ~ About(i, k)' PROVE Now(k) = editor[k]
    <3>1. \A i \in DOMAIN inbox : ~ About(i, k)
      BY <1>3, <1>5, <2>6
    <3>. QED BY <1>4, <2>4, <3>1 DEF Follows
  <2>. QED BY <1>4, <2>4, <2>5, <2>6 DEF Follows
<1>6. ASSUME About(1, k) PROVE Follows(k)'
  <2>1. h.key = k /\ h.kind \in {"open", "change"} /\ h.to # None
    BY <1>1, <1>3, <1>6, WorkspaceAssumption DEF About, Sent
  <2>2. SUFFICES ASSUME Trusted(k)' PROVE Now(k)' = h.to
    <3>1. ASSUME Trusted(k)'
          PROVE  /\ \A i \in DOMAIN inbox' : First(i, k)' => inbox'[i].from = h.to
                 /\ (\A i \in DOMAIN inbox' : ~ About(i, k)') => editor'[k] = h.to
      BY <1>2, <1>4, <1>6, <3>1, NextAbout DEF Trusted
    <3>. QED BY <2>1, <3>1 DEF Follows
  <2>3. CASE h.kind = "open"
    BY <2>1, <2>3, TakeTexts DEF Now, Serving
  <2>4. CASE h.kind = "change"
    <3>1. ~ Opening(k)'
      BY <1>1, <2>4 DEF Opening, Idle, Op
    <3>2. Trusted(k)
      <4>1. \A i \in DOMAIN inbox : inbox[i].key = k => inbox[i].kind # "open"
        BY <1>3, <2>2, <2>4 DEF Trusted
      <4>. QED BY <1>4, <2>2, <3>1, <4>1 DEF Trusted
    <3>3. First(1, k)
      BY <1>3, <1>6 DEF First
    <3>4. files[k] # None /\ text[files[k]] = h.from
      BY <1>3, <1>4, <3>2, <3>3 DEF Follows, Now
    <3>. QED BY <2>1, <2>4, <3>4, TakeTexts DEF Now, Serving
  <2>. QED BY <2>1, <2>3, <2>4
<1>. QED BY <1>5, <1>6

LEMMA SyncedStep ==
  TypeOK /\ Owned /\ Alone /\ Chained /\ Synced /\ Ready /\ [Next]_vars => Synced'
<1> SUFFICES ASSUME TypeOK, Owned, Alone, Chained, Synced, Ready, [Next]_vars, NEW k \in Keys
             PROVE  Follows(k)'
  BY DEF Synced
<1>1. ASSUME NEW w \in Workers, NEW l \in Keys, Resolve(w, l) PROVE Follows(k)'
  <2>1. op'[Main] = op[Main]
    BY <1>1, WorkspaceAssumption DEF Resolve, Go, Threads, TypeOK
  <2>. QED BY <1>1, <2>1, FollowApart DEF Resolve, client, queues, maps, Synced
<1>4. ASSUME NEW w \in Workers, Answer(w) PROVE Follows(k)'
  BY <1>4, AnswerFacts, FollowApart DEF client, queues, maps, history, Synced
<1>2. CASE \E t \in Threads : OpenStep(t)
  BY <1>2, FollowOpen, FollowWorker
<1>3. CASE UNCHANGED vars
  BY <1>3, FollowApart DEF vars, client, queues, maps, history, Synced
<1>. QED BY <1>1, <1>2, <1>3, <1>4, FollowClient, FollowTake, FollowMain DEF Next, MainStep

-----------------------------------------------------------------------------
(* The theorems *)

LEMMA InvInit == Init => IInv
<1> SUFFICES ASSUME Init PROVE IInv
  OBVIOUS
<1>1. Chained /\ Synced /\ Ready
  BY WorkspaceAssumption
     DEF Init, Chained, Chain, Synced, Follows, Trusted, Ready, Idle, Op, Threads
<1>. QED BY <1>1, TypeInit, OwnedInit, HasUrlInit, GivenInit, AloneInit DEF IInv

(* Whatever the client does and however the main thread and the workers    *)
(* interleave, every File has at most one path and one thread that has not *)
(* bound it yet, the messages about a document follow one another, and the *)
(* text that the server has, or is about to set, is the one that the next  *)
(* edit was made to, unless something overwrote, dropped, bound again or   *)
(* deleted it.                                                             *)
THEOREM Invariance == Spec => []IInv
<1>1. IInv /\ [Next]_vars => IInv'
  BY TypeStep, OwnedStep, HasUrlStep, GivenStep, AloneStep, ChainedStep, SyncedStep,
     ReadyStep DEF IInv
<1>. QED BY <1>1, InvInit, PTL DEF Spec

(* A registered File has no url only between the two map accesses of the   *)
(* thread that registers or removes it; a File that get_script returned to *)
(* a handler has none only while another thread registers it or a deletion *)
(* waits for that handler; and until a worker registers a path no deleted  *)
(* File stays in urls (open_file_with_key, delete_file, get_url).          *)
THEOREM MissingUrlHasCauseHolds == Spec => []MissingUrlHasCause
<1>1. IInv => MissingUrlHasCause
  <2> SUFFICES ASSUME IInv PROVE MissingUrlHasCause
    OBVIOUS
  <2>1. \A t \in Threads : op[t].pc = "unbind" => t = Main /\ op[t].by = "delete"
    BY WorkspaceAssumption DEF IInv, TypeOK, Shaped, Fits, Threads, Steps
  <2>2. \A f \in Registered \ urls :
          Registering(f) \/ (Deleting(f) /\ op[Main].pc = "unbind")
    BY <2>1 DEF IInv, HasUrl, Registering, Deleting
  <2>. QED BY <2>2 DEF IInv, Given, Excused, Alone, MissingUrlHasCause
<1>. QED BY <1>1, Invariance, PTL

(* Once the messages about an open document are handled the server has its *)
(* text, unless a file event overwrote or deleted it or a worker was after *)
(* the same path (did_open, did_change, did_change_watched_files).         *)
THEOREM DivergenceHasCauseHolds == Spec => []DivergenceHasCause
<1>1. IInv => DivergenceHasCause
  <2> SUFFICES ASSUME IInv, NEW k \in Keys, editor[k] # None, Handled(k)
               PROVE  \/ InSync(k)
                      \/ blame[k] \cap {"overwritten", "deleted"} # {}
                      \/ k \in touched /\ blame[k] # {}
    BY DEF DivergenceHasCause
  <2>1. CASE blame[k] = {}
    <3>1. Trusted(k) /\ \A i \in DOMAIN inbox : ~ About(i, k)
      BY <2>1 DEF Handled, Trusted, About
    <3>2. Now(k) # None /\ Now(k) = editor[k]
      BY <3>1 DEF IInv, Synced, Follows
    <3>3. ~ Serving(k)
      BY DEF Handled, Serving, Idle, Op
    <3>. QED BY <3>2, <3>3 DEF Now, InSync
  <2>2. CASE blame[k] # {}
    BY <2>2 DEF IInv, Alone
  <2>. QED BY <2>1, <2>2
<1>. QED BY <1>1, Invariance, PTL
=============================================================================
