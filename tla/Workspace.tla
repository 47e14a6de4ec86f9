----------------------------- MODULE Workspace ------------------------------
(***************************************************************************)
(* The workspace: which File stands for which path, and with which text    *)
(* (crates/db/src/lib.rs, crates/resolver/src/db.rs, server/src/main.rs).  *)
(*                                                                         *)
(* Two concurrent maps are kept: files, from a normalised path to a File,  *)
(* and urls, from a File to its url.  An operation looks a path up and     *)
(* then inserts, one map access at a time, with no lock over the whole: a  *)
(* worker that resolves IncludeScript may run it while the main thread     *)
(* handles didOpen or a file event.  Only the main thread sets texts, when *)
(* no worker has a clone of the database; deletions do not wait for them.  *)
(*                                                                         *)
(* The client is modelled by what it does to documents and to the disk and *)
(* by the messages it sends; its file watcher may be late.  A text is the  *)
(* number of the edit that produced it, 0 the first text of a file.        *)
(***************************************************************************)
EXTENDS Naturals, Sequences, Functions

CONSTANTS
  Keys,          \* normalised paths
  Main,          \* the main thread
  Workers,       \* pool threads that resolve scripts
  MaxText,       \* bound: texts ever produced
  MaxFile,       \* bound: salsa File inputs ever created
  MaxQueue,      \* bound: messages and watcher events on their way
  None           \* no file, no text, a closed document

ASSUME WorkspaceAssumption ==
  /\ MaxText \in Nat
  /\ MaxFile \in Nat
  /\ MaxQueue \in Nat
  /\ Main \notin Workers
  /\ None \notin Nat \cup Keys

VARIABLES
  disk,          \* the text of each path on disk, or None
  editor,        \* the text of each open document, or None
  last,          \* the last text produced
  inbox,         \* messages to the server, in order
  events,        \* events the file watcher has still to send
  files,         \* get_files(): path to File
  urls,          \* get_urls(): the Files that have a url
  text,          \* File::text of every File made so far
  op,            \* what each thread is doing in the workspace
  blame,         \* history: what made a document differ from the editor's
  touched        \* history: the paths that a worker was after

client == <<disk, editor, last>>
queues == <<inbox, events>>
maps == <<files, urls>>
history == <<blame, touched>>
vars == <<client, queues, maps, text, op, history>>

Threads == {Main} \cup Workers
Texts == 0..MaxText
Garbled == MaxText + 1     \* an edit applied to a text it was not made for

Messages == [kind : {"open", "change", "watch", "delete", "load"}, key : Keys,
             from : Texts, to : Texts]
Message(kind, k, from, to) ==
  [kind |-> kind, key |-> k, from |-> from, to |-> to]

(* A thread is at step pc of an operation that serves the message "by".    *)
Op(pc, by, k, x, f) == [pc |-> pc, by |-> by, key |-> k, text |-> x, file |-> f]
Idle == Op("idle", "none", None, None, None)

Causes == {"overwritten", "dropped", "rebound", "deleted"}

(* The scripts found on disk when the server starts are not loaded yet:    *)
(* a "load" message does it, as the first update_config.                   *)
Init ==
  /\ disk \in [Keys -> {0, None}]
  /\ editor = [k \in Keys |-> None]
  /\ last = 0
  /\ inbox = << >> /\ events = << >>
  /\ files = [k \in Keys |-> None]
  /\ urls = {}
  /\ text = << >>
  /\ op = [t \in Threads |-> Idle]
  /\ blame = [k \in Keys |-> {}]
  /\ touched = {}

-----------------------------------------------------------------------------
(* The client *)

Room == Len(inbox) + Len(events) < MaxQueue
Send(m) == inbox' = Append(inbox, m)
Fire(m) == events' = Append(events, m)

(* A document is opened, with the text on disk if there is one.            *)
ClientOpen(k) ==
  /\ editor[k] = None
  /\ editor' = [editor EXCEPT ![k] = IF disk[k] = None THEN 0 ELSE disk[k]]
  /\ Room
  /\ Send(Message("open", k, 0, editor'[k]))
  /\ UNCHANGED <<disk, last, events, maps, text, op, history>>

ClientEdit(k) ==
  /\ editor[k] # None
  /\ last < MaxText
  /\ last' = last + 1
  /\ editor' = [editor EXCEPT ![k] = last']
  /\ Room
  /\ Send(Message("change", k, editor[k], last'))
  /\ UNCHANGED <<disk, events, maps, text, op, history>>

(* didClose and didSave do nothing in the server and are not queued.       *)
ClientClose(k) ==
  /\ editor[k] # None
  /\ editor' = [editor EXCEPT ![k] = None]
  /\ UNCHANGED <<disk, last, queues, maps, text, op, history>>

ClientSave(k) ==
  /\ editor[k] \notin {None, disk[k]}
  /\ disk' = [disk EXCEPT ![k] = editor[k]]
  /\ Room
  /\ Fire(Message("watch", k, 0, 0))
  /\ UNCHANGED <<editor, last, inbox, maps, text, op, history>>

ClientRemove(k) ==
  /\ disk[k] # None
  /\ disk' = [disk EXCEPT ![k] = None]
  /\ Room
  /\ Fire(Message("delete", k, 0, 0))
  /\ UNCHANGED <<editor, last, inbox, maps, text, op, history>>

(* The watcher's events reach the server in order, at any later time.      *)
ClientNotify ==
  /\ events # << >>
  /\ Send(Head(events))
  /\ events' = Tail(events)
  /\ UNCHANGED <<client, maps, text, op, history>>

(* A game directory is configured: its scripts are to be loaded.           *)
ClientConfigure(k) ==
  /\ disk[k] # None
  /\ Room
  /\ Send(Message("load", k, 0, 0))
  /\ UNCHANGED <<client, events, maps, text, op, history>>

ClientStep ==
  \/ \E k \in Keys :
       \/ ClientOpen(k) \/ ClientEdit(k) \/ ClientClose(k)
       \/ ClientSave(k) \/ ClientRemove(k) \/ ClientConfigure(k)
  \/ ClientNotify

-----------------------------------------------------------------------------
(* open_file_from_path and open_file_with_key, one map access per step *)

Go(t, next) == op' = [op EXCEPT ![t] = next]

(* The File of the path is there: get_script returns it to the handler.    *)
Found(t, f) ==
  Go(t, IF t \in Workers THEN [op[t] EXCEPT !.pc = "found", !.file = f] ELSE Idle)

(* get_file_from_key: a registered path is what open_file_from_path is     *)
(* after.                                                                  *)
Look(t) ==
  /\ op[t].pc = "look"
  /\ IF files[op[t].key] # None THEN Found(t, files[op[t].key])
     ELSE Go(t, [op[t] EXCEPT !.pc = "read"])
  /\ UNCHANGED <<client, queues, maps, text, history>>

(* std::fs::read_to_string.                                                *)
Read(t) ==
  /\ op[t].pc = "read"
  /\ Go(t, IF disk[op[t].key] = None THEN Idle
           ELSE [op[t] EXCEPT !.pc = "enter", !.text = disk[op[t].key]])
  /\ UNCHANGED <<client, queues, maps, text, history>>

(* open_file_with_key looks the path up again.  If it is registered by     *)
(* now, only its url is set and the text at hand is not used ...           *)
EnterKnown(t) ==
  /\ op[t].pc = "enter"
  /\ LET k == op[t].key IN
     /\ files[k] # None
     /\ Go(t, [op[t] EXCEPT !.pc = "url", !.file = files[k]])
     /\ IF op[t].by = "open" /\ text[files[k]] # op[t].text
        THEN blame' = [blame EXCEPT ![k] = @ \cup {"dropped"}]
        ELSE UNCHANGED blame
  /\ UNCHANGED <<client, queues, maps, text, touched>>

(* ... else a File is made of it.                                          *)
EnterNew(t) ==
  /\ op[t].pc = "enter"
  /\ files[op[t].key] = None
  /\ Len(text) < MaxFile
  /\ text' = Append(text, op[t].text)
  /\ Go(t, [op[t] EXCEPT !.pc = "bind", !.file = Len(text')])
  /\ IF op[t].by = "open"
     THEN blame' = [blame EXCEPT ![op[t].key] = {}]
     ELSE UNCHANGED blame
  /\ UNCHANGED <<client, queues, maps, touched>>

(* Fault: the new File gets no url.                                        *)
BindOnly(t) ==
  /\ op[t].pc = "bind"
  /\ files' = [files EXCEPT ![op[t].key] = op[t].file]
  /\ Go(t, Idle)
  /\ UNCHANGED <<client, queues, urls, text, history>>

Bind(t) ==
  /\ op[t].pc = "bind"
  /\ LET k == op[t].key IN
     /\ files' = [files EXCEPT ![k] = op[t].file]
     /\ IF files[k] # None
        THEN blame' = [blame EXCEPT ![k] = @ \cup {"rebound"}]
        ELSE UNCHANGED blame
  /\ Go(t, [op[t] EXCEPT !.pc = "url"])
  /\ UNCHANGED <<client, queues, urls, text, touched>>

Url(t) ==
  /\ op[t].pc = "url"
  /\ urls' = urls \cup {op[t].file}
  /\ Found(t, op[t].file)
  /\ UNCHANGED <<client, queues, files, text, history>>

(* A worker resolves a script path (get_script).                           *)
Resolve(w, k) ==
  /\ op[w] = Idle
  /\ Go(w, Op("look", "worker", k, None, None))
  /\ touched' = touched \cup {k}
  /\ UNCHANGED <<client, queues, maps, text, blame>>

(* The handler asks for the url of the File (get_url), which it may do at  *)
(* any time while it has it, and ends.                                     *)
Answer(w) ==
  /\ op[w].pc = "found"
  /\ Go(w, Idle)
  /\ UNCHANGED <<client, queues, maps, text, history>>

-----------------------------------------------------------------------------
(* The main thread takes a message *)

Take(kind) ==
  /\ op[Main] = Idle
  /\ inbox # << >>
  /\ Head(inbox).kind = kind
  /\ inbox' = Tail(inbox)

(* The document's File gets the new text, or there is none: open_file.     *)
Sync(kind, k, x) ==
  Go(Main, IF files[k] # None THEN Op("set", kind, k, x, files[k])
           ELSE Op("enter", kind, k, x, None))

(* Fault: an opened document that is known keeps its text.                 *)
TakeOpenKnown ==
  /\ Take("open")
  /\ IF files[Head(inbox).key] # None THEN UNCHANGED op
     ELSE Sync("open", Head(inbox).key, Head(inbox).to)
  /\ UNCHANGED <<client, events, maps, text, history>>

TakeOpen ==
  /\ Take("open")
  /\ Sync("open", Head(inbox).key, Head(inbox).to)
  /\ UNCHANGED <<client, events, maps, text, history>>

(* A created or changed file is read, whether the editor has it open or    *)
(* not; one that cannot be read is skipped.                                *)
TakeWatch ==
  /\ Take("watch")
  /\ LET k == Head(inbox).key IN
     IF disk[k] = None THEN UNCHANGED op ELSE Sync("watch", k, disk[k])
  /\ UNCHANGED <<client, events, maps, text, history>>

(* An incremental edit is applied to the text the server has; a document   *)
(* that is not in the workspace is an error and the edit is not applied.   *)
TakeChange ==
  /\ Take("change")
  /\ LET m == Head(inbox)
         f == files[m.key] IN
     IF f = None THEN UNCHANGED op
     ELSE Go(Main, Op("set", "change", m.key,
                      IF text[f] = m.from THEN m.to ELSE Garbled, f))
  /\ UNCHANGED <<client, events, maps, text, history>>

(* delete_file: the File is looked up, then removed from both maps ...     *)
TakeDelete ==
  /\ Take("delete")
  /\ LET k == Head(inbox).key IN
     IF files[k] = None THEN UNCHANGED op
     ELSE Go(Main, Op("unurl", "delete", k, 0, files[k]))
  /\ UNCHANGED <<client, events, maps, text, history>>

RemoveUrl ==
  /\ op[Main].pc = "unurl"
  /\ urls' = urls \ {op[Main].file}
  /\ Go(Main, [op[Main] EXCEPT !.pc = "unbind"])
  /\ UNCHANGED <<client, queues, files, text, history>>

(* ... and emptied, so that the files that include it forget its symbols.  *)
RemoveFile ==
  /\ op[Main].pc = "unbind"
  /\ LET k == op[Main].key IN
     /\ files' = [files EXCEPT ![k] = None]
     /\ IF editor[k] # None
        THEN blame' = [blame EXCEPT ![k] = @ \cup {"deleted"}]
        ELSE UNCHANGED blame
  /\ Go(Main, [op[Main] EXCEPT !.pc = "set"])
  /\ UNCHANGED <<client, queues, urls, text, touched>>

(* load_all_scripts, for one of the scripts it finds.                      *)
TakeLoad ==
  /\ Take("load")
  /\ Go(Main, Op("look", "load", Head(inbox).key, None, None))
  /\ UNCHANGED <<client, events, maps, text, history>>

(* set_text: it waits until no worker has a clone of the database.         *)
SetText ==
  /\ op[Main].pc = "set"
  /\ \A w \in Workers : op[w] = Idle
  /\ LET k == op[Main].key
         f == op[Main].file IN
     /\ text' = [text EXCEPT ![f] = op[Main].text]
     /\ blame' =
          CASE op[Main].by = "open" /\ files[k] = f -> [blame EXCEPT ![k] = {}]
            [] /\ op[Main].by = "watch"
               /\ editor[k] # None
               /\ text[f] # op[Main].text ->
                 [blame EXCEPT ![k] = @ \cup {"overwritten"}]
            [] OTHER -> blame
  /\ Go(Main, Idle)
  /\ UNCHANGED <<client, queues, maps, touched>>

MainStep ==
  \/ TakeOpen \/ TakeWatch \/ TakeChange \/ TakeDelete \/ TakeLoad
  \/ RemoveUrl \/ RemoveFile \/ SetText

OpenStep(t) ==
  Look(t) \/ Read(t) \/ EnterKnown(t) \/ EnterNew(t) \/ Bind(t) \/ Url(t)

Next ==
  \/ ClientStep
  \/ MainStep
  \/ \E t \in Threads : OpenStep(t)
  \/ \E w \in Workers, k \in Keys : Resolve(w, k)
  \/ \E w \in Workers : Answer(w)

Spec == Init /\ [][Next]_vars

-----------------------------------------------------------------------------
(* Properties *)

FileIds == DOMAIN text

Registered == {files[k] : k \in Keys} \ {None}

Registering(f) == \E t \in Threads : op[t].file = f /\ op[t].pc = "url"
Deleting(f) == op[Main].by = "delete" /\ op[Main].file = f

(* When get_url fails.  A registered File has no url only while a thread   *)
(* is between its two accesses of the maps for that File.  A File that     *)
(* get_script returned to a handler has none only while another thread is  *)
(* still registering it, or if the main thread took it from urls under the *)
(* hands of that handler: then the deletion is not over before the handler *)
(* is.  And until a worker registers a path no deleted File is left in     *)
(* urls for file_iter once a notification is handled.                      *)
MissingUrlHasCause ==
  /\ \A f \in Registered \ urls :
       Registering(f) \/ (Deleting(f) /\ op[Main].pc = "unbind")
  /\ \A w \in Workers : op[w].pc = "found" /\ op[w].file \notin urls =>
       Registering(op[w].file) \/ (Deleting(op[w].file) /\ op[Main].pc \in {"unbind", "set"})
  /\ touched = {} /\ op[Main] = Idle => urls \subseteq Registered

(* The server has the text of the editor for every open document whose     *)
(* messages were handled.                                                  *)
Handled(k) ==
  /\ op[Main] = Idle
  /\ ~ \E i \in DOMAIN inbox :
         inbox[i].key = k /\ inbox[i].kind \in {"open", "change"}

InSync(k) == files[k] # None /\ text[files[k]] = editor[k]

(* Edits, saves, reopening and configuration never make the server's text  *)
(* differ from the editor's: that takes a file event overwriting or        *)
(* deleting an open document or, for a path that a worker registers        *)
(* itself, an open or an edit that was dropped; and opening the document   *)
(* again repairs it.                                                       *)
DivergenceHasCause ==
  \A k \in Keys : editor[k] # None /\ Handled(k) =>
    \/ InSync(k)
    \/ blame[k] \cap {"overwritten", "deleted"} # {}
    \/ k \in touched /\ blame[k] # {}
=============================================================================
