-------------------------------- MODULE Scan --------------------------------
(***************************************************************************)
(* The handlers that visit the whole workspace: workspace diagnostics and  *)
(* symbols, find references, rename (crates/server/src/handlers), which    *)
(* loop over file_iter (crates/db/src/lib.rs).                             *)
(*                                                                         *)
(* file_iter iterates over a sharded map and holds the read lock of the    *)
(* shard it is in while the loop body runs.  The body asks salsa for the   *)
(* symbols of the file; a file that was not computed yet is computed by    *)
(* one worker, while others wait for it.  The computation resolves the     *)
(* scripts that the file includes and registers those that are not known   *)
(* yet, which takes the write lock of a shard of the same map.             *)
(*                                                                         *)
(* The main thread opens and deletes files meanwhile: it waits for the     *)
(* shard of the file and for nothing else.  Only when it sets a text it    *)
(* waits until every handler has ended.                                    *)
(***************************************************************************)
EXTENDS Naturals, FiniteSets

CONSTANTS
  Files,         \* files of the workspace, the scripts on disk among them
  Initial,       \* those registered at the start
  Shards,        \* the map has the shards 1..Shards
  ShardOf,       \* the shard of each file
  Includes,      \* for each file the scripts it includes
  Scanners,      \* workers that serve a workspace request
  Viewers,       \* workers that serve a request about one file
  MaxEdit,       \* bound: notifications the main thread handles
  None

ASSUME ScanAssumption ==
  /\ Initial \subseteq Files
  /\ Shards \in Nat \ {0}
  /\ ShardOf \in [Files -> 1..Shards]
  /\ Includes \in [Files -> SUBSET Files]
  /\ Scanners \cap Viewers = {}
  /\ MaxEdit \in Nat
  /\ None \notin Files \cup Scanners \cup Viewers

VARIABLES
  urls,          \* the registered files
  gone,          \* the deleted ones: not on disk, and not created again
  memo,          \* files whose symbols are memoised
  claim,         \* for each file the worker that computes it
  pc,            \* what each worker does
  at,            \* for each scanner the shard whose read lock it holds, or 0
  todo,          \* the files of that shard still to be visited
  file,          \* the file each worker is concerned with
  reported,      \* the files each scanner has dealt with
  known,         \* history: the files registered when its scan began
  task,          \* what the main thread is about to do
  target,        \* to which file
  edits

vars == <<urls, gone, memo, claim, pc, at, todo, file, reported, known, task, target, edits>>

Workers == Scanners \cup Viewers

Init ==
  /\ urls = Initial
  /\ gone = {}
  /\ memo = {}
  /\ claim = [f \in Files |-> None]
  /\ pc = [w \in Workers |-> "idle"]
  /\ at = [w \in Workers |-> 0]
  /\ todo = [w \in Workers |-> {}]
  /\ file = [w \in Workers |-> None]
  /\ reported = [w \in Workers |-> {}]
  /\ known = [w \in Workers |-> {}]
  /\ task = "none"
  /\ target = None
  /\ edits = 0

(* Fault: one lock for the whole map.                                      *)
ReadersAnywhere(s) == {w \in Scanners : at[w] # 0}

(* The read locks of shard s are shared; nobody holds a write lock between *)
(* two steps.                                                              *)
Readers(s) == {w \in Scanners : at[w] = s}

-----------------------------------------------------------------------------
(* Workspace requests *)

(* The iterator locks its next shard and sees what is in it.               *)
NextShard(w) ==
  /\ \/ pc[w] = "idle" /\ task # "write"
     \/ pc[w] = "scan" /\ todo[w] = {}
  /\ at[w] < Shards
  /\ at' = [at EXCEPT ![w] = @ + 1]
  /\ todo' = [todo EXCEPT ![w] = {f \in urls : ShardOf[f] = at'[w]}]
  /\ pc' = [pc EXCEPT ![w] = "scan"]
  /\ IF pc[w] = "idle"
     THEN /\ reported' = [reported EXCEPT ![w] = {}]
          /\ known' = [known EXCEPT ![w] = urls]
     ELSE UNCHANGED <<reported, known>>
  /\ UNCHANGED <<urls, gone, memo, claim, file, task, target, edits>>

(* The loop body starts with the next file ...                             *)
Visit(w) ==
  /\ pc[w] = "scan"
  /\ \E f \in todo[w] :
       /\ todo' = [todo EXCEPT ![w] = @ \ {f}]
       /\ file' = [file EXCEPT ![w] = f]
  /\ pc' = [pc EXCEPT ![w] = "query"]
  /\ UNCHANGED <<urls, gone, memo, claim, at, reported, known, task, target, edits>>

(* ... or skips it, because its text does not have the name looked for.    *)
Skip(w) ==
  /\ pc[w] = "scan"
  /\ \E f \in todo[w] :
       /\ todo' = [todo EXCEPT ![w] = @ \ {f}]
       /\ reported' = [reported EXCEPT ![w] = @ \cup {f}]
  /\ UNCHANGED <<urls, gone, memo, claim, pc, at, file, known, task, target, edits>>

(* The last shard is done: the lock is released and the answer sent.       *)
EndScan(w) ==
  /\ pc[w] = "scan" /\ todo[w] = {} /\ at[w] = Shards
  /\ pc' = [pc EXCEPT ![w] = "done"]
  /\ at' = [at EXCEPT ![w] = 0]
  /\ UNCHANGED <<urls, gone, memo, claim, todo, file, reported, known, task, target, edits>>

(* A request about one file, for instance its diagnostics.                 *)
View(w) ==
  /\ pc[w] = "idle" /\ task # "write"
  /\ \E f \in urls : file' = [file EXCEPT ![w] = f]
  /\ pc' = [pc EXCEPT ![w] = "query"]
  /\ UNCHANGED <<urls, gone, memo, claim, at, todo, reported, known, task, target, edits>>

-----------------------------------------------------------------------------
(* source_symbol, for scanners and viewers *)

(* The loop body of a scanner ends, or the request of a viewer.            *)
Return(w) ==
  /\ file' = [file EXCEPT ![w] = None]
  /\ IF w \in Scanners
     THEN /\ pc' = [pc EXCEPT ![w] = "scan"]
          /\ reported' = [reported EXCEPT ![w] = @ \cup {file[w]}]
     ELSE /\ pc' = [pc EXCEPT ![w] = "done"]
          /\ UNCHANGED reported

(* The symbols are memoised.                                               *)
Hit(w) ==
  /\ pc[w] = "query"
  /\ file[w] \in memo
  /\ Return(w)
  /\ UNCHANGED <<urls, gone, memo, claim, at, todo, known, task, target, edits>>

(* Nobody computes them: this worker does.  While another one does, the    *)
(* worker waits at "query".                                                *)
Claim(w) ==
  /\ pc[w] = "query"
  /\ file[w] \notin memo
  /\ claim[file[w]] = None
  /\ claim' = [claim EXCEPT ![file[w]] = w]
  /\ pc' = [pc EXCEPT ![w] = "compute"]
  /\ UNCHANGED <<urls, gone, memo, at, todo, file, reported, known, task, target, edits>>

(* The included scripts that are on disk and not registered.               *)
Missing(f) == Includes[f] \ (urls \cup gone)

(* get_script registers an included script: insert waits for the write     *)
(* lock, while any scanner, this worker included, reads the shard.         *)
Register(w) ==
  /\ pc[w] = "compute"
  /\ \E f \in Missing(file[w]) :
       /\ Readers(ShardOf[f]) = {}
       /\ urls' = urls \cup {f}
  /\ UNCHANGED <<gone, memo, claim, pc, at, todo, file, reported, known, task, target, edits>>

(* Every included script is registered or is not found, and the symbols    *)
(* are memoised.                                                           *)
Computed(w) ==
  /\ pc[w] = "compute"
  /\ Missing(file[w]) = {}
  /\ memo' = memo \cup {file[w]}
  /\ claim' = [claim EXCEPT ![file[w]] = None]
  /\ Return(w)
  /\ UNCHANGED <<urls, gone, at, todo, known, task, target, edits>>

(* Fault: what was found so far is the answer.                             *)
UnwindPartial(w) ==
  /\ task = "write"
  /\ pc[w] \in {"scan", "query"}
  /\ pc' = [pc EXCEPT ![w] = "done"]
  /\ at' = [at EXCEPT ![w] = 0]
  /\ todo' = [todo EXCEPT ![w] = {}]
  /\ file' = [file EXCEPT ![w] = None]
  /\ UNCHANGED <<urls, gone, memo, claim, reported, known, task, target, edits>>

(* A write is waiting: the next query call unwinds the handler, which      *)
(* releases what it holds; waiting for a lock is not a query call.         *)
Unwind(w) ==
  /\ task = "write"
  /\ \/ pc[w] \in {"scan", "query"}
     \/ pc[w] = "compute" /\ Missing(file[w]) = {}
  /\ pc' = [pc EXCEPT ![w] = "idle"]
  /\ at' = [at EXCEPT ![w] = 0]
  /\ todo' = [todo EXCEPT ![w] = {}]
  /\ file' = [file EXCEPT ![w] = None]
  /\ claim' = [f \in Files |-> IF claim[f] = w THEN None ELSE claim[f]]
  /\ UNCHANGED <<urls, gone, memo, reported, known, task, target, edits>>

-----------------------------------------------------------------------------
(* The main thread *)

(* A notification: a file is opened, changed or deleted.                   *)
Notified ==
  /\ task = "none"
  /\ edits < MaxEdit
  /\ \/ task' = "open" /\ target' \in Files \ (urls \cup gone)
     \/ task' \in {"write", "delete"} /\ target' \in urls
  /\ edits' = edits + 1
  /\ UNCHANGED <<urls, gone, memo, claim, pc, at, todo, file, reported, known>>

(* didOpen: the handlers go on while the file is inserted.                 *)
Insert ==
  /\ task = "open"
  /\ Readers(ShardOf[target]) = {}
  /\ urls' = urls \cup {target}
  /\ task' = "none" /\ target' = None
  /\ UNCHANGED <<gone, memo, claim, pc, at, todo, file, reported, known, edits>>

(* A deleted file leaves the map at once: later shards are scanned without *)
(* it.  Then its text is emptied.                                          *)
Remove ==
  /\ task = "delete"
  /\ Readers(ShardOf[target]) = {}
  /\ urls' = urls \ {target}
  /\ gone' = gone \cup {target}
  /\ task' = "write"
  /\ UNCHANGED <<memo, claim, pc, at, todo, file, reported, known, target, edits>>

(* No handler is running: the text is set and its symbols are forgotten.   *)
EndWrite ==
  /\ task = "write"
  /\ \A w \in Workers : pc[w] \in {"idle", "done"}
  /\ memo' = memo \ {target}
  /\ task' = "none" /\ target' = None
  /\ UNCHANGED <<urls, gone, claim, pc, at, todo, file, reported, known, edits>>

(* The client asks again.                                                  *)
Again(w) ==
  /\ pc[w] = "done" /\ edits < MaxEdit
  /\ pc' = [pc EXCEPT ![w] = "idle"]
  /\ UNCHANGED <<urls, gone, memo, claim, at, todo, file, reported, known, task, target, edits>>

ScannerStep(w) == NextShard(w) \/ Visit(w) \/ Skip(w) \/ EndScan(w)

QueryStep(w) == Hit(w) \/ Claim(w) \/ Register(w) \/ Computed(w) \/ Unwind(w)

Next ==
  \/ \E w \in Scanners : ScannerStep(w)
  \/ \E w \in Viewers : View(w)
  \/ \E w \in Workers : QueryStep(w) \/ Again(w)
  \/ Notified \/ Insert \/ Remove \/ EndWrite

Spec == Init /\ [][Next]_vars

(* Every handler that can go on does, and the main thread is woken when    *)
(* the lock is free or the clones are gone.                                *)
Fairness ==
  /\ \A w \in Scanners : WF_vars(ScannerStep(w) \/ QueryStep(w))
  /\ \A w \in Viewers : WF_vars(QueryStep(w))
  /\ WF_vars(Insert \/ Remove \/ EndWrite)

FairSpec == Spec /\ Fairness

-----------------------------------------------------------------------------
(* Properties *)

(* A finished scan has visited every file that was registered when it      *)
(* began, but for those the main thread deleted before it came to them:    *)
(* whatever is registered, computed, unwound or removed meanwhile.         *)
ScanIsComplete ==
  \A w \in Scanners : pc[w] = "done" => known[w] \subseteq reported[w] \cup gone

(* Every workspace request is answered.                                    *)
ScanEnds == \A w \in Scanners : pc[w] = "scan" ~> pc[w] = "done"

(* Once the main thread waits for the clones of the database, they end and *)
(* its write is applied.  (How long it waits for a shard before that is    *)
(* not bounded: the locks of the map do not prefer writers.)               *)
WriteEnds == task = "write" ~> task = "none"
=============================================================================
