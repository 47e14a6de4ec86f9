-------------------------------- MODULE Memo --------------------------------
(***************************************************************************)
(* What the memoised symbols of a file were computed from                  *)
(* (crates/resolver/src/db.rs, resolver.rs; the main thread's handlers).   *)
(*                                                                         *)
(* source_symbol is a salsa query.  salsa knows that it read the text of   *)
(* the file and computes it again when that is different.  IncludeScript   *)
(* only notes which File its path led to.  The symbols of that File are    *)
(* read, and salsa knows of them, when a name is looked up later that the  *)
(* script itself does not declare; a script that looks nothing up after    *)
(* its IncludeScript does not depend on the File at all.  Nor does salsa   *)
(* know that the query read the settings, which are plain fields of the    *)
(* database that every clone copies, and the map of known files and the    *)
(* disk, through get_script.  A change of those leaves what is memoised as *)
(* it is.                                                                  *)
(*                                                                         *)
(* Text 0 is the empty text: it includes nothing and its symbols are the   *)
(* same under all settings.                                                *)
(***************************************************************************)
EXTENDS Naturals, Sequences, SequencesExt

CONSTANTS
  Paths,         \* paths of scripts, each below the scripts directory
  Included,      \* the script that a non-empty script at this path includes
  OnDisk,        \* the scripts on disk at the start
  Volatile,      \* the scripts that are created and deleted
  Workers,
  MaxText,       \* bound: texts ever produced
  MaxFile,       \* bound: File inputs ever made
  MaxVersion,    \* bound: changes of the settings
  None

Settings == [root : BOOLEAN, version : Nat]
Memos == [text : Nat, version : Nat, inc : Nat \cup {None}, reads : SUBSET Nat]

ASSUME MemoAssumption ==
  /\ IsFiniteSet(Paths)
  /\ Included \in [Paths -> Paths \cup {None}]
  /\ OnDisk \subseteq Paths
  /\ Volatile \subseteq Paths
  /\ MaxText \in Nat \ {0} /\ MaxFile \in Nat /\ MaxVersion \in Nat
  /\ None \notin Paths \cup Nat \cup Settings \cup Memos

VARIABLES
  disk,          \* the text of each path on disk, or None
  last,          \* the last text produced
  config,        \* settings: whether a game directory is set, and their version
  files,         \* the known File of each path, or None
  path, text,    \* path and text of every File made
  memo,          \* the memoised symbols of every File, or None
  dirty,         \* Files that read the symbols of one that changed since then
  verified,      \* the Files whose memo holds in this revision
  view,          \* the settings in the clone of each worker, None if idle
  since,         \* history: version of the settings when the text was edited last
  hollow,        \* history: Files with the symbols of an empty text when deleted
  late           \* history: Files whose included script was created on disk since
                 \* their symbols were computed

inputs == <<files, path, text, since>>
symbols == <<memo, dirty, verified>>
history == <<hollow, late>>
vars == <<disk, last, config, inputs, symbols, view, history>>

FileIds == DOMAIN text
Idle == \A w \in Workers : view[w] = None

(* The symbols of a file: computed from text x under version v of the      *)
(* settings, "inc" the File that its script path led to, "reads" those     *)
(* whose symbols were looked into.                                         *)
Symbols(x, v, inc, reads) ==
  IF x = 0 THEN [text |-> 0, version |-> 0, inc |-> None, reads |-> {}]
  ELSE [text |-> x, version |-> v, inc |-> inc, reads |-> reads]

Init ==
  /\ disk = [p \in Paths |-> IF p \in OnDisk THEN 1 ELSE None]
  /\ last = 1
  /\ config = [root |-> FALSE, version |-> 0]
  /\ files = [p \in Paths |-> None]
  /\ path = << >> /\ text = << >> /\ memo = << >> /\ since = << >>
  /\ verified = {} /\ dirty = {}
  /\ view = [w \in Workers |-> None]
  /\ hollow = {} /\ late = {}

(* open_file_with_key for paths that are not known: each gets a File with  *)
(* the text on disk.                                                       *)
Open(new) ==
  LET s == SetToSeq(new)
      n == Len(s)
  IN
  /\ Len(text) + n <= MaxFile
  /\ path' = path \o s
  /\ text' = text \o [i \in 1..n |-> disk[s[i]]]
  /\ memo' = memo \o [i \in 1..n |-> None]
  /\ since' = since \o [i \in 1..n |-> 0]
  /\ files' = [p \in Paths |->
       IF p \in new THEN Len(text) + CHOOSE i \in 1..n : s[i] = p ELSE files[p]]

(* Fault: open_file_from_path finds only the paths that are known.          *)
NoneOnDisk(ps) == {}

(* What open_file_from_path opens of some paths: those it does not know,   *)
(* if they are on disk.                                                    *)
OnDiskOnly(ps) == {p \in ps : disk[p] # None /\ files[p] = None}

-----------------------------------------------------------------------------
(* The disk *)

CreateScript(p) ==
  /\ p \in Volatile /\ disk[p] = None
  /\ \/ disk' = [disk EXCEPT ![p] = 0] /\ UNCHANGED last
     \/ /\ last < MaxText
        /\ last' = last + 1
        /\ disk' = [disk EXCEPT ![p] = last']
  /\ late' = late \cup {f \in FileIds : Included[path[f]] = p}
  /\ UNCHANGED <<config, inputs, symbols, view, hollow>>

RemoveScript(p) ==
  /\ p \in Volatile /\ disk[p] # None
  /\ disk' = [disk EXCEPT ![p] = None]
  /\ UNCHANGED <<last, config, inputs, symbols, view, history>>

-----------------------------------------------------------------------------
(* The main thread *)

(* The text is the one that the symbols were computed from: they are kept, *)
(* be it after other edits.                                                *)
Undone(f, x) == IF memo[f] = None THEN FALSE ELSE memo[f].text = x

(* Fault: a setter does not wait for the workers.                          *)
SetTextAtOnce(f, x) ==
  /\ text' = [text EXCEPT ![f] = x]
  /\ since' = [since EXCEPT ![f] = IF Undone(f, x) THEN 0 ELSE config.version]
  /\ verified' = {}

(* A setter waits for the workers; it begins a revision, in which every    *)
(* memo has to be verified before it is used.                              *)
SetText(f, x) ==
  /\ Idle
  /\ text' = [text EXCEPT ![f] = x]
  /\ since' = [since EXCEPT ![f] = IF Undone(f, x) THEN 0 ELSE config.version]
  /\ verified' = {}

(* didChange.                                                              *)
Edit(p) ==
  /\ files[p] # None
  /\ \/ SetText(files[p], 0) /\ UNCHANGED last
     \/ /\ last < MaxText
        /\ last' = last + 1
        /\ SetText(files[p], last')
  /\ UNCHANGED <<disk, config, files, path, memo, dirty, view, history>>

(* A file event for a path that is on disk, or the editor opens it.        *)
Notice(p) ==
  /\ disk[p] # None
  /\ IF files[p] # None
     THEN /\ SetText(files[p], disk[p])
          /\ UNCHANGED <<files, path, memo>>
     ELSE Open({p}) /\ UNCHANGED verified
  /\ UNCHANGED <<disk, last, config, dirty, view, history>>

(* Fault: a File that is forgotten keeps its text.                         *)
NoticeGoneOnly(p) ==
  /\ disk[p] = None /\ files[p] # None
  /\ files' = [files EXCEPT ![p] = None]
  /\ UNCHANGED <<disk, last, config, path, text, since, symbols, view, history>>

(* A file event for a path that is gone: the File is forgotten and emptied *)
(* so that whatever depends on it is computed again.                       *)
NoticeGone(p) ==
  /\ disk[p] = None /\ files[p] # None
  /\ SetText(files[p], 0)
  /\ files' = [files EXCEPT ![p] = None]
  /\ hollow' = IF Undone(files[p], 0) THEN hollow \cup {files[p]} ELSE hollow
  /\ UNCHANGED <<disk, last, config, path, memo, dirty, view, late>>

(* didChangeConfiguration: the fields are assigned while workers may be    *)
(* running with older ones.  A new game directory has its scripts opened.  *)
Configure ==
  /\ config.version < MaxVersion
  /\ \E root \in BOOLEAN :
       /\ config' = [root |-> root, version |-> config.version + 1]
       /\ IF root /\ ~ config.root
          THEN Open(OnDiskOnly(Paths))
          ELSE UNCHANGED <<inputs, memo>>
  /\ UNCHANGED <<disk, last, dirty, verified, view, history>>

-----------------------------------------------------------------------------
(* Workers *)

Start(w) ==
  /\ view[w] = None
  /\ view' = [view EXCEPT ![w] = config]
  /\ UNCHANGED <<disk, last, config, inputs, symbols, history>>

Stop(w) ==
  /\ view[w] # None
  /\ view' = [view EXCEPT ![w] = None]
  /\ UNCHANGED <<disk, last, config, inputs, symbols, history>>

(* The script path in file f under settings v, if f has one.               *)
Script(f, v) == IF text[f] = 0 \/ ~ v.root THEN None ELSE Included[path[f]]

(* get_script: what it does not know and finds on disk it opens.           *)
Register(w) ==
  /\ view[w] # None
  /\ \E f \in FileIds :
       /\ OnDiskOnly({Script(f, view[w])} \cap Paths) # {}
       /\ Open(OnDiskOnly({Script(f, view[w])} \cap Paths))
  /\ UNCHANGED <<disk, last, config, dirty, verified, view, history>>

(* All that salsa saw the computation of this memo read is as it was: the  *)
(* files whose symbols it read are verified first.                         *)
Valid(f) ==
  /\ memo[f] # None
  /\ memo[f].text = text[f]
  /\ f \notin dirty
  /\ memo[f].reads \subseteq verified

(* Something was different.                                                *)
Outdated(f) == memo[f] # None => memo[f].text # text[f] \/ f \in dirty

Verify(w) ==
  /\ view[w] # None
  /\ \E f \in FileIds \ verified :
       /\ Valid(f)
       /\ verified' = verified \cup {f}
  /\ UNCHANGED <<disk, last, config, inputs, memo, dirty, view, history>>

(* The files whose symbols a computation reads: none if it looks no name   *)
(* up in what it includes, else the File "inc" it includes and perhaps     *)
(* those that are included there.                                          *)
LookedInto(inc, reads) ==
  \/ reads = {}
  \/ inc \in reads /\ \A g \in reads \ {inc} : \E h \in reads : memo[h].inc = g

Readers(f) == {g \in FileIds : memo[g] # None /\ f \in memo[g].reads}

(* Equal symbols may have been found by reading other files.               *)
SameSymbols(old, new) == old # None /\ [old EXCEPT !.reads = new.reads] = new

(* symbol_from_source_file under the settings of this worker's clone.  Who *)
(* read the symbols of the file is told if they are not what they were;    *)
(* they may be equal although those of the script it includes are not.     *)
Compute(w) ==
  /\ view[w] # None
  /\ \E f \in FileIds \ verified, reads \in SUBSET verified :
       LET script == Script(f, view[w])
           inc == IF script = None THEN None ELSE files[script]
           new == Symbols(text[f], view[w].version, inc, reads)
       IN
       /\ Outdated(f) = TRUE
       /\ OnDiskOnly({script} \cap Paths) = {}
       /\ LookedInto(inc, reads)
       /\ memo' = [memo EXCEPT ![f] = new]
       /\ \/ dirty' = (dirty \ {f}) \cup Readers(f)
          \/ SameSymbols(memo[f], new) /\ dirty' = dirty \ {f}
       /\ verified' = verified \cup {f}
       /\ late' = late \ {f}
  /\ UNCHANGED <<disk, last, config, inputs, view, hollow>>

WorkerStep(w) == Start(w) \/ Stop(w) \/ Register(w) \/ Verify(w) \/ Compute(w)

Next ==
  \/ \E p \in Paths : CreateScript(p) \/ RemoveScript(p) \/ Edit(p) \/ Notice(p) \/ NoticeGone(p)
  \/ Configure
  \/ \E w \in Workers : WorkerStep(w)

Spec == Init /\ [][Next]_vars

-----------------------------------------------------------------------------
(* Properties *)

(* After a file was edited, and not back to the text its symbols are known *)
(* for, its symbols and diagnostics are computed under the settings it was *)
(* edited under, or newer ones, whatever workers ran with older ones.      *)
EditAppliesSettings ==
  \A f \in verified : text[f] # 0 => memo[f].version >= since[f]

(* A file that is deleted and created again is another File.  Who read the *)
(* symbols of the first one notices, unless they were those of an empty    *)
(* text when it was deleted.  (Who includes it and looks nothing up in it  *)
(* keeps the deleted File.)                                                *)
ReaderNoticesDeletion ==
  \A f \in verified :
    memo[f].inc \in memo[f].reads /\ files[path[memo[f].inc]] # memo[f].inc
      => memo[f].inc \in hollow

(* A file uses no included script although the script is known, only if    *)
(* its symbols were computed under other settings, or before the script    *)
(* was on disk: what the disk had then get_script has found, whichever     *)
(* thread opened it.                                                       *)
MissedScriptHasCause ==
  \A f \in verified :
    text[f] # 0 /\ Included[path[f]] # None /\ memo[f].inc = None =>
      \/ files[Included[path[f]]] = None
      \/ memo[f].version # config.version \/ ~ config.root
      \/ f \in late
=============================================================================
