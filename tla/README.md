# Verification of the TF2 VScript language server

TLA+ models, TLC configurations and TLAPS proofs for the language server in
`src/crates/`. Paths below are relative to `src/`.

The server is one process. Its main thread owns the LSP connection and is the
only writer of a salsa database; a pool of workers answers requests on clones
of that database. A file is lexed, parsed and resolved lazily by salsa queries,
which are memoised per revision of the database. A write raises salsa's
cancellation flag and blocks the main thread until every clone is dropped.

## 1. Inventory

| Component | Code | State | Operations |
|---|---|---|---|
| Event loop, request queue | `crates/server/src/session.rs`, `main.rs` | `req_queue`, task channel, connection | `main_loop`, `req_exec`, `req_snapshot`, `req_complete`, `not_exec`, shutdown |
| Worker pool | `crates/server/src/vendored/pool.rs` | job channel, threads | `spawn`, the worker loop |
| Workspace maps | `crates/db/src/lib.rs`, `resolver/src/db.rs` | `files`, `urls` (concurrent maps), salsa `File` inputs | `open_file*`, `delete_file*`, `get_script`, `load_all_scripts`, `file_iter` |
| Document notifications and changes | `main.rs` 186-301, `positions.rs` | the text of each `File` | didOpen, didChange, didChangeWatchedFiles, no-op didClose and didSave |
| Settings | `main.rs` 303-363, `resolver/src/db.rs` 50-150 | plain fields of the database, copied by clones | `update_config`, `update_tf2_root` |
| Memoised symbols | `resolver/src/db.rs`, `resolver.rs` | salsa's memos | `source_symbol` |
| Workspace-wide handlers | `handlers/diagnostics.rs`, `find_references.rs`, `rename.rs`, `workspace_symbol.rs` | the shard lock of the iteration | loops over `file_iter` |
| Resolver: function bodies | `resolver.rs` | `pending_functions`, traces, scopes, the arena | `collect_function`, `resolve_deferred_function_entry`, purge, the last pass |
| Resolver: types and narrowing | `symbol.rs`, `resolver.rs`, `resolver/src/lib.rs` | `Symbol::typ`, the flow types of scopes | `merge_types`, `check_type`, `update_type`, `apply_condition_narrowing` |
| Parser | `parser/src/parser.rs`, `token_set.rs` | tokens, events, pending trivia | one function per construct |
| Lexer | `parser/src/lexer.rs` | position, text, errors | `next_token`: one function per kind of token |
| Doc comments | `parser/src/doc_comment.rs` | position, events, errors | descriptions, tags, types, types of functions |
| Tree building | `parser/src/lib.rs` | rowan's builder | `Parse::new`: the events of the parser and of the doc comments |
| Syntax trees | `parser/src/ast.rs` | none | accessors |
| Names and members | `resolver.rs`, `resolver/src/lib.rs` | scopes, containers, delegates | `resolve_name`, `table_members`, `members_of_table`, `symbols_at` |
| Imports | `resolver.rs`, `resolver/src/lib.rs`, `db.rs` | the imports of each table, salsa's query stack | `IncludeScript`, `import_members`, `source_symbol` |
| Expressions | `resolver.rs` | none of their own | types of operators, literals, calls |
| Handlers about one file | `handlers/` | none | one function per request |
| String literals, standard library | `string_literals*`, `vscript_lib` | tables | look-ups |
| Editor extensions | `editors/` | a client process | documents, file events, settings |

How they interact. Client messages and the tasks of the workers reach the main
thread through two channels. A request takes a clone of the database into the
job channel; its outcome comes back as a task. The notification handlers write
`File::text`, the maps and the settings. The workers read the memoised symbols
and, through `get_script`, *write* the two maps while they resolve
`IncludeScript`: the maps are the one state both kinds of thread change. The
resolver calls the parser, and for an included script itself through a query,
in the middle of the statement that looks a name up. What it finds there is
looked up again, later and on its own, by the handlers (`symbols_at`).

What is hard: a job that is retried, cancelled, answered and overtaken by a
write at once; the maps, whose operations are sequences of single accesses;
shard locks held over computations; ranges of one message applied in another
order; settings and disk contents that salsa does not know were read; a body
that is walked again while functions found in it are pending; types cached in
unions and narrowed on the way through loops, jumps and assignments in
conditions; a lexer and a parser that must recover from anything, a parser that
moves its own markers, and doc comments whose events are shifted into those of
the script; names that several includes, delegates, locals and constants supply,
found while a script is half resolved; queries that come back to themselves.
`PROJECT.json` lists these as hazards, each at its line.

## 2. Modules

| Module | Models | Actions |
|---|---|---|
| `Session` | event loop and pool | one per message kind (`Receive*`), one per task kind (`Take*`), `ApplyWrite`, and `StartJob`, `FinishJob`, `UnwindJob`, `PanicJob` per worker |
| `Exchange` | abstract: what a client observes | `Ask`, `Refuse`, `Answer`, `Surplus`, ... |
| `SessionProofs` | theorems about `Session`, and that it implements `Exchange` | |
| `Workspace` | maps, texts, file events, late watcher | one action per map access of each thread |
| `Scan` | iteration under shard locks, salsa claims, cancellation | one per query, lock or shard step |
| `DocSync` | the changes of one didChange | the client's edits, `DidChange` |
| `Memo` | what memoised symbols were computed from | settings, file events, and `Register`, `Verify`, `Compute` of the workers |
| `Deferred` | order of walks over function bodies | declare, call, diagnostic, end of a walk, last pass |
| `Types` | operators on types | none (pure) |
| `Flow` | flow types next to a run of the program; extends `Types` | `Assign`, `Block`, `Then`, `Else`, `While`, `For`, `Do`, `ForEach`, `Switch`, `Case`, `Catch`, `Jump`, `Leave` |
| `Names` | members, delegates, imports and the queries for them | `Statement`, `EndOfScript`, `WalkFunction`, `Return` |
| `Execution` | what the name stands for when the scripts run; extends `Names` | |
| `Characters`, `Lexer` | characters; every token and its errors | `NextToken`, an operator |
| `DocComment` | the parser of a doc comment | `Parse`, an operator |
| `Tokens`, `Events`, `Parser` | token sets, events and markers, the grammar with its recovery | `TopStatement`, `EndOfFile` |
| `Syntax` | what the parser promises; extends `Parser` | |
| `Front` | `Parse::new`: lexer, parser and doc comments composed, and the tree | `LexToken`, `ParseStep`, `Build` |
| `Spelling` | what `Parse::new` promises; extends `Front` | |
| `WorkspaceProofs`, `ScanProofs`, `MemoProofs`, `DeferredProofs`, `DocSyncProofs`, `FlowProofs`, `NamesProofs` | theorems about the module each is named after | |
| `MC*` | instances for TLC | |

Correspondence of state, module by module.

* **Session.** `pending` is `req_queue.incoming`, `jobs` the pool's channel,
  `run` the job of each worker, `tasks` the task channel, `writes` the
  `set_text` calls the current handler has still to make (the main thread is
  inside salsa's setter), `base` the revision of a request's clone. The
  payloads are abstracted: a job is the id of its message. A handler's query
  may unwind when a write is waiting, and then the request is retried or told
  "content modified" by its registration; it may also not notice and finish.
  `doomed` and `lost` describe a handler that panics, and those that waited on
  its query. The client uses an id once. The `Ok` branch of
  `req_exec_sync_mut` sends no response; the one method registered with it
  is shutdown, which answers by itself, so the branch is not reached.
* **Exchange.** `asked`, `open`, `replies`. A withdrawn request may get one more
  reply after "canceled" (`Surplus`): the code does that.
* **Workspace.** `files` and `urls` are the two maps, `text` the salsa inputs,
  `op[t]` what thread `t` is between two map accesses. A text is the number of
  the edit that made it; an incremental edit on another text than it was made
  for gives `Garbled`. A worker at "found" has the `File` that `get_script`
  returned and may ask for its url at any time, until `Answer`. `blame` and
  `touched` are history.
* **Scan.** `at` is the shard whose read lock an iteration holds, `claim` the
  thread that computes a file's symbols. `task` and `target` are what the main
  thread is about to do: `Insert` and `Remove` take the write lock of one shard
  and do not wait for the workers' clones, the "write" that follows a deletion
  does (`EndWrite`). `gone` are the deleted files.
* **DocSync.** Texts are sequences of distinct marks, positions are offsets of
  a one-line document; conversion failure, dropping, the stable sort by start
  and `replace_range`'s panic are there.
* **Memo.** `memo[f]` records the text and the settings' version a computation
  used, the `File` its `IncludeScript` led to (`inc`) and the `File`s whose
  symbols it looked into (`reads`). The last two differ: `include_script` only
  pushes the `File` into the imports, and salsa hears of a dependency when a
  later look-up goes through `import_members`; whether one does is the script's
  business, so `Compute` chooses (`LookedInto`). `verified` is what salsa took
  as valid in this revision. `view` is the settings in a worker's clone. A
  recomputed file tells who read it (`dirty`) if its symbols changed.
* **Deferred.** The arena is `site`, a function's trace is in `traces` while it
  is checked in, `stack` holds the walks under way. A body is a sequence of
  declarations, calls with one argument and diagnostics.
* **Types, Flow.** A type is a primitive, a union with cached kinds or an enum.
  A primitive is a kind and what is known beyond it (`DataOf`: a literal, a
  class), as the variants of `Primitive` are. The operators say which members a
  function keeps; the loops that collect them are sets of places and `Chosen`.
  `Flow` follows one symbol: the resolver's `typ`, `scopes`, `dead_code`,
  `can_break` and `can_continue`, and next to them the `value` of a run of the
  same program and where that run is (`run`). A loop runs its body at most once;
  its condition is asked again when the body ends. A body starts with the
  declaration, whose initialiser refines a documented type as an assignment
  does. What is assigned may be anything, whatever type is documented. `why` in
  a scope collects the causes for which its flow type may be wrong, `doubts`
  those for `typ`. A `for` collects its step
  before the body, as the code does, and the run executes it after.
* **Names, Execution.** There is one name, and a symbol is a script and the
  number of the statement that declares it. A script has the tables `this` (its
  source table), `root`, `const` and a table `T` of its own. `stack` holds the
  scripts whose `source_symbol` is under way, each with the statement that
  waits; `known` are the memoised ones; `members`, `delegate` and `imports` are
  those of each script's arena. A function reads the name when its body is
  walked, at the end. `answers` is history: what each slot and function found.
  The recursion over imports is a function of *gatherings*: what was collected,
  which scripts were seen, and what is still to be looked at, in the order in
  which the code comes to it; a query that is missing ends it. Delegates lead
  over at most four tables before they go round.
  `Execution` runs the same scripts from the top, with every `IncludeScript`
  executed where it is and into the table it names, and looks the name up as
  the interpreter does. Where the two differ, one of the named causes holds.
* **Lexer, DocComment, Front.** A lexer is a record with the text, the
  position, the tokens and the errors. Positions are those of characters; the
  ranges of errors are in bytes, so that a range inside a wide character shows.
  `Front` has the lexer, the parser's `p` and the builder as variables; the
  builder is rowan's, modelled from the calls that `parser/src/lib.rs` makes.
  Characters that no branch of the lexer tells apart are one, and so are
  keywords but four.
* **Parser.** The parser's state is the record `p`: position, pending trivia,
  the event list, the count of failed names (`fuel`). Every parse function is
  an operator from such a record to such a record; a step of the
  specification is one statement of the source file. Recursion goes through
  the one operator `Parse(function, q, with)`. Kinds of tokens that the parser
  never tells apart are one kind.

Definitions named as a *Fault* are the plausible bugs the properties are
checked against; no specification uses them.

## 3. Runs

| Run | Instance | What it shows |
|---|---|---|
| `session` | a retried, an unretried and an unknown request, a note, two workers, `MaxBatch` 2, `MaxRevision` 2 | no request is queued, running or reported twice; none is lost unless its handler panics; a second reply only after "canceled"; no write under a live clone; "content modified" only after a write; writes and requests complete; the exchange refines `Exchange` |
| `workspace` | one path, two workers, `MaxText` 1, `MaxFile` 2, `MaxQueue` 2 | `get_url` fails for a registered `File`, or for one a handler got from `get_script`, only while that `File` is being registered or deleted; the text differs from the editor's only for named causes, two of them only after a worker was at the path |
| `scan` | three files in two shards, one scanner, one viewer, two notifications (open, change, delete) | a finished scan visited every file that was known when it began and was not deleted since; scans end and writes are applied |
| `scan_blocked` | the included script in the shard of its includer | **finding**: the worker waits for its own lock |
| `document_changes` | at most 4 characters, 3 edits or full texts, all batchings | bottom-up batches are applied as in the editor and never out of bounds |
| `memo` | two scripts, one including the other, two workers, `MaxText` 2, `MaxFile` 3, `MaxVersion` 1 | an edit applies the settings of its time; who read the symbols of a deleted `File` notices unless it was empty; a known script is missed only for named causes |
| `deferred` | every program with functions f, g and n (nested in f), two types, at most 2 calls in a body | each body is walked, no trace is lost, each doc is folded once, diagnostics survive purging, the last walk knows all types, the resolver ends |
| `deferred_duplicates` | the same | **finding**: nested diagnostics are reported twice |
| `flow` | four families: tests (4 documented types, 5 assigned or initial ones, 9 conditions, 3 statements), conditions and steps that assign (3), jumps through every statement (5), documented types that values refine (4) | unions stay canonical; wherever the run comes the type stands for the value, but for eight named causes; dead code is dead, and `break` and `continue` are reported exactly where nothing takes them |
| `parser` | 17 families of texts of up to 10 tokens, 10 families of up to 14 characters | the tree holds each token once and nests; operators bind as documented; comments go where they belong; the accepted expressions are those of an independent grammar; only texts with errors reach an assertion. Tokens are those of an independent description of the lexis; every malformed one is reported at a place of the text; the tree, with the pieces of doc comments, is the text |
| `parser_panics` | unclosed arrays | **finding**: the parser's limit on attempts is reached |
| `names` | scripts `a` (3 statements), `b` (up to 2) and `c` (1), a library; includes into several tables in both orders of the map, delegates, locals and constants, includes that go round | a name is what it is when the scripts run, but for named causes; `symbols_at` agrees with the resolver but for what follows the place; resolving fails only for scripts that need each other and circles of delegates |

### Bounds

* `session`: two workers are needed for two jobs to overlap, two writes for a
  retried job to be overtaken again, a batch of two for a handler that is
  between two writes. Three request kinds cover the branches of the dispatch.
* `workspace`: the operations touch a single path, so one path is enough; two
  workers make every pair of overlapping `open_file`s, and two `File`s are what
  a doubled registration or a deletion with re-creation needs. `MaxQueue` lets
  one message wait behind another, or a late event behind an edit.
* `scan`: two shards are the difference between blocking and not; a viewer
  brings the second claim of a file. Two notifications are what an insertion or
  a deletion in a shard still to come, and a write that unwinds the scan after
  it, need. After `MaxEdit` notifications nobody asks again,
  the only reason why the system may stop.
* `document_changes`: three changes are one more than the shortest message that
  distinguishes the order of a list from the order of its ranges.
* `memo`: file 3 is the re-creation of a deleted one; text 2 differs from the
  first; two workers have different settings in their clones. The included
  script is created and deleted, so that it is missed and found later, and the
  script that includes it may look into it or not.
* `deferred`: the smallest programs with mutual recursion, a nested function
  and a second call that widens a parameter.
* `flow`: an assignment inside a branch inside a loop is three statements, and
  a jump out of a `switch` in a `try` in a loop with a statement after it five.
  One family with all of it is out of reach; the conditions and types that a
  family leaves out are in another one with shorter bodies. The fourth family
  has what the proof of `WrongHasCause` showed the first three to lack.
* `parser`: `Fuel` stands for the 100 000 attempts of the code and is larger
  than any attempt count a text of the families other than open arrays
  reaches in one place; the families reach each statement's recovery, each kind of
  token and each way it may end, and each tag and type of a doc comment.
* `names`: an order of two includes needs three statements and two further
  scripts; `c` is what makes an include nested. One library stands for the
  three, which differ in their place in the list alone. The order of a map is
  arbitrary, so both orders of its keys are families.

Several runs switch the deadlock check off: the client may stop sending
(`session` after shutdown, `workspace`, `document_changes`, `memo`), the
behaviours are bounded (`scan`), or the program is over (`deferred`, `flow`,
`parser`, `names`).

### Fairness

* `Session`: weak fairness of `ApplyWrite` (salsa wakes the setter when the
  last clone is dropped), of taking tasks (the `select!` of `main_loop` picks
  among ready channels at random), of `StartJob` for each thread (a blocked
  `recv` wakes) and of the end of each thread's job (handlers terminate or
  unwind). Nothing is assumed of the client; that is why `RequestsComplete`
  allows shutdown. `MaxRevision` bounds the writes: under edits that never stop
  a retried request may be overtaken for ever, and the property does not deny
  it.
* `Scan`: weak fairness of each worker's steps and of what the main thread has
  begun (`Insert`, `Remove` or `EndWrite`). A new notification or a new request
  is never required. `WriteEnds` is about the wait for the clones: how long an
  insertion or a deletion waits for its shard while scan follows scan is not
  bounded, since the map's locks do not prefer writers.
* `Deferred`: weak fairness of `Next`, that is, the one thread goes on.
  `Terminates` is then a property of the resolver's own loops.
* The others state safety only, and assume no fairness.

## 4. Proofs

Each theorem holds for every value of the constants that the `ASSUME` of its
module allows; no bound of a run is among the hypotheses. The assumptions are
that `None` (or `NoJob`) is none of the things it stands next to, that the sets
of files or paths that the code keeps are finite where something is counted,
that bounds are naturals, for `Deferred`, that a function is declared in one
place, in the body of its parent, and for `Flow`, that types which are written
in a body are well formed (`IsType`, what the type parser and the literals
give), that `any` and `null` have no data and only numbers and booleans have
false ones, that a class is among its own superclasses, and that what a symbol
holds in the run is one value: not `any`, and with its datum if its kind has
data. That value need not fit a documented type. For `Names`, the scripts are
finitely many, and a family gives each script the statements it may contain,
their greatest number, and the order of the map of imports as four tables.

| Module | Theorem | Statement, and for which systems |
|---|---|---|
| `SessionProofs` | `TypeCorrect` | `Spec => []TypeOK`; any requests, notes and workers |
| | `OneCarrierHolds` | a request is not queued, running or reported twice |
| | `NothingLostHolds` | a registered request has a carrier or its handler panicked |
| | `SecondReplyHolds` | at most two replies, the first of two is "canceled" |
| | `SnapshotIsCurrentHolds` | queued and running jobs see the newest revision |
| | `ModifiedIsTrueHolds` | "content modified" follows a write, or a panic |
| | `ClientImplemented` | `Spec => Client!Spec`: every step is a step of `Exchange` or stutters |
| `WorkspaceProofs` | `MissingUrlHasCauseHolds` | a registered `File`, or one that a handler got from `get_script`, has a url unless a thread is registering it or the main thread deleting it; any paths, workers and queues |
| | `DivergenceHasCauseHolds` | a handled document has the editor's text but for the named causes, and without a worker at the path but for two |
| `ScanProofs` | `ScanIsCompleteHolds` | a finished scan visited every file known when it began and not deleted since; any shards and includes |
| `MemoProofs` | `EditAppliesSettingsHolds` | an edit applies the settings of its time, whatever older clones still run; any includes, workers and settings |
| | `ReaderNoticesDeletionHolds` | who read the symbols of a deleted `File` uses them no more, unless they were those of an empty text |
| | `MissedScriptHasCauseHolds` | a known script is missed only by symbols of other settings, or of before it was on disk |
| `DeferredProofs` | `TracesAccountedHolds` | no trace is lost, no body is walked inside itself; any program |
| | `DocFoldedOnceHolds` | a doc is folded once, before the first walk |
| | `EveryBodyWalkedHolds` | every function is walked in the end |
| | `ErrorsKeptHolds` | in the end every collected function has its diagnostics, one that is not nested exactly once; no name stands for a purged function; any nesting, calls and recursion |
| | `LastWalkKnowsHolds` | the last walk of what a name stands for knows all types but those it missed while running |
| `DocSyncProofs` | `TextMirroredHolds` | the server has the editor's text unless a message was not bottom-up; any texts, edits and batches |
| | `NeverOutOfBoundsHolds` | `replace_range` panics only after such a message |
| `FlowProofs` | `JumpsReportedHolds` | dead code is dead, and jumps are reported where nothing takes them; bodies of any length and depth |
| | `TypesCanonicalHolds` | the cached kinds of a type are those of its members, a union has two members or more and no kind twice but instances; any kinds, data, conditions and bodies |
| | `WrongHasCauseHolds` | where a run comes the flow type stands for the value, unless one of the eight causes is known; with and without an initialiser, whatever is assigned; any kinds, data, classes, conditions and bodies |
| `NamesProofs` | `HandlersAgreeHolds` | `symbols_at` gives a place of a resolved script what the resolver found there, unless something after the place changes what is before it; any scripts, programs, includes and delegates |
| | `CrashHasCauseHolds` | a cycle of queries only for two scripts that need each other, an overflow only for delegates that go round |

A theorem of safety has the same shape everywhere: an inductive `IInv`, one
lemma for `Init`, one per action (and under it one per conjunct that the action
can disturb), and `PTL` for the last step. What each `IInv` adds to the
property:

* **Session.** `Carriers`: `OneCarrier`, `NothingLost`, `SnapshotIsCurrent` and
  that what is carried was received. They need one another. Without
  `OneCarrier` the end of a job could leave a second carrier; without it a
  retry could enqueue a job that is already queued; a fresh id is not carried
  because only received ids are. `ReplyState`: how many replies an id has, by
  whether it was seen, is pending, is carried. `SecondReplyOnlyAfterCancel` does
  not say that an id that is carried and no longer pending has exactly the reply
  "canceled", which is what the next reply needs. `ModifiedSource`: a job is
  unwound while a write waits, so its task is there before the revision changes;
  the invariant is about the tasks that are there once no write is waiting. A
  job is also unwound because it waited on a query that panicked: then
  `doomed # {} => lost # {}` is needed. The refinement maps `asked` to the seen
  requests and `open` to `pending`; its step lemma uses `IInv` before and after.
* **Workspace.** `Owned`: a `File` is registered under one path, every thread
  that works on it has that path in mind, and one that is not yet bound is in
  nobody else's hands; without it a removal could take away the url of a `File`
  that another path has. `HasUrl` is the first part of `MissingUrlHasCause`
  with the places where the exempt thread may be. `Given` is the second: what a
  handler holds was registered with its url, or is being registered; the main
  thread alone takes a url away, and cannot end the deletion before the handler
  ends, since emptying the text waits for the handler's clone. `Alone`: as long
  as no worker came to a path, what the main thread looked up there still holds
  at its later accesses. `Chained`: the messages about a document, in order,
  start where the one before them ended. `Synced`: a document's next message
  starts from the text that the server has, or will have when the main thread
  is done with it; the property only speaks of the time when there is none.
  `Ready`: a `File` on its way into the map has the text it was opened with.
* **Scan.** `Claimed` and `Locked` tie claims and shard locks to what a worker
  does. `Accounted`: a file that was known at the start is in a shard to come,
  among the files to visit, visited, done or deleted. The map is not a snapshot:
  a file may be inserted in a shard already passed or taken out of one to come,
  and the invariant is about those known before.
* **Memo.** `Known`: deleted `File`s are empty. `Consistent`: what was verified
  in this revision has been computed from its text and from symbols that were
  verified (`reads`), and no symbols were computed from themselves; otherwise
  the computation of a file could invalidate what it was computed from. `Aged`:
  no clone is older than the settings of an edit, since an edit waits for
  clones. `Told`: who included a deleted `File` and read its symbols was told,
  or the deletion changed nothing. `Versions`: a version names one state of the
  settings, and nobody is ahead of the main thread. `Absent`: a script that was
  missed under the settings of now was neither known nor on disk then, and is
  neither unless it was created since; without the disk the property is not
  inductive, for a `File` is made of what the disk has.
* **Deferred.** `Walks`: the file's walk is the outermost one until the last
  pass. `Named`: a name stands for a function collected at its site. `Learnt`:
  a walked function knows its parameter's types or missed one; this, said of
  every function *that a name stands for*, is inductive, and is not for the
  functions a later declaration replaced. `Passed`: the pass leaves no function
  behind. `Diagnosed`, for the diagnostics: `Kept` says that a function has
  them, or has those its running walk has come to, or waits to be walked, or is
  *due*: a function it lies in waits, or a walk that is under way has yet to
  pass the declaration of it or of one it lies in. A purge makes everything
  inside a body due at one stroke, since the walk that purged passes the
  declarations in it (`Rooted`: there is one for every collected function).
  That a function which is not nested has them exactly once needs that the file
  is walked once, passes each declaration once (`Ahead`, `Single`) and that
  each walk began from none (`Exact`).
* **DocSync.** `InStep`: there is a chain of texts, one between any two messages
  on their way, that begins with the server's and ends with the editor's; each
  message leads from one to the next by the editor's own changes. The theorem
  about one message (`RangesAreMirrored`) is what makes the chain move: sorting
  bottom-up ranges and applying them gives what the editor had. The text of a
  document that got a message that was not bottom-up is not part of the chain,
  but the chain of the editor goes on, so that a full text puts the server
  back. `Decreasing` and `Below` state what bottom-up means for ranges far
  apart in a message.
* **Flow.** `Jumps`: `can_break` and `can_continue` are right for the scopes, and
  the copy that each frame saved is right for the frames below it
  (`Restores`). The property alone is not inductive: nothing in it says what a
  loop restores when it ends.
  `TInv`, for the types: the symbol's type and each flow type are well formed,
  and a frame whose condition is asked again still has one. The lemmas under it
  say of merging, checking and each narrowing function that it makes a
  well-formed type of well-formed ones; the members that a merge leaves over
  are a recursive function, which is shown to exist.
  `TrueInv`, for `WrongHasCause`: there is a place `j` among the statements
  around, up to which the run came (`Came`), and the flow types of the frames up
  to there tell the value, have a cause, or have an assignment in a frame above
  them (`Good`). The property looks at the innermost frame alone, but the ones
  below are what is left when it ends. `Told` says which frames do not
  count while the run is elsewhere: the one of a branch it did not come into, and
  around a `while` the one that its condition narrowed. `Reached` puts the
  place, the frames that count and the value together. `Shadowed`: a frame that
  was assigned in and has no flow type lies over frames whose types are known to
  be old. `Assigns`: a condition or a step that assigns, and is executed when the
  body ends, was written down when the loop began. `Suits`: where no scope
  has a flow type, the symbol's own type tells the value or is doubted.
  `Settled`: a documented type is doubted once a scope that is open was assigned
  in; an inferred type always has `any` among its kinds: `local_variable` adds
  it, and merging loses no kind (`MergeFlags`). Under it are lemmas that
  checking and narrowing lose no value: if the type stood for it and the test
  allows it, the new type stands for it (`CheckStands`, `NarrowedTells`,
  `GuardedTells`).

* **Names.** `HandlersAgree` speaks of scripts that are resolved, of answers
  given long before. `Kept` says of every answer, at every step, that looking
  the name up again now gives the same and waits for nothing, or that something
  after the place has changed what is before it. It is kept because a look-up
  that waits for nothing has read the script itself, up to the place, and
  scripts that are `known`, whose tables nobody changes any more
  (`KeepsKnown`): the lemmas of `Undisturbed` go through the look-up function
  by function. At the end `SymbolsAt` reads the same tables in another order
  (`SymbolsAtFacts`). `Recorded`: the imports and delegates of a script are
  those its statements say; with it a look-up that fails has a cause in the
  texts (`Cause`, again function by function): what is missing is reached from
  what the script needs, and what overflows has tables whose last delegates are
  among them. `Stacked`: each script on the stack is reached from the one below
  it, so that a query for one of them closes a circle of two. Neither property
  is inductive without these: they name only what is recorded or where it ended.
  A gathering is followed by induction over the scripts it has not seen and,
  among those with equally many, the length of what it has to look at
  (`GatherInduction`); the function that repeats its steps is shown to exist
  (`RepeatsExist`), for inclusions that go round as well.

TLC checked each `IInv` as an invariant of its run before it was proved (those
of `Flow` with the quantifier over sets of frames in `Scoped`, `Typed` written as one over
the frames), but for that of `DocSync`, whose existential quantifier over texts
is too large to enumerate. The proofs changed three statements: `LastWalkKnows` first spoke of
every function collected at a site, which is false for functions nested three
deep (TLC's instance had two levels); it is now about the function that the
name stands for, the only one a later call can reach. `ErrorsKept` gained that
no name stands for a purged function. `WrongHasCause` was false outside the
run's families: two causes were missing ("mixed" and "skipped", section 5), and
the fourth family now has bodies with them. The proof of `TypesCanonical` made
the branches of the operators in `Types` disjoint where two of them could apply.
`Inside` is the least set that holds what is declared in it, which
is all the proof needs: nothing is said about how deep functions nest.
For `Names` the recursion over imports and delegates became functions, and what
`CrashHasCause` calls needing each other counts libraries like includes: a
library's own symbols are asked for by every script, and the cycle is the same.

The prover cannot instantiate a theorem that takes an operator, so induction is
stated over sets (`Least`: a set of naturals that is not empty has a least
element; `SetInduction`: one that holds 0, and with a number the next, holds
them all) from the library's well-foundedness of the naturals. Functions
defined by recursion on a number (the stages of a sorted message, what a merge
leaves of a union) are shown to exist by it, and then to satisfy their
equation.

Only model-checked:

* `AnswerHasCause`, which compares `Names` with `Execution`: its causes
  name what TLC met in the five families, and are not claimed to be all there
  are in programs of any length; the execution also uses recursive operators.
* everything in `Events`, `Parser`, `Syntax`, `Lexer`, `DocComment`, `Front` and
  `Spelling`: they use recursive operators, or reach them.
* liveness (`WritesComplete`, `RequestsComplete`, `ScanEnds`, `WriteEnds`,
  `Terminates`): the prover has no rule for fairness.

## 5. Findings

1. **A workspace request can wait for itself** (`scan_blocked`,
   `crates/db/src/lib.rs:18`). The iteration keeps a shard of the `urls` map
   read-locked while it computes symbols; registering an included script that
   falls into that shard waits for the thread's own lock, and the next write
   then blocks the main thread.
2. **Diagnostics of nested functions are doubled** (`deferred_duplicates`,
   `resolver.rs:2857`). Functions a first walk collected become stale but
   stay pending, and are walked at the end next to their replacements.
3. **An unclosed array stops the parser** (`parser_panics`,
   `parser.rs:1329`). `local a = [ }` goes round in place until the assertion
   on attempts fails.

Met on the way, and named in the properties as the exceptions they are.

* Flow types (`WrongHasCause`): "loop": `while_statement` (`resolver.rs:3920`)
  narrows before it enters the scope, so that the condition of a loop outlives
  it, although `CHANGELOG.md:13` calls narrowing block-scoped; "round": the
  step of a `for` is collected before the body (`resolver.rs:3606`) but runs
  after it; "falsy": `resolver.rs:6620` drops 0 and false where a branch runs
  because of them; "pinned": the first value of a documented type, the
  initialiser's where there is one (`resolver.rs:3415`), refines it for good,
  so that the first assignment after `/** @type {int} */ local x = 1` leaves
  the literal 1; "unsaid": what a symbol holds need not fit its documented
  type: it is null without an initialiser (`resolver.rs:3373`), null and `any`
  are taken without a report (`resolver.rs:1263`, `1297`), and the type stays;
  "mixed": a documented type that is assigned a union with `any` is refined by
  the member of the union that fits (`resolver.rs:1277`), although the value
  may be another one; "skipped": the condition of a `do` is collected after its
  scope is left (`resolver.rs:3945`), as if every way out of the loop had
  evaluated it; "left": what an inner scope assigned is forgotten at its end.
* Names (`AnswerHasCause`): what an included script includes is looked up under
  the target of the first script, and lost or misplaced
  (`vscript_lib/vscript.nut:6533` says that all the content is put into the
  scope); a script's own declaration has the name, whatever an include after it
  declares; scripts included into a delegate are not seen through it; two
  scripts included twice, or into several tables, are ordered by the map.
* Crashes (`CrashHasCause`): two scripts that need each other make a cycle
  of queries, which `source_symbol` (`db.rs:583`) cannot recover from, and
  `already_included` does not prevent it; a table that is its own delegate,
  directly or not, makes `additional_table_members` overflow the stack.
* `HandlersAgree`: hover and completion at a place see the includes and
  delegates that come after it, which the resolver did not see.
* Front end (`TokensMatch`, `ErrorsTell`, `TreeIsText`): `..` takes the next
  character with it; the range of an invalid escape is two bytes long and may
  end inside a character; `/** @type {é} */` keeps the parser of doc comments
  for ever, as it looks for a letter of any alphabet and then takes ASCII only.
* Parser: `if (a else b` passes without an error, a comment before `5 = 3`
  hides the error on the left-hand side, and some erroneous texts (`x = ) ++
  ++`) reach the "unfinished marker" assertion.
* Maps (`MissingUrlHasCause`): go to definition of a script path fails, with
  "Definition file wasn't found in workspace" (`go_to_definition.rs:37`), when
  another worker has put the `File` into `files` and not yet into `urls`, or
  when the file is deleted between the handler's two calls; a document link is
  left out then (`document_link.rs:36`).
* Deletions (`ScanIsComplete`): they do not wait for the handlers, so that a
  workspace request may answer with a file of an early shard that is deleted
  meanwhile and without one of a later shard, in one answer.
* `Memo`: a script that ends with its `IncludeScript`, or looks up no name
  afterwards that it does not declare, does not depend on the included script:
  it keeps the deleted `File` of a script that was created again, and so does
  whoever includes it and goes through its imports (`ReaderNoticesDeletion`
  speaks of those who read). A script that is created after the file that
  includes it was resolved stays missing there until that file is computed
  again (`MissedScriptHasCause`, `late`).
* `Memo`: undoing a change does not bring new settings to a file
  (`EditAppliesSettings` speaks of files whose text differs). `Deferred`: calls
  that widen a parameter while its body is being walked do not have it walked
  again (`missed`).
* Read, not modelled: with the setting "warn", two warnings for one block of
  unreachable statements when the first of them is itself a jump
  (`CHANGELOG.md:169`); semantic tokens and the labels of signature help count
  bytes of UTF-8 where positions of the protocol are UTF-16.

## 6. Not modelled, and why

* Syntax trees are accessors without state.
* Types of operators, literals and calls: one case distinction without state.
* Handlers about one file: pure functions of one file's symbols; when and on
  which revision they run is `Session` and `Memo`, and the look-up they share
  is in `Names`. The delta encoding of semantic tokens is planned.
* String literals and the standard library are data; thread intents are
  scheduling classes of the operating system; the extensions are clients.
* Within the modelled parts: spelling of paths and urls, parsing of settings;
  deleted files that are created again in `Scan`; which names a script looks up
  in `Memo`, where a computation reads any files that its includes lead to;
  return types, generators and native functions in `Deferred`; classes, enums,
  built-in members, extensions of the tables of other scripts and hidden
  symbols in `Names`; `yield`, the branches of conditional expressions, `&&`
  and `||` outside of conditions, exceptions thrown by calls, a second round of
  a loop and the setting "warn" of `unreachable_code` in `Flow`; the contents
  of error messages; a comment in a text of `Accepts` (the comparison with the
  grammar is over texts without trivia).

## 7. Plan

Order: the event loop, what it writes, what the workers read, how a file is
resolved, how a text becomes a tree (all done, as far as the table of
components says). Left:

1. Proofs: done for every safety property of `Session`, `Workspace`, `Scan`,
   `Memo`, `DocSync`, `Deferred`, `Flow` and `Names`. Left are `AnswerHasCause`
   and the front end, whose operators would have to be recursive functions first.
2. Classes and their superclasses in `Names`: a second kind of container with
   the same look-up along a chain.
3. Return types and generators in `Deferred`.
4. Semantic-token deltas and the argument that signature help counts, against
   reference definitions.
5. `Memo` with `Workspace`: deleted and re-created files under the map's
   interleavings, with the url of each.

The modules to be proved about use no recursive operator.

## 8. Running

    tlc -workers 2 -config MCSession.cfg MCSession.tla
    tlapm SessionProofs.tla     # and the other *Proofs modules

Each run of `PROJECT.json` finishes within about two minutes; `MCWorkspace`,
`MCMemo` and `MCFlow` are the largest (about 1 508 000, 1 275 000 and 488 000
distinct states).
