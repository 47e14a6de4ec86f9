------------------------------ MODULE Session -------------------------------
(***************************************************************************)
(* The server's event loop and its worker pool                             *)
(* (crates/server/src/session.rs, main.rs, vendored/pool.rs).              *)
(*                                                                         *)
(* One main thread receives client messages and the tasks that the workers *)
(* send back, and is the only writer of the database.  A request or a      *)
(* trace notification becomes a job that owns a clone of the database; a   *)
(* write raises salsa's cancellation flag and blocks the main thread until *)
(* every clone is dropped.  Message payloads are abstracted away: a job is *)
(* the id of the message that created it.                                  *)
(***************************************************************************)
EXTENDS Naturals, Sequences, Functions

CONSTANTS
  Requests,      \* request ids; the client uses each at most once
  Notes,         \* notifications handled on the pool ($/setTrace, $/logTrace)
  Retriable,     \* the requests whose method was registered with RETRY
  Unhandled,     \* the requests whose method is in no registry
  Threads,       \* the workers of the pool
  MaxBatch,      \* bound: database writes of one notification
  MaxRevision,   \* bound: database writes in a behaviour
  NoJob          \* a worker with no job

ASSUME SessionAssumption ==
  /\ Requests \cap Notes = {}
  /\ Retriable \subseteq Requests
  /\ Unhandled \subseteq Requests
  /\ NoJob \notin Requests \cup Notes
  /\ MaxBatch \in Nat
  /\ MaxRevision \in Nat

VARIABLES
  phase,         \* "running", "exiting" (after shutdown) or "stopped"
  seen,          \* ids of the requests and notes received so far
  pending,       \* req_queue.incoming: registered and not completed
  jobs,          \* the pool's channel of jobs
  run,           \* the job each worker executes
  tasks,         \* the channel of tasks from the workers to the main thread
  replies,       \* for each request the responses sent, in order
  writes,        \* set_text calls the current handler has still to make
  revision,      \* salsa's revision: how many writes were applied
  base,          \* for each request the revision its last clone was made at
  doomed,        \* workers whose query waits on one that has panicked
  lost           \* requests and notes whose handler panicked

vars == <<phase, seen, pending, jobs, run, tasks, replies, writes, revision,
          base, doomed, lost>>

pool == <<jobs, run, doomed, lost>>

(* The replies of a handler, and the one of an unknown method. *)
Outcomes == {"ok", "error", "modified", "notFound"}
Replies == Outcomes \cup {"canceled"}

JobIds == (Requests \ Unhandled) \cup Notes

Tasks ==
  [kind : {"ok", "error", "modified", "retry"}, id : Requests \ Unhandled]
    \cup [kind : {"noteError"}, id : Notes]
Task(k, j) == [kind |-> k, id |-> j]

(* The main thread is at its select!: no handler is waiting in set_text. *)
AtSelect == phase = "running" /\ writes = 0

(* Every clone of the database is owned by a queued or a running job. *)
NoClones == jobs = << >> /\ \A t \in Threads : run[t] = NoJob

Init ==
  /\ phase = "running"
  /\ seen = {}
  /\ pending = {}
  /\ jobs = << >>
  /\ run = [t \in Threads |-> NoJob]
  /\ tasks = << >>
  /\ replies = [r \in Requests |-> << >>]
  /\ writes = 0
  /\ revision = 0
  /\ base = [r \in Requests |-> 0]
  /\ doomed = {}
  /\ lost = {}

-----------------------------------------------------------------------------
(* The main thread: client messages *)

(* req_exec: the database is cloned and the job is queued. *)
Spawn(j) ==
  /\ jobs' = Append(jobs, j)
  /\ base' = IF j \in Requests THEN [base EXCEPT ![j] = revision] ELSE base

(* Fault: the response is sent and the id stays registered.                *)
CompleteForgetful(r, k) ==
  /\ pending' = pending
  /\ replies' = [replies EXCEPT ![r] = Append(@, k)]

(* req_complete: the id is completed if it is still registered, and the    *)
(* response is sent in either case.                                        *)
Complete(r, k) ==
  /\ pending' = pending \ {r}
  /\ replies' = [replies EXCEPT ![r] = Append(@, k)]

ReceiveRequest(r) ==
  /\ AtSelect
  /\ r \notin seen \cup Unhandled
  /\ seen' = seen \cup {r}
  /\ pending' = pending \cup {r}
  /\ Spawn(r)
  /\ UNCHANGED <<phase, run, tasks, replies, writes, revision, doomed, lost>>

ReceiveUnhandled(r) ==
  /\ AtSelect
  /\ r \in Unhandled \ seen
  /\ seen' = seen \cup {r}
  /\ Complete(r, "notFound")
  /\ UNCHANGED <<phase, pool, tasks, writes, revision, base>>

ReceiveNote(n) ==
  /\ AtSelect
  /\ n \notin seen
  /\ seen' = seen \cup {n}
  /\ Spawn(n)
  /\ UNCHANGED <<phase, pending, run, tasks, replies, writes, revision, doomed,
                 lost>>

(* Fault: an id that was completed before is answered again.               *)
ReceiveCancelAgain(r) ==
  /\ AtSelect
  /\ r \in seen
  /\ Complete(r, "canceled")
  /\ UNCHANGED <<phase, seen, pool, tasks, writes, revision, base>>

(* $/cancelRequest answers an id that is registered and does nothing for   *)
(* any other id; the job of the request is left running.                   *)
ReceiveCancel(r) ==
  /\ AtSelect
  /\ r \in pending
  /\ Complete(r, "canceled")
  /\ UNCHANGED <<phase, seen, pool, tasks, writes, revision, base>>

(* A notification handler that writes: didChange and didOpen of a known    *)
(* file write once, didChangeWatchedFiles once for each changed file.      *)
ReceiveEdit(n) ==
  /\ AtSelect
  /\ revision + n <= MaxRevision
  /\ writes' = n
  /\ UNCHANGED <<phase, seen, pending, pool, tasks, replies, revision, base>>

(* Fault: the write does not wait for the clones.                          *)
ApplyWriteEarly ==
  /\ phase = "running"
  /\ writes > 0
  /\ writes' = writes - 1
  /\ revision' = revision + 1
  /\ UNCHANGED <<phase, seen, pending, pool, tasks, replies, base>>

(* Fault: the write also waits for the main thread's own task queue.       *)
ApplyWriteLate ==
  /\ phase = "running"
  /\ writes > 0
  /\ NoClones /\ tasks = << >>
  /\ writes' = writes - 1
  /\ revision' = revision + 1
  /\ UNCHANGED <<phase, seen, pending, pool, tasks, replies, base>>

(* Fault: a write that nobody asked for.                                   *)
ApplyWriteUnasked ==
  /\ phase = "running"
  /\ NoClones
  /\ writes' = writes - 1
  /\ revision' = revision + 1
  /\ UNCHANGED <<phase, seen, pending, pool, tasks, replies, base>>

(* One set_text: it returns once no other clone of the database is left. *)
ApplyWrite ==
  /\ phase = "running"
  /\ writes > 0
  /\ NoClones
  /\ writes' = writes - 1
  /\ revision' = revision + 1
  /\ UNCHANGED <<phase, seen, pending, pool, tasks, replies, base>>

(* handle_shutdown answers the shutdown request and waits for exit ... *)
ReceiveShutdown ==
  /\ AtSelect
  /\ phase' = "exiting"
  /\ UNCHANGED <<seen, pending, pool, tasks, replies, writes, revision, base>>

(* ... and main_loop returns on exit, on any other message and on timeout. *)
Exit ==
  /\ phase = "exiting"
  /\ phase' = "stopped"
  /\ UNCHANGED <<seen, pending, pool, tasks, replies, writes, revision, base>>

-----------------------------------------------------------------------------
(* The main thread: tasks *)

TakeResponse ==
  /\ AtSelect
  /\ tasks # << >>
  /\ Head(tasks).kind \in {"ok", "error", "modified"}
  /\ tasks' = Tail(tasks)
  /\ Complete(Head(tasks).id, Head(tasks).kind)
  /\ UNCHANGED <<phase, seen, pool, writes, revision, base>>

(* Fault: the task stays in the channel when its job is queued again.      *)
TakeRetryTwice ==
  /\ AtSelect
  /\ tasks # << >>
  /\ Head(tasks).kind = "retry"
  /\ IF Head(tasks).id \in pending
     THEN Spawn(Head(tasks).id) /\ UNCHANGED tasks
     ELSE UNCHANGED <<jobs, base>> /\ tasks' = Tail(tasks)
  /\ UNCHANGED <<phase, seen, pending, run, replies, writes, revision, doomed,
                 lost>>

(* A cancelled job is queued again with a new clone, unless its request    *)
(* was completed in the meantime.                                          *)
TakeRetry ==
  /\ AtSelect
  /\ tasks # << >>
  /\ Head(tasks).kind = "retry"
  /\ tasks' = Tail(tasks)
  /\ IF Head(tasks).id \in pending
     THEN Spawn(Head(tasks).id)
     ELSE UNCHANGED <<jobs, base>>
  /\ UNCHANGED <<phase, seen, pending, run, replies, writes, revision, doomed,
                 lost>>

(* The error of a note becomes a window/showMessage notification. *)
TakeNoteError ==
  /\ AtSelect
  /\ tasks # << >>
  /\ Head(tasks).kind = "noteError"
  /\ tasks' = Tail(tasks)
  /\ UNCHANGED <<phase, seen, pending, pool, replies, writes, revision, base>>

-----------------------------------------------------------------------------
(* The workers *)

StartJob(t) ==
  /\ phase # "stopped"
  /\ run[t] = NoJob
  /\ jobs # << >>
  /\ run' = [run EXCEPT ![t] = Head(jobs)]
  /\ jobs' = Tail(jobs)
  /\ UNCHANGED <<phase, seen, pending, tasks, replies, writes, revision, base,
                 doomed, lost>>

(* The worker drops its clone and takes part in no query any more. *)
Release(t) ==
  /\ run' = [run EXCEPT ![t] = NoJob]
  /\ doomed' = doomed \ {t}
  /\ UNCHANGED <<phase, seen, pending, jobs, replies, writes, revision, base>>

(* The handler returned: with Ok or Err for a request, while a note sends  *)
(* a task only for Err.  A write may be waiting: a handler that calls no   *)
(* further query does not notice.                                          *)
FinishJob(t) ==
  /\ phase # "stopped"
  /\ run[t] # NoJob
  /\ t \notin doomed
  /\ \/ /\ run[t] \in Requests
        /\ \E k \in {"ok", "error"} : tasks' = Append(tasks, Task(k, run[t]))
     \/ /\ run[t] \in Notes
        /\ \/ UNCHANGED tasks
           \/ tasks' = Append(tasks, Task("noteError", run[t]))
  /\ Release(t)
  /\ UNCHANGED lost

(* Fault: no task is sent for an unwound request that is not retried.      *)
UnwindJobSilently(t) ==
  /\ phase # "stopped"
  /\ run[t] # NoJob
  /\ writes > 0 \/ t \in doomed
  /\ IF run[t] \in Retriable
     THEN tasks' = Append(tasks, Task("retry", run[t]))
     ELSE UNCHANGED tasks
  /\ Release(t)
  /\ UNCHANGED lost

(* Fault: a handler is unwound although nothing is waiting.                *)
UnwindJobAnyTime(t) ==
  /\ phase # "stopped"
  /\ run[t] # NoJob
  /\ IF run[t] \in Notes
     THEN UNCHANGED tasks
     ELSE tasks' = Append(tasks,
            Task(IF run[t] \in Retriable THEN "retry" ELSE "modified", run[t]))
  /\ Release(t)
  /\ UNCHANGED lost

(* salsa unwound the handler, because a write is waiting or because the    *)
(* query it waited for panicked in another worker.                         *)
UnwindJob(t) ==
  /\ phase # "stopped"
  /\ run[t] # NoJob
  /\ writes > 0 \/ t \in doomed
  /\ IF run[t] \in Notes
     THEN UNCHANGED tasks
     ELSE tasks' = Append(tasks,
            Task(IF run[t] \in Retriable THEN "retry" ELSE "modified", run[t]))
  /\ Release(t)
  /\ UNCHANGED lost

(* The handler panicked: the pool discards the panic and no task is sent.  *)
(* Any of the other workers may have been waiting for its query.           *)
PanicJob(t) ==
  /\ phase # "stopped"
  /\ run[t] # NoJob
  /\ t \notin doomed
  /\ lost' = lost \cup {run[t]}
  /\ \E W \in SUBSET {u \in Threads \ {t} : run[u] # NoJob} :
       doomed' = doomed \cup W
  /\ run' = [run EXCEPT ![t] = NoJob]
  /\ UNCHANGED <<phase, seen, pending, jobs, tasks, replies, writes, revision,
                 base>>

-----------------------------------------------------------------------------

MainStep ==
  \/ \E r \in Requests :
       ReceiveRequest(r) \/ ReceiveUnhandled(r) \/ ReceiveCancel(r)
  \/ \E n \in Notes : ReceiveNote(n)
  \/ \E n \in 1..MaxBatch : ReceiveEdit(n)
  \/ ApplyWrite
  \/ TakeResponse \/ TakeRetry \/ TakeNoteError
  \/ ReceiveShutdown \/ Exit

WorkerStep(t) == StartJob(t) \/ FinishJob(t) \/ UnwindJob(t) \/ PanicJob(t)

Next == MainStep \/ \E t \in Threads : WorkerStep(t)

Spec == Init /\ [][Next]_vars

(* The operating system runs every worker that can run, every handler      *)
(* returns or unwinds, a blocked set_text wakes up, and the main thread    *)
(* does not neglect the task channel for ever.  Nothing is assumed of the  *)
(* client.                                                                 *)
Fairness ==
  /\ WF_vars(ApplyWrite)
  /\ WF_vars(TakeResponse \/ TakeRetry \/ TakeNoteError)
  /\ \A t \in Threads : WF_vars(StartJob(t))
  /\ \A t \in Threads : WF_vars(FinishJob(t) \/ UnwindJob(t) \/ PanicJob(t))

FairSpec == Spec /\ Fairness

-----------------------------------------------------------------------------
(* Properties *)

(* Type correctness of the server's state. *)
TypeOK ==
  /\ phase \in {"running", "exiting", "stopped"}
  /\ seen \subseteq Requests \cup Notes
  /\ pending \subseteq Requests
  /\ jobs \in Seq(JobIds)
  /\ run \in [Threads -> JobIds \cup {NoJob}]
  /\ tasks \in Seq(Tasks)
  /\ replies \in [Requests -> Seq(Replies)]
  /\ writes \in Nat
  /\ revision \in Nat
  /\ base \in [Requests -> Nat]
  /\ doomed \subseteq Threads
  /\ lost \subseteq JobIds

Ids(q) == {q[i].id : i \in DOMAIN q}
DistinctIds(q) == \A i, k \in DOMAIN q : q[i].id = q[k].id => i = k

Queued == Range(jobs)
Running == {run[t] : t \in Threads} \ {NoJob}
Reported == Ids(tasks)
Carried == Queued \cup Running \cup Reported

(* No request is carried twice: it is never executed by two workers, nor   *)
(* queued again while an earlier execution or its result is on its way.    *)
(* Retries are what could break it.                                        *)
OneCarrier ==
  /\ IsInjective(jobs)
  /\ \A t, u \in Threads : run[t] = run[u] /\ run[t] # NoJob => t = u
  /\ DistinctIds(tasks)
  /\ Queued \cap Running = {}
  /\ Queued \cap Reported = {}
  /\ Running \cap Reported = {}

(* A registered request is somewhere on its way to a reply, unless its     *)
(* handler panicked: cancellations, retries and writes lose none.          *)
NothingLost == pending \subseteq Carried \cup lost

(* A client gets a second reply for an id only if it withdrew the request: *)
(* "canceled" comes first, and the outcome of the job that was left        *)
(* running may follow it.                                                  *)
SecondReplyOnlyAfterCancel ==
  \A r \in Requests :
    /\ r \in pending => replies[r] = << >>
    /\ Len(replies[r]) <= 2
    /\ Len(replies[r]) = 2 => /\ replies[r][1] = "canceled"
                              /\ replies[r][2] \in {"ok", "error", "modified"}

(* A job that is queued or running sees the newest revision: no write is   *)
(* applied under a live clone, in particular not under a retried job.      *)
SnapshotIsCurrent ==
  \A r \in Requests \cap (Queued \cup Running) : base[r] = revision

(* "content modified" is told to the client only when a write was applied  *)
(* after the request was dispatched, or when a handler has panicked.       *)
ModifiedIsTrue ==
  \A i \in DOMAIN tasks :
    tasks[i].kind = "modified" /\ AtSelect
      => base[tasks[i].id] < revision \/ lost # {}

(* A waiting write is applied whatever jobs are queued, so the main thread *)
(* returns to its loop.                                                    *)
WritesComplete == (writes > 0) ~> (writes = 0)

(* Every registered request is answered or withdrawn, unless its handler   *)
(* panics or the client shuts the server down; edits only delay it.        *)
RequestsComplete ==
  \A r \in Requests :
    (r \in pending) ~> (r \notin pending \/ r \in lost \/ phase # "running")

(* The server implements the exchange the client observes. *)
Client == INSTANCE Exchange WITH
  asked <- seen \cap Requests, open <- pending, Canceled <- "canceled"

ClientSpec == Client!Spec
=============================================================================
