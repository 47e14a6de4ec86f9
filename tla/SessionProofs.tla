---------------------------- MODULE SessionProofs ---------------------------
(***************************************************************************)
(* Proofs about Session, for any set of requests, any number of workers    *)
(* and any number of writes.                                               *)
(***************************************************************************)
EXTENDS Session, TLAPS

-----------------------------------------------------------------------------
(* Sequences as queues *)

(* Appending to a queue adds one element to its range.                     *)
LEMMA RangeAppend ==
  ASSUME NEW S, NEW s \in Seq(S), NEW e \in S
  PROVE  /\ Append(s, e) \in Seq(S)
         /\ Range(Append(s, e)) = Range(s) \cup {e}
<1> DEFINE a == Append(s, e)
<1>1. /\ a \in Seq(S)
      /\ DOMAIN s = 1..Len(s)
      /\ DOMAIN a = 1..(Len(s) + 1)
      /\ a[Len(s) + 1] = e
      /\ Len(s) \in Nat
      /\ \A i \in 1..Len(s) : a[i] = s[i]
  OBVIOUS
<1> HIDE DEF a
<1>2. ASSUME NEW x \in Range(a) PROVE x \in Range(s) \cup {e}
  <2>1. PICK i \in 1..(Len(s) + 1) : x = a[i]
    BY <1>1, <1>2 DEF Range
  <2>2. i = Len(s) + 1 \/ i \in 1..Len(s)
    BY <1>1
  <2>. QED BY <1>1, <2>1, <2>2 DEF Range
<1>3. ASSUME NEW x \in Range(s) \cup {e} PROVE x \in Range(a)
  <2>1. CASE x = e
    <3>1. Len(s) + 1 \in DOMAIN a BY <1>1
    <3>. QED BY <1>1, <2>1, <3>1 DEF Range
  <2>2. CASE x \in Range(s)
    <3>1. PICK i \in 1..Len(s) : x = s[i] BY <1>1, <2>2 DEF Range
    <3>2. i \in DOMAIN a BY <1>1
    <3>. QED BY <1>1, <3>1, <3>2 DEF Range
  <2>. QED BY <1>3, <2>1, <2>2
<1>. QED BY <1>1, <1>2, <1>3 DEF a

(* Taking the head of a queue of distinct elements removes it.             *)
LEMMA RangeTail ==
  ASSUME NEW S, NEW s \in Seq(S), s # << >>
  PROVE  /\ Head(s) \in S
         /\ Tail(s) \in Seq(S)
         /\ Range(s) = Range(Tail(s)) \cup {Head(s)}
         /\ IsInjective(s) => IsInjective(Tail(s)) /\ Head(s) \notin Range(Tail(s))
<1> DEFINE t == Tail(s)
<1>1. /\ Head(s) \in S
      /\ t \in Seq(S)
      /\ DOMAIN s = 1..Len(s)
      /\ DOMAIN t = 1..(Len(s) - 1)
      /\ Head(s) = s[1]
      /\ Len(s) \in Nat \ {0}
      /\ \A i \in 1..(Len(s) - 1) : t[i] = s[i + 1]
  OBVIOUS
<1> HIDE DEF t
<1>2. ASSUME NEW x \in Range(s) PROVE x \in Range(t) \cup {Head(s)}
  <2>1. PICK i \in 1..Len(s) : x = s[i]
    BY <1>1, <1>2 DEF Range
  <2>2. CASE i = 1 BY <1>1, <2>1, <2>2
  <2>3. CASE i # 1
    <3>1. i - 1 \in DOMAIN t /\ t[i - 1] = s[i] BY <1>1, <2>3
    <3>. QED BY <2>1, <3>1 DEF Range
  <2>. QED BY <2>2, <2>3
<1>3. ASSUME NEW x \in Range(t) \cup {Head(s)} PROVE x \in Range(s)
  <2>1. CASE x = Head(s)
    <3>1. 1 \in DOMAIN s BY <1>1
    <3>. QED BY <1>1, <2>1, <3>1 DEF Range
  <2>2. CASE x \in Range(t)
    <3>1. PICK i \in 1..(Len(s) - 1) : x = t[i] BY <1>1, <2>2 DEF Range
    <3>2. i + 1 \in DOMAIN s /\ x = s[i + 1] BY <1>1, <3>1
    <3>. QED BY <3>2 DEF Range
  <2>. QED BY <1>3, <2>1, <2>2
<1>4. ASSUME IsInjective(s) PROVE IsInjective(t) /\ Head(s) \notin Range(t)
  <2>1. \A i, k \in 1..Len(s) : s[i] = s[k] => i = k
    BY <1>1, <1>4 DEF IsInjective
  <2>2. \A i, k \in 1..(Len(s) - 1) : t[i] = t[k] => i = k
    BY <1>1, <2>1
  <2>3. \A i \in 1..(Len(s) - 1) : t[i] # s[1]
    BY <1>1, <2>1
  <2>. QED BY <1>1, <2>2, <2>3 DEF IsInjective, Range
<1>. QED BY <1>1, <1>2, <1>3, <1>4 DEF t

(* A new element keeps the elements of a queue distinct.                   *)
LEMMA InjectiveAppend ==
  ASSUME NEW S, NEW s \in Seq(S), NEW e \in S, IsInjective(s), e \notin Range(s)
  PROVE  IsInjective(Append(s, e))
<1> DEFINE a == Append(s, e)
<1>1. /\ DOMAIN s = 1..Len(s)
      /\ DOMAIN a = 1..(Len(s) + 1)
      /\ a[Len(s) + 1] = e
      /\ Len(s) \in Nat
      /\ \A i \in 1..Len(s) : a[i] = s[i]
  OBVIOUS
<1>2. \A i, k \in 1..Len(s) : s[i] = s[k] => i = k
  BY <1>1 DEF IsInjective
<1>3. \A i \in 1..Len(s) : s[i] # e
  BY <1>1 DEF Range
<1> HIDE DEF a
<1>4. \A i, k \in 1..(Len(s) + 1) : a[i] = a[k] => i = k
  BY <1>1, <1>2, <1>3
<1>. QED BY <1>1, <1>4 DEF IsInjective, a

(* The same facts about the ids of a queue of tasks.                       *)
LEMMA IdsAppend ==
  ASSUME NEW q \in Seq(Tasks), NEW x \in Tasks
  PROVE  /\ Append(q, x) \in Seq(Tasks)
         /\ Ids(Append(q, x)) = Ids(q) \cup {x.id}
         /\ DistinctIds(q) /\ x.id \notin Ids(q) => DistinctIds(Append(q, x))
<1> DEFINE a == Append(q, x)
<1>1. /\ a \in Seq(Tasks)
      /\ DOMAIN q = 1..Len(q)
      /\ DOMAIN a = 1..(Len(q) + 1)
      /\ a[Len(q) + 1] = x
      /\ Len(q) \in Nat
      /\ \A i \in 1..Len(q) : a[i] = q[i]
  OBVIOUS
<1> HIDE DEF a
<1>2. ASSUME NEW j \in Ids(a) PROVE j \in Ids(q) \cup {x.id}
  <2>1. PICK i \in 1..(Len(q) + 1) : j = a[i].id
    BY <1>1, <1>2 DEF Ids
  <2>2. i = Len(q) + 1 \/ i \in 1..Len(q)
    BY <1>1
  <2>. QED BY <1>1, <2>1, <2>2 DEF Ids
<1>3. ASSUME NEW j \in Ids(q) \cup {x.id} PROVE j \in Ids(a)
  <2>1. CASE j = x.id
    <3>1. Len(q) + 1 \in DOMAIN a BY <1>1
    <3>. QED BY <1>1, <2>1, <3>1 DEF Ids
  <2>2. CASE j \in Ids(q)
    <3>1. PICK i \in 1..Len(q) : j = q[i].id BY <1>1, <2>2 DEF Ids
    <3>2. i \in DOMAIN a BY <1>1
    <3>. QED BY <1>1, <3>1, <3>2 DEF Ids
  <2>. QED BY <1>3, <2>1, <2>2
<1>4. ASSUME DistinctIds(q), x.id \notin Ids(q) PROVE DistinctIds(a)
  <2>1. \A i, k \in 1..Len(q) : q[i].id = q[k].id => i = k
    BY <1>1, <1>4 DEF DistinctIds
  <2>2. \A i \in 1..Len(q) : q[i].id # x.id
    BY <1>1, <1>4 DEF Ids
  <2>3. \A i, k \in 1..(Len(q) + 1) : a[i].id = a[k].id => i = k
    BY <1>1, <2>1, <2>2
  <2>. QED BY <1>1, <2>3 DEF DistinctIds
<1>. QED BY <1>1, <1>2, <1>3, <1>4 DEF a

LEMMA IdsTail ==
  ASSUME NEW q \in Seq(Tasks), q # << >>
  PROVE  /\ Head(q) \in Tasks
         /\ Tail(q) \in Seq(Tasks)
         /\ Ids(q) = Ids(Tail(q)) \cup {Head(q).id}
         /\ DistinctIds(q) =>
              DistinctIds(Tail(q)) /\ Head(q).id \notin Ids(Tail(q))
         /\ \A i \in DOMAIN Tail(q) : \E k \in DOMAIN q : Tail(q)[i] = q[k]
         /\ \E k \in DOMAIN q : Head(q) = q[k]
<1> DEFINE t == Tail(q)
<1>1. /\ Head(q) \in Tasks
      /\ t \in Seq(Tasks)
      /\ DOMAIN q = 1..Len(q)
      /\ DOMAIN t = 1..(Len(q) - 1)
      /\ Head(q) = q[1]
      /\ Len(q) \in Nat \ {0}
      /\ \A i \in 1..(Len(q) - 1) : t[i] = q[i + 1]
  OBVIOUS
<1> HIDE DEF t
<1>2. \A i \in DOMAIN t : i + 1 \in DOMAIN q /\ t[i] = q[i + 1]
  BY <1>1
<1>3. 1 \in DOMAIN q
  BY <1>1
<1>4. ASSUME NEW j \in Ids(q) PROVE j \in Ids(t) \cup {Head(q).id}
  <2>1. PICK i \in 1..Len(q) : j = q[i].id
    BY <1>1, <1>4 DEF Ids
  <2>2. CASE i = 1 BY <1>1, <2>1, <2>2
  <2>3. CASE i # 1
    <3>1. i - 1 \in DOMAIN t /\ t[i - 1] = q[i] BY <1>1, <2>3
    <3>. QED BY <2>1, <3>1 DEF Ids
  <2>. QED BY <2>2, <2>3
<1>5. ASSUME NEW j \in Ids(t) \cup {Head(q).id} PROVE j \in Ids(q)
  BY <1>1, <1>2, <1>3 DEF Ids
<1>6. ASSUME DistinctIds(q)
      PROVE  DistinctIds(t) /\ Head(q).id \notin Ids(t)
  <2>1. \A i, k \in 1..Len(q) : q[i].id = q[k].id => i = k
    BY <1>1, <1>6 DEF DistinctIds
  <2>2. \A i, k \in 1..(Len(q) - 1) : t[i].id = t[k].id => i = k
    BY <1>1, <2>1
  <2>3. \A i \in 1..(Len(q) - 1) : t[i].id # q[1].id
    BY <1>1, <2>1
  <2>. QED BY <1>1, <2>2, <2>3 DEF DistinctIds, Ids
<1>. QED BY <1>1, <1>2, <1>3, <1>4, <1>5, <1>6 DEF t

-----------------------------------------------------------------------------
(* The inductive invariant *)

(* What is carried or registered was received; what was not received has   *)
(* no reply; what is registered and what is carried are told apart by the  *)
(* replies; and no revision of a clone lies in the future.                 *)
ReplyState ==
  \A r \in Requests :
    /\ r \in pending => replies[r] = << >>
    /\ r \in Carried \ pending => replies[r] = <<"canceled">>
    /\ r \notin seen => replies[r] = << >>

(* Why a "modified" on its way is true: as ModifiedIsTrue, but also while  *)
(* only some of a handler's writes were applied.                           *)
ModifiedSource ==
  /\ \A i \in DOMAIN tasks :
       tasks[i].kind = "modified" /\ writes = 0
         => base[tasks[i].id] < revision \/ lost # {}
  /\ doomed # {} => lost # {}

(* A job is with one carrier, it was received, and a clone is current.     *)
Carriers ==
  /\ OneCarrier
  /\ Carried \cup pending \subseteq seen
  /\ NothingLost
  /\ SnapshotIsCurrent
  /\ \A r \in Requests : base[r] <= revision

IInv ==
  /\ TypeOK
  /\ Carriers
  /\ ReplyState
  /\ SecondReplyOnlyAfterCancel
  /\ ModifiedSource

-----------------------------------------------------------------------------
(* Type correctness *)

LEMMA TypeInit == Init => TypeOK
BY SessionAssumption DEF Init, TypeOK, JobIds, Tasks, Replies

(* req_complete keeps the types.                                           *)
LEMMA CompleteType ==
  ASSUME TypeOK, NEW r \in Requests, NEW k \in Replies, Complete(r, k)
  PROVE  pending' \subseteq Requests /\ replies' \in [Requests -> Seq(Replies)]
BY DEF TypeOK, Complete

(* Queueing a job keeps the types.                                         *)
LEMMA SpawnType ==
  ASSUME TypeOK, NEW j \in JobIds, Spawn(j)
  PROVE  jobs' \in Seq(JobIds) /\ base' \in [Requests -> Nat]
BY DEF TypeOK, Spawn

(* A worker that ends its job reports at most one task, with the id of the *)
(* job; "modified" is reported only by a handler that was unwound.         *)
LEMMA OneReport ==
  ASSUME TypeOK, NEW t \in Threads, FinishJob(t) \/ UnwindJob(t)
  PROVE  /\ run[t] \in JobIds
         /\ \/ UNCHANGED tasks /\ run[t] \in Notes
            \/ \E x \in Tasks :
                 /\ x.id = run[t]
                 /\ tasks' = Append(tasks, x)
                 /\ x.kind = "modified" => UnwindJob(t)
<1>1. run[t] \in JobIds
  BY DEF FinishJob, UnwindJob, TypeOK
<1>2. CASE FinishJob(t)
  <2>1. CASE run[t] \in Notes /\ UNCHANGED tasks
    BY <1>1, <2>1
  <2>2. CASE run[t] \in Notes /\ tasks' = Append(tasks, Task("noteError", run[t]))
    <3>1. Task("noteError", run[t]) \in Tasks BY <2>2 DEF Task, Tasks
    <3>. QED BY <1>1, <2>2, <3>1 DEF Task
  <2>3. ASSUME NEW k \in {"ok", "error"}, run[t] \in Requests,
               tasks' = Append(tasks, Task(k, run[t]))
        PROVE  \E x \in Tasks : /\ x.id = run[t]
                                /\ tasks' = Append(tasks, x)
                                /\ x.kind = "modified" => UnwindJob(t)
    <3>1. Task(k, run[t]) \in Tasks
      BY <1>1, <2>3, SessionAssumption DEF Task, Tasks, JobIds
    <3>. QED BY <2>3, <3>1 DEF Task
  <2>. QED BY <1>1, <1>2, <2>1, <2>2, <2>3 DEF FinishJob
<1>3. CASE UnwindJob(t)
  <2>1. CASE run[t] \in Notes
    BY <1>1, <1>3, <2>1 DEF UnwindJob
  <2>2. CASE run[t] \notin Notes
    <3> DEFINE k == IF run[t] \in Retriable THEN "retry" ELSE "modified"
    <3>1. Task(k, run[t]) \in Tasks
      BY <1>1, <2>2 DEF Task, Tasks, JobIds
    <3>2. tasks' = Append(tasks, Task(k, run[t]))
      BY <1>3, <2>2 DEF UnwindJob
    <3>. QED BY <1>1, <1>3, <3>1, <3>2 DEF Task
  <2>. QED BY <2>1, <2>2
<1>. QED BY <1>2, <1>3

(* Handlers, queues and retries keep every variable in its type.           *)
LEMMA TypeStep == TypeOK /\ [Next]_vars => TypeOK'
<1> SUFFICES ASSUME TypeOK, [Next]_vars PROVE TypeOK'
  OBVIOUS
<1> USE SessionAssumption
<1>1. ASSUME NEW r \in Requests, ReceiveRequest(r) PROVE TypeOK'
  <2>1. r \in JobIds BY <1>1 DEF ReceiveRequest, JobIds
  <2>. QED BY <1>1, <2>1, SpawnType DEF ReceiveRequest, TypeOK
<1>2. ASSUME NEW r \in Requests, ReceiveUnhandled(r) PROVE TypeOK'
  <2>1. "notFound" \in Replies BY DEF Replies, Outcomes
  <2>. QED BY <1>2, <2>1, CompleteType DEF ReceiveUnhandled, pool, TypeOK
<1>3. ASSUME NEW r \in Requests, ReceiveCancel(r) PROVE TypeOK'
  <2>1. "canceled" \in Replies BY DEF Replies
  <2>. QED BY <1>3, <2>1, CompleteType DEF ReceiveCancel, pool, TypeOK
<1>4. ASSUME NEW n \in Notes, ReceiveNote(n) PROVE TypeOK'
  <2>1. n \in JobIds BY DEF JobIds
  <2>. QED BY <1>4, <2>1, SpawnType DEF ReceiveNote, TypeOK
<1>5. ASSUME NEW n \in 1..MaxBatch, ReceiveEdit(n) PROVE TypeOK'
  BY <1>5 DEF ReceiveEdit, pool, TypeOK
<1>6. CASE ApplyWrite
  BY <1>6 DEF ApplyWrite, pool, TypeOK
<1>7. CASE TakeResponse
  <2>1. Head(tasks) \in Tasks /\ Tail(tasks) \in Seq(Tasks)
    BY <1>7, IdsTail DEF TakeResponse, TypeOK
  <2>2. Head(tasks).kind \in Replies /\ Head(tasks).id \in Requests
    BY <1>7, <2>1 DEF TakeResponse, Replies, Outcomes, Tasks
  <2>. QED BY <1>7, <2>1, <2>2, CompleteType DEF TakeResponse, pool, TypeOK
<1>8. CASE TakeRetry
  <2>1. Head(tasks) \in Tasks /\ Tail(tasks) \in Seq(Tasks)
    BY <1>8, IdsTail DEF TakeRetry, TypeOK
  <2>2. Head(tasks).id \in JobIds
    BY <1>8, <2>1 DEF TakeRetry, Tasks, JobIds
  <2>3. jobs' \in Seq(JobIds) /\ base' \in [Requests -> Nat]
    BY <1>8, <2>2, SpawnType DEF TakeRetry, TypeOK
  <2>. QED BY <1>8, <2>1, <2>3 DEF TakeRetry, TypeOK
<1>9. CASE TakeNoteError
  BY <1>9, IdsTail DEF TakeNoteError, pool, TypeOK
<1>10. CASE ReceiveShutdown
  BY <1>10 DEF ReceiveShutdown, pool, TypeOK
<1>11. CASE Exit
  BY <1>11 DEF Exit, pool, TypeOK
<1>12. ASSUME NEW t \in Threads, StartJob(t) PROVE TypeOK'
  <2>1. Head(jobs) \in JobIds /\ Tail(jobs) \in Seq(JobIds)
    BY <1>12, RangeTail DEF StartJob, TypeOK
  <2>. QED BY <1>12, <2>1 DEF StartJob, TypeOK
<1>13. ASSUME NEW t \in Threads, FinishJob(t) PROVE TypeOK'
  <2>1. tasks' \in Seq(Tasks)
    BY ZenonT(60), <1>13, OneReport, IdsAppend DEF TypeOK
  <2>. QED BY <1>13, <2>1 DEF FinishJob, Release, TypeOK
<1>14. ASSUME NEW t \in Threads, UnwindJob(t) PROVE TypeOK'
  <2>1. tasks' \in Seq(Tasks)
    BY ZenonT(60), <1>14, OneReport, IdsAppend DEF TypeOK
  <2>. QED BY <1>14, <2>1 DEF UnwindJob, Release, TypeOK
<1>15. ASSUME NEW t \in Threads, PanicJob(t) PROVE TypeOK'
  BY <1>15 DEF PanicJob, TypeOK
<1>16. CASE UNCHANGED vars
  BY <1>16 DEF vars, TypeOK
<1>. QED BY <1>1, <1>2, <1>3, <1>4, <1>5, <1>6, <1>7, <1>8, <1>9, <1>10, <1>11,
            <1>12, <1>13, <1>14, <1>15, <1>16
         DEF Next, MainStep, WorkerStep

(* Every variable of the server keeps its type in every behaviour.         *)
THEOREM TypeCorrect == Spec => []TypeOK
BY TypeInit, TypeStep, PTL DEF Spec

-----------------------------------------------------------------------------
(* How jobs move between the queue, the workers and the task channel *)

LEMMA CarriedType ==
  ASSUME TypeOK
  PROVE  Queued \subseteq JobIds /\ Running \subseteq JobIds /\ Reported \subseteq JobIds
<1>1. Queued \subseteq JobIds
  BY DEF TypeOK, Queued, Range
<1>2. \A x \in Tasks : x.id \in JobIds
  BY SessionAssumption DEF Tasks, JobIds
<1>. QED BY <1>1, <1>2 DEF TypeOK, Running, Reported, Ids

LEMMA EnqueueMoves ==
  ASSUME TypeOK, IsInjective(jobs), NEW j \in JobIds, j \notin Queued, Spawn(j)
  PROVE  Queued' = Queued \cup {j} /\ IsInjective(jobs')
BY RangeAppend, InjectiveAppend DEF TypeOK, Queued, Spawn

LEMMA TakeTaskMoves ==
  ASSUME TypeOK, DistinctIds(tasks), tasks # << >>, tasks' = Tail(tasks)
  PROVE  /\ Head(tasks) \in Tasks
         /\ Reported = Reported' \cup {Head(tasks).id}
         /\ Head(tasks).id \notin Reported'
         /\ DistinctIds(tasks')
         /\ \A i \in DOMAIN tasks' : \E k \in DOMAIN tasks : tasks'[i] = tasks[k]
BY IdsTail DEF TypeOK, Reported

LEMMA ReportMoves ==
  ASSUME TypeOK, DistinctIds(tasks), NEW x \in Tasks, x.id \notin Reported,
         tasks' = Append(tasks, x)
  PROVE  Reported' = Reported \cup {x.id} /\ DistinctIds(tasks')
BY IdsAppend DEF TypeOK, Reported

LEMMA StartMoves ==
  ASSUME TypeOK, OneCarrier, NEW t \in Threads, StartJob(t)
  PROVE  /\ Head(jobs) \in JobIds
         /\ Queued = Queued' \cup {Head(jobs)}
         /\ Head(jobs) \notin Queued'
         /\ Running' = Running \cup {Head(jobs)}
         /\ IsInjective(jobs')
         /\ \A u, v \in Threads : run'[u] = run'[v] /\ run'[u] # NoJob => u = v
<1>1. /\ Head(jobs) \in JobIds
      /\ Queued = Queued' \cup {Head(jobs)}
      /\ Head(jobs) \notin Queued'
      /\ IsInjective(jobs')
  BY RangeTail DEF TypeOK, OneCarrier, StartJob, Queued
<1>2. Head(jobs) \notin Running /\ Head(jobs) # NoJob
  BY <1>1, SessionAssumption DEF OneCarrier, JobIds
<1>3. run' = [run EXCEPT ![t] = Head(jobs)] /\ run[t] = NoJob /\ DOMAIN run = Threads
  BY DEF StartJob, TypeOK
<1>4. Running' = Running \cup {Head(jobs)}
  BY <1>2, <1>3 DEF Running
<1>5. \A u, v \in Threads : run'[u] = run'[v] /\ run'[u] # NoJob => u = v
  BY <1>2, <1>3 DEF Running, OneCarrier
<1>. QED BY <1>1, <1>4, <1>5

LEMMA StopMoves ==
  ASSUME TypeOK, OneCarrier, NEW t \in Threads, run[t] # NoJob,
         run' = [run EXCEPT ![t] = NoJob]
  PROVE  /\ run[t] \in Running
         /\ Running' = Running \ {run[t]}
         /\ \A u, v \in Threads : run'[u] = run'[v] /\ run'[u] # NoJob => u = v
BY DEF TypeOK, OneCarrier, Running

-----------------------------------------------------------------------------
(* Carriers is kept *)

LEMMA CarriersInit == Init => Carriers
BY SessionAssumption
   DEF Init, Carriers, OneCarrier, NothingLost, SnapshotIsCurrent, Carried,
       Queued, Running, Reported, Range, Ids, DistinctIds, IsInjective

(* Nothing that Carriers speaks of changes but the registered requests,    *)
(* of which there are fewer, and the received ones, of which there are     *)
(* more.                                                                   *)
LEMMA CarriersQuiet ==
  ASSUME TypeOK, Carriers, UNCHANGED <<pool, tasks, base, revision>>,
         pending' \subseteq pending, seen \subseteq seen'
  PROVE  Carriers'
BY DEF pool, Carriers, OneCarrier, NothingLost, SnapshotIsCurrent, Carried,
       Queued, Running, Reported

LEMMA CarriersStep == TypeOK /\ TypeOK' /\ Carriers /\ [Next]_vars => Carriers'
<1> SUFFICES ASSUME TypeOK, TypeOK', Carriers, [Next]_vars PROVE Carriers'
  OBVIOUS
<1> USE SessionAssumption
<1>0. Queued \subseteq JobIds /\ Running \subseteq JobIds /\ Reported \subseteq JobIds
  BY CarriedType
<1>1. ASSUME NEW j \in JobIds, j \notin seen, Spawn(j), seen' = seen \cup {j},
             pending' \in {pending, pending \cup {j}},
             UNCHANGED <<run, tasks, revision, lost>>
      PROVE  Carriers'
  <2>1. Queued' = Queued \cup {j} /\ IsInjective(jobs')
    BY <1>1, EnqueueMoves DEF Carriers, OneCarrier, Carried
  <2>2. Running' = Running /\ Reported' = Reported
    BY <1>1 DEF Running, Reported
  <2>3. j \notin Carried
    BY <1>1 DEF Carriers
  <2>4. OneCarrier'
    BY <1>1, <2>1, <2>2, <2>3 DEF Carriers, OneCarrier, Carried
  <2>5. Carried' \cup pending' \subseteq seen' /\ NothingLost'
    BY <1>1, <2>1, <2>2 DEF Carriers, NothingLost, Carried
  <2>6. SnapshotIsCurrent' /\ \A r \in Requests : base'[r] <= revision'
    BY <1>1, <2>1, <2>2 DEF Carriers, SnapshotIsCurrent, Spawn, TypeOK
  <2>. QED BY <2>4, <2>5, <2>6 DEF Carriers
<1>2. ASSUME NEW r \in Requests, ReceiveRequest(r) PROVE Carriers'
  BY <1>1, <1>2 DEF ReceiveRequest, JobIds
<1>3. ASSUME NEW n \in Notes, ReceiveNote(n) PROVE Carriers'
  BY <1>1, <1>3 DEF ReceiveNote, JobIds
<1>4. ASSUME NEW r \in Requests, ReceiveUnhandled(r) PROVE Carriers'
  BY <1>4, CarriersQuiet DEF ReceiveUnhandled, Complete
<1>5. ASSUME NEW r \in Requests, ReceiveCancel(r) PROVE Carriers'
  BY <1>5, CarriersQuiet DEF ReceiveCancel, Complete
<1>6. ASSUME NEW n \in 1..MaxBatch, ReceiveEdit(n) PROVE Carriers'
  BY <1>6, CarriersQuiet DEF ReceiveEdit
<1>7. CASE ReceiveShutdown \/ Exit
  BY <1>7, CarriersQuiet DEF ReceiveShutdown, Exit
<1>8. CASE ApplyWrite
  <2>1. Queued = {} /\ Running = {}
    BY <1>8 DEF ApplyWrite, NoClones, Queued, Running, Range
  <2>2. Queued' = Queued /\ Running' = Running /\ Reported' = Reported
    BY <1>8 DEF ApplyWrite, pool, Queued, Running, Reported
  <2>3. SnapshotIsCurrent' /\ \A r \in Requests : base'[r] <= revision'
    BY <1>8, <2>1, <2>2 DEF Carriers, SnapshotIsCurrent, ApplyWrite, TypeOK
  <2>. QED BY <1>8, <2>2, <2>3
           DEF ApplyWrite, pool, Carriers, OneCarrier, Carried, NothingLost
<1>9. ASSUME tasks # << >>, tasks' = Tail(tasks),
             pending' \subseteq pending,
             Head(tasks).id \notin pending',
             UNCHANGED <<seen, pool, base, revision>>
      PROVE  Carriers'
  <2>1. /\ Reported = Reported' \cup {Head(tasks).id}
        /\ DistinctIds(tasks')
    BY <1>9, TakeTaskMoves DEF Carriers, OneCarrier
  <2>2. Queued' = Queued /\ Running' = Running
    BY <1>9 DEF Queued, Running, pool
  <2>3. OneCarrier' /\ SnapshotIsCurrent'
    BY <1>9, <2>1, <2>2 DEF Carriers, OneCarrier, SnapshotIsCurrent, pool
  <2>4. Carried' \cup pending' \subseteq seen' /\ NothingLost'
    BY <1>9, <2>1, <2>2 DEF Carriers, NothingLost, Carried, pool
  <2>. QED BY <1>9, <2>3, <2>4 DEF Carriers
<1>10. CASE TakeResponse
  BY <1>9, <1>10 DEF TakeResponse, Complete
<1>11. CASE TakeNoteError
  <2>1. Head(tasks).id \in Notes
    BY <1>11, TakeTaskMoves DEF TakeNoteError, Carriers, OneCarrier, Tasks
  <2>. QED BY <1>9, <1>11, <2>1 DEF TakeNoteError, TypeOK
<1>12. CASE TakeRetry
  <2> DEFINE r == Head(tasks).id
  <2>1. /\ Reported = Reported' \cup {r}
        /\ r \notin Reported'
        /\ DistinctIds(tasks')
        /\ r \in Requests \cap JobIds
    BY <1>12, TakeTaskMoves DEF TakeRetry, Carriers, OneCarrier, Tasks, JobIds
  <2>2. CASE r \in pending
    <3>1. Spawn(r) /\ UNCHANGED <<run, seen, pending, revision, lost>>
      BY <1>12, <2>2 DEF TakeRetry
    <3>2. r \notin Queued /\ r \notin Running
      BY <2>1 DEF Carriers, OneCarrier
    <3>3. Queued' = Queued \cup {r} /\ IsInjective(jobs')
      BY <2>1, <3>1, <3>2, EnqueueMoves DEF Carriers, OneCarrier
    <3>4. Running' = Running
      BY <3>1 DEF Running
    <3> HIDE DEF r
    <3>5. OneCarrier'
      BY <2>1, <3>1, <3>2, <3>3, <3>4 DEF Carriers, OneCarrier
    <3>6. Carried' = Carried
      BY <2>1, <3>3, <3>4 DEF Carried
    <3>7. SnapshotIsCurrent' /\ \A q \in Requests : base'[q] <= revision'
      BY <2>1, <3>1, <3>3, <3>4 DEF Carriers, SnapshotIsCurrent, Spawn, TypeOK
    <3>. QED BY <3>1, <3>5, <3>6, <3>7 DEF Carriers, NothingLost
  <2>3. CASE r \notin pending
    BY <1>9, <1>12, <2>3 DEF TakeRetry, pool
  <2>. QED BY <2>2, <2>3
<1>13. ASSUME NEW t \in Threads, StartJob(t) PROVE Carriers'
  <2> DEFINE j == Head(jobs)
  <2>1. /\ j \in JobIds
        /\ Queued = Queued' \cup {j}
        /\ j \notin Queued'
        /\ Running' = Running \cup {j}
        /\ IsInjective(jobs')
        /\ \A u, v \in Threads : run'[u] = run'[v] /\ run'[u] # NoJob => u = v
    BY <1>13, StartMoves DEF Carriers
  <2>2. Reported' = Reported
    BY <1>13 DEF StartJob, Reported
  <2> HIDE DEF j
  <2>3. OneCarrier'
    BY <1>13, <2>1, <2>2 DEF StartJob, Carriers, OneCarrier
  <2>4. Carried' = Carried
    BY <2>1, <2>2 DEF Carried
  <2>5. SnapshotIsCurrent'
    BY <1>13, <2>1 DEF StartJob, Carriers, SnapshotIsCurrent
  <2>. QED BY <1>13, <2>3, <2>4, <2>5 DEF StartJob, Carriers, NothingLost
<1>14. ASSUME NEW t \in Threads, FinishJob(t) \/ UnwindJob(t) PROVE Carriers'
  <2>1. /\ run[t] \in Running
        /\ Running' = Running \ {run[t]}
        /\ \A u, v \in Threads : run'[u] = run'[v] /\ run'[u] # NoJob => u = v
    BY <1>14, StopMoves DEF FinishJob, UnwindJob, Release, Carriers
  <2>2. UNCHANGED <<jobs, seen, pending, lost, base, revision>>
    BY <1>14 DEF FinishJob, UnwindJob, Release
  <2>3. Queued' = Queued
    BY <2>2 DEF Queued
  <2>4. DistinctIds(tasks') /\ \/ Reported' = Reported /\ run[t] \in Notes
                               \/ Reported' = Reported \cup {run[t]}
    <3>1. run[t] \notin Reported
      BY <2>1 DEF Carriers, OneCarrier
    <3>2. CASE UNCHANGED tasks /\ run[t] \in Notes
      BY <3>2 DEF Carriers, OneCarrier, Reported
    <3>3. ASSUME NEW x \in Tasks, x.id = run[t], tasks' = Append(tasks, x)
          PROVE  DistinctIds(tasks') /\ Reported' = Reported \cup {run[t]}
      BY <3>1, <3>3, ReportMoves DEF Carriers, OneCarrier
    <3>. QED BY <1>14, <3>2, <3>3, OneReport
  <2>5. OneCarrier'
    BY <2>1, <2>2, <2>3, <2>4 DEF Carriers, OneCarrier
  <2>6. Carried' \cup pending' \subseteq seen' /\ NothingLost'
    BY <2>1, <2>2, <2>3, <2>4 DEF Carriers, NothingLost, Carried, TypeOK
  <2>7. SnapshotIsCurrent'
    BY <2>1, <2>2, <2>3 DEF Carriers, SnapshotIsCurrent
  <2>. QED BY <2>2, <2>5, <2>6, <2>7 DEF Carriers
<1>15. ASSUME NEW t \in Threads, PanicJob(t) PROVE Carriers'
  <2>1. /\ run[t] \in Running
        /\ Running' = Running \ {run[t]}
        /\ \A u, v \in Threads : run'[u] = run'[v] /\ run'[u] # NoJob => u = v
    BY <1>15, StopMoves DEF PanicJob, Carriers
  <2>2. /\ UNCHANGED <<jobs, tasks, seen, pending, base, revision>>
        /\ lost' = lost \cup {run[t]}
    BY <1>15 DEF PanicJob
  <2>3. Queued' = Queued /\ Reported' = Reported
    BY <2>2 DEF Queued, Reported
  <2>4. OneCarrier' /\ SnapshotIsCurrent'
    BY <2>1, <2>2, <2>3 DEF Carriers, OneCarrier, SnapshotIsCurrent
  <2>5. Carried' \cup pending' \subseteq seen' /\ NothingLost'
    BY <2>1, <2>2, <2>3 DEF Carriers, NothingLost, Carried
  <2>. QED BY <2>2, <2>4, <2>5 DEF Carriers
<1>16. CASE UNCHANGED vars
  BY <1>16, CarriersQuiet DEF vars, pool
<1>. QED BY <1>2, <1>3, <1>4, <1>5, <1>6, <1>7, <1>8, <1>10, <1>11, <1>12, <1>13,
            <1>14, <1>15, <1>16
         DEF Next, MainStep, WorkerStep

-----------------------------------------------------------------------------
(* The replies *)

RepliesOK == ReplyState /\ SecondReplyOnlyAfterCancel

LEMMA RepliesInit == Init => RepliesOK
<1>. SUFFICES ASSUME Init PROVE RepliesOK
  OBVIOUS
<1>1. \A r \in Requests : replies[r] = << >>
  BY DEF Init
<1>2. pending = {} /\ Carried = {}
  BY SessionAssumption DEF Init, Carried, Queued, Running, Reported, Range, Ids
<1>. QED BY <1>1, <1>2 DEF RepliesOK, ReplyState, SecondReplyOnlyAfterCancel

(* Appending to a sequence of one element.                                 *)
LEMMA AppendToOne ==
  ASSUME NEW S, NEW c \in S, NEW k \in S
  PROVE  Append(<<c>>, k) = <<c, k>>
<1> DEFINE a == Append(<<c>>, k)
           b == <<c, k>>
<1>1. a \in Seq(S) /\ Len(a) = 2 /\ a[1] = c /\ a[2] = k
  OBVIOUS
<1>2. b \in Seq(S) /\ Len(b) = 2 /\ b[1] = c /\ b[2] = k
  OBVIOUS
<1>3. /\ a = [i \in 1..2 |-> a[i]]
      /\ b = [i \in 1..2 |-> b[i]]
  BY <1>1, <1>2
<1> HIDE DEF a, b
<1>4. \A i \in 1..2 : a[i] = b[i]
  <2>1. \A i \in 1..2 : i = 1 \/ i = 2
    OBVIOUS
  <2>. QED BY <1>1, <1>2, <2>1
<1>5. a = b
  BY <1>3, <1>4
<1>. QED BY <1>5 DEF a, b

(* The two sequences of replies that are ever extended.                    *)
LEMMA ShortReplies ==
  ASSUME NEW k \in Replies
  PROVE  /\ Append(<< >>, k) = <<k>>
         /\ Append(<<"canceled">>, k) = <<"canceled", k>>
         /\ Len(<<k>>) = 1
         /\ Len(<<"canceled", k>>) = 2
         /\ <<"canceled", k>>[1] = "canceled"
         /\ <<"canceled", k>>[2] = k
<1>1. "canceled" \in Replies
  BY DEF Replies
<1>. QED BY <1>1, AppendToOne

(* No reply is sent and no request is registered or completed.             *)
LEMMA RepliesQuiet ==
  ASSUME RepliesOK, UNCHANGED <<replies, pending>>,
         Carried' \cap Requests \subseteq Carried, seen \subseteq seen'
  PROVE  RepliesOK'
BY DEF RepliesOK, ReplyState, SecondReplyOnlyAfterCancel

LEMMA RepliesStep ==
  TypeOK /\ TypeOK' /\ Carriers /\ RepliesOK /\ [Next]_vars => RepliesOK'
<1> SUFFICES ASSUME TypeOK, TypeOK', Carriers, RepliesOK, [Next]_vars
             PROVE  RepliesOK'
  OBVIOUS
<1> USE SessionAssumption
<1>1. Queued \subseteq JobIds /\ Running \subseteq JobIds /\ Reported \subseteq JobIds
  BY CarriedType
<1>2. ASSUME NEW r \in Requests, ReceiveRequest(r) PROVE RepliesOK'
  <2>1. Queued' = Queued \cup {r}
    BY <1>2, EnqueueMoves DEF ReceiveRequest, JobIds, Carriers, OneCarrier, Carried
  <2>2. Carried' = Carried \cup {r}
    BY <1>2, <2>1 DEF ReceiveRequest, Carried, Running, Reported
  <2>3. replies[r] = << >>
    BY <1>2 DEF ReceiveRequest, RepliesOK, ReplyState
  <2>. QED BY <1>2, <2>2, <2>3
           DEF ReceiveRequest, RepliesOK, ReplyState, SecondReplyOnlyAfterCancel
<1>3. ASSUME NEW n \in Notes, ReceiveNote(n) PROVE RepliesOK'
  <2>1. Queued' = Queued \cup {n}
    BY <1>3, EnqueueMoves DEF ReceiveNote, JobIds, Carriers, OneCarrier, Carried
  <2>2. Carried' = Carried \cup {n}
    BY <1>3, <2>1 DEF ReceiveNote, Carried, Running, Reported
  <2>. QED BY <1>3, <2>2, RepliesQuiet DEF ReceiveNote
<1>4. ASSUME NEW r \in Requests, ReceiveUnhandled(r) PROVE RepliesOK'
  <2>1. r \notin pending /\ r \notin Carried /\ replies[r] = << >>
    BY <1>4 DEF ReceiveUnhandled, Carriers, RepliesOK, ReplyState
  <2>2. Carried' = Carried
    BY <1>4 DEF ReceiveUnhandled, pool, Carried, Queued, Running, Reported
  <2>3. /\ pending' = pending
        /\ replies' = [replies EXCEPT ![r] = <<"notFound">>]
        /\ seen' = seen \cup {r}
    BY <1>4, <2>1 DEF ReceiveUnhandled, Complete, TypeOK
  <2>4. ReplyState'
    BY <2>1, <2>2, <2>3 DEF RepliesOK, ReplyState, TypeOK
  <2>5. SecondReplyOnlyAfterCancel'
    BY <2>1, <2>3 DEF RepliesOK, SecondReplyOnlyAfterCancel, TypeOK
  <2>. QED BY <2>4, <2>5 DEF RepliesOK
<1>5. ASSUME NEW r \in Requests, ReceiveCancel(r) PROVE RepliesOK'
  <2>1. Carried' = Carried
    BY <1>5 DEF ReceiveCancel, pool, Carried, Queued, Running, Reported
  <2>2. /\ pending' = pending \ {r}
        /\ replies' = [replies EXCEPT ![r] = <<"canceled">>]
        /\ UNCHANGED seen
        /\ r \in seen
    BY <1>5, ShortReplies
       DEF ReceiveCancel, Complete, RepliesOK, ReplyState, Carriers, Replies
  <2>3. ReplyState'
    BY <2>1, <2>2 DEF RepliesOK, ReplyState, TypeOK
  <2>4. SecondReplyOnlyAfterCancel'
    BY <2>2 DEF RepliesOK, SecondReplyOnlyAfterCancel, TypeOK
  <2>. QED BY <2>3, <2>4 DEF RepliesOK
<1>6. CASE TakeResponse
  <2> DEFINE r == Head(tasks).id
             k == Head(tasks).kind
  <2>1. /\ Reported = Reported' \cup {r}
        /\ r \notin Reported'
        /\ r \in Requests
        /\ k \in {"ok", "error", "modified"}
        /\ k \in Replies
    BY <1>6, TakeTaskMoves
       DEF TakeResponse, Carriers, OneCarrier, Tasks, Replies, Outcomes
  <2>2. Queued' = Queued /\ Running' = Running
    BY <1>6 DEF TakeResponse, pool, Queued, Running
  <2>3. pending' = pending \ {r} /\ UNCHANGED seen
    BY <1>6 DEF TakeResponse, Complete
  <2>4. replies' = [replies EXCEPT ![r] = Append(@, k)]
    BY <1>6 DEF TakeResponse, Complete
  <2> HIDE DEF r, k
  <2>5. r \in Carried /\ Carried' = Carried \ {r} /\ r \in seen
    BY <2>1, <2>2 DEF Carriers, OneCarrier, Carried
  <2>6. \/ replies'[r] = <<k>>
        \/ replies'[r] = <<"canceled", k>>
    <3>1. replies[r] = << >> \/ replies[r] = <<"canceled">>
      BY <2>1, <2>5 DEF RepliesOK, ReplyState
    <3>2. replies'[r] = Append(replies[r], k)
      BY <2>1, <2>4 DEF TypeOK
    <3>. QED BY <2>1, <3>1, <3>2, ShortReplies
  <2>7. \A q \in Requests \ {r} : replies'[q] = replies[q]
    BY <2>4 DEF TypeOK
  <2>8. ReplyState'
    BY <2>1, <2>3, <2>5, <2>7 DEF RepliesOK, ReplyState
  <2>9. SecondReplyOnlyAfterCancel'
    <3>1. /\ Len(replies'[r]) <= 2
          /\ Len(replies'[r]) = 2 => /\ replies'[r][1] = "canceled"
                                     /\ replies'[r][2] \in {"ok", "error", "modified"}
      <4>1. CASE replies'[r] = <<k>>
        <5>1. Len(replies'[r]) = 1 BY <2>1, <4>1, ShortReplies
        <5>. QED BY <5>1
      <4>2. CASE replies'[r] = <<"canceled", k>>
        <5>1. /\ Len(replies'[r]) = 2
              /\ replies'[r][1] = "canceled"
              /\ replies'[r][2] = k
          BY <2>1, <4>2, ShortReplies
        <5>. QED BY <2>1, <5>1
      <4>. QED BY <2>6, <4>1, <4>2
    <3>. QED BY <2>3, <2>7, <3>1 DEF RepliesOK, SecondReplyOnlyAfterCancel
  <2>. QED BY <2>8, <2>9 DEF RepliesOK
<1>7. CASE TakeRetry
  <2> DEFINE r == Head(tasks).id
  <2>1. Reported = Reported' \cup {r} /\ r \in JobIds
    BY <1>7, TakeTaskMoves DEF TakeRetry, Carriers, OneCarrier, Tasks, JobIds
  <2>2. Queued' \subseteq Queued \cup {r}
    BY <1>7, <2>1, EnqueueMoves DEF TakeRetry, Carriers, OneCarrier, Queued
  <2>3. Carried' \subseteq Carried
    BY <1>7, <2>1, <2>2 DEF TakeRetry, Carried, Running
  <2>. QED BY <1>7, <2>3, RepliesQuiet DEF TakeRetry
<1>8. CASE TakeNoteError
  <2>1. Carried' \subseteq Carried
    BY <1>8, TakeTaskMoves
       DEF TakeNoteError, pool, Carriers, OneCarrier, Carried, Queued, Running
  <2>. QED BY <1>8, <2>1, RepliesQuiet DEF TakeNoteError
<1>9. ASSUME NEW t \in Threads, StartJob(t) PROVE RepliesOK'
  <2>1. Carried' = Carried
    BY <1>9, StartMoves DEF StartJob, Carriers, Carried, Reported
  <2>. QED BY <1>9, <2>1, RepliesQuiet DEF StartJob
<1>10. ASSUME NEW t \in Threads, FinishJob(t) \/ UnwindJob(t) PROVE RepliesOK'
  <2>1. run[t] \in Running /\ Running' = Running \ {run[t]}
    BY <1>10, StopMoves DEF FinishJob, UnwindJob, Release, Carriers
  <2>2. Queued' = Queued /\ UNCHANGED <<seen, replies, pending>>
    BY <1>10 DEF FinishJob, UnwindJob, Release, Queued
  <2>3. Reported' \subseteq Reported \cup {run[t]}
    <3>1. run[t] \notin Reported
      BY <2>1 DEF Carriers, OneCarrier
    <3>. QED BY <1>10, <3>1, OneReport, ReportMoves DEF Carriers, OneCarrier, Reported
  <2>. QED BY <2>1, <2>2, <2>3, RepliesQuiet DEF Carried
<1>11. ASSUME NEW t \in Threads, PanicJob(t) PROVE RepliesOK'
  <2>1. Running' = Running \ {run[t]}
    BY <1>11, StopMoves DEF PanicJob, Carriers
  <2>. QED BY <1>11, <2>1, RepliesQuiet DEF PanicJob, Carried, Queued, Reported
<1>12. CASE \/ \E n \in 1..MaxBatch : ReceiveEdit(n)
            \/ ApplyWrite \/ ReceiveShutdown \/ Exit \/ UNCHANGED vars
  <2>1. UNCHANGED <<jobs, run, tasks, seen, replies, pending>>
    BY <1>12 DEF ReceiveEdit, ApplyWrite, ReceiveShutdown, Exit, vars, pool
  <2>. QED BY <2>1, RepliesQuiet DEF Carried, Queued, Running, Reported
<1>. QED BY <1>2, <1>3, <1>4, <1>5, <1>6, <1>7, <1>8, <1>9, <1>10, <1>11, <1>12
         DEF Next, MainStep, WorkerStep

-----------------------------------------------------------------------------
(* "content modified" *)

LEMMA ModifiedInit == Init => ModifiedSource
BY DEF Init, ModifiedSource

(* No task is added, no reason for one disappears.                         *)
LEMMA ModifiedQuiet ==
  ASSUME ModifiedSource,
         \A i \in DOMAIN tasks' : \E k \in DOMAIN tasks : tasks'[i] = tasks[k],
         writes' = 0 => writes = 0 /\ UNCHANGED revision,
         UNCHANGED base, lost \subseteq lost', doomed' # {} => doomed # {} \/ lost' # {}
  PROVE  ModifiedSource'
BY DEF ModifiedSource

LEMMA ModifiedStep ==
  TypeOK /\ TypeOK' /\ Carriers /\ ModifiedSource /\ [Next]_vars => ModifiedSource'
<1> SUFFICES ASSUME TypeOK, TypeOK', Carriers, ModifiedSource, [Next]_vars
             PROVE  ModifiedSource'
  OBVIOUS
<1> USE SessionAssumption
<1>1. ASSUME NEW j \in JobIds, j \notin Ids(tasks'), Spawn(j),
             \A i \in DOMAIN tasks' : \E k \in DOMAIN tasks : tasks'[i] = tasks[k],
             UNCHANGED <<writes, revision, doomed, lost>>
      PROVE  ModifiedSource'
  <2>1. \A i \in DOMAIN tasks' : base'[tasks'[i].id] = base[tasks'[i].id]
    BY <1>1 DEF Spawn, Ids, TypeOK
  <2>. QED BY <1>1, <2>1 DEF ModifiedSource
<1>2. ASSUME NEW j \in JobIds, j \notin seen, Spawn(j),
             UNCHANGED <<tasks, writes, revision, doomed, lost>>
      PROVE  ModifiedSource'
  <2>1. j \notin Ids(tasks')
    BY <1>2 DEF Carriers, Carried, Reported
  <2>. QED BY <1>1, <1>2, <2>1
<1>3. ASSUME NEW r \in Requests, ReceiveRequest(r) PROVE ModifiedSource'
  BY <1>2, <1>3 DEF ReceiveRequest, JobIds
<1>4. ASSUME NEW n \in Notes, ReceiveNote(n) PROVE ModifiedSource'
  BY <1>2, <1>4 DEF ReceiveNote, JobIds
<1>5. CASE TakeResponse \/ TakeNoteError
  <2>1. tasks # << >> /\ tasks' = Tail(tasks) /\ UNCHANGED <<pool, writes, revision, base>>
    BY <1>5 DEF TakeResponse, TakeNoteError
  <2>2. \A i \in DOMAIN tasks' : \E k \in DOMAIN tasks : tasks'[i] = tasks[k]
    BY <2>1, TakeTaskMoves DEF Carriers, OneCarrier
  <2>. QED BY <2>1, <2>2, ModifiedQuiet DEF pool
<1>6. CASE TakeRetry
  <2>1. /\ \A i \in DOMAIN tasks' : \E k \in DOMAIN tasks : tasks'[i] = tasks[k]
        /\ Head(tasks).id \notin Ids(tasks')
        /\ Head(tasks).id \in JobIds
    BY <1>6, TakeTaskMoves DEF TakeRetry, Carriers, OneCarrier, Reported, Tasks, JobIds
  <2>2. CASE Head(tasks).id \in pending
    BY <1>1, <1>6, <2>1, <2>2 DEF TakeRetry
  <2>3. CASE Head(tasks).id \notin pending
    BY <1>6, <2>1, <2>3, ModifiedQuiet DEF TakeRetry
  <2>. QED BY <2>2, <2>3
<1>7. ASSUME NEW n \in 1..MaxBatch, ReceiveEdit(n) PROVE ModifiedSource'
  BY <1>7 DEF ReceiveEdit, pool, ModifiedSource
<1>8. CASE ApplyWrite
  <2>1. \A i \in DOMAIN tasks : tasks[i].kind = "modified"
          => base[tasks[i].id] \in Nat /\ base[tasks[i].id] <= revision
    BY DEF TypeOK, Tasks, Carriers
  <2>. QED BY <1>8, <2>1 DEF ApplyWrite, pool, ModifiedSource, TypeOK
<1>9. ASSUME NEW t \in Threads, FinishJob(t) \/ UnwindJob(t) PROVE ModifiedSource'
  <2>1. UNCHANGED <<writes, revision, base, lost>> /\ doomed' = doomed \ {t}
    BY <1>9 DEF FinishJob, UnwindJob, Release
  <2>2. CASE UNCHANGED tasks
    BY <2>1, <2>2, ModifiedQuiet
  <2>3. ASSUME NEW x \in Tasks, tasks' = Append(tasks, x),
               x.kind = "modified" => UnwindJob(t)
        PROVE  ModifiedSource'
    <3>1. x.kind = "modified" => writes > 0 \/ doomed # {}
      BY <2>3 DEF UnwindJob
    <3>2. \A i \in DOMAIN tasks' : tasks'[i] = x \/ \E k \in DOMAIN tasks : tasks'[i] = tasks[k]
      BY <2>3 DEF TypeOK
    <3>. QED BY <2>1, <3>1, <3>2 DEF ModifiedSource
  <2>. QED BY <1>9, <2>2, <2>3, OneReport
<1>10. ASSUME NEW t \in Threads, PanicJob(t) PROVE ModifiedSource'
  BY <1>10, ModifiedQuiet DEF PanicJob
<1>11. CASE \/ \E r \in Requests : ReceiveUnhandled(r) \/ ReceiveCancel(r)
            \/ \E t \in Threads : StartJob(t)
            \/ ReceiveShutdown \/ Exit \/ UNCHANGED vars
  <2>1. UNCHANGED <<tasks, writes, revision, base, doomed, lost>>
    BY <1>11 DEF ReceiveUnhandled, ReceiveCancel, StartJob, ReceiveShutdown, Exit,
                 vars, pool
  <2>. QED BY <2>1, ModifiedQuiet
<1>. QED BY <1>3, <1>4, <1>5, <1>6, <1>7, <1>8, <1>9, <1>10, <1>11
         DEF Next, MainStep, WorkerStep

-----------------------------------------------------------------------------
(* The theorems *)

LEMMA IInvInit == Init => IInv
BY TypeInit, CarriersInit, RepliesInit, ModifiedInit DEF IInv, RepliesOK

LEMMA IInvStep == IInv /\ [Next]_vars => IInv'
BY TypeStep, CarriersStep, RepliesStep, ModifiedStep DEF IInv, RepliesOK

LEMMA IInvAlways == Spec => []IInv
BY IInvInit, IInvStep, PTL DEF Spec

(* No request is ever carried twice: retries do not duplicate work.        *)
THEOREM OneCarrierHolds == Spec => []OneCarrier
BY IInvAlways, PTL DEF IInv, Carriers

(* A registered request is always on its way to a reply, or its handler    *)
(* has panicked.                                                           *)
THEOREM NothingLostHolds == Spec => []NothingLost
BY IInvAlways, PTL DEF IInv, Carriers

(* A second reply is the outcome of a handler whose request was withdrawn  *)
(* and told so before.                                                     *)
THEOREM SecondReplyHolds == Spec => []SecondReplyOnlyAfterCancel
BY IInvAlways, PTL DEF IInv

(* No write is applied under a clone of the database that lives.           *)
THEOREM SnapshotIsCurrentHolds == Spec => []SnapshotIsCurrent
BY IInvAlways, PTL DEF IInv, Carriers

(* "content modified" is reported only for a request that a write has      *)
(* overtaken, unless a handler has panicked.                               *)
THEOREM ModifiedIsTrueHolds == Spec => []ModifiedIsTrue
<1>1. IInv => ModifiedIsTrue
  BY DEF IInv, ModifiedSource, ModifiedIsTrue, AtSelect
<1>. QED BY <1>1, IInvAlways, PTL

-----------------------------------------------------------------------------
(* Session implements Exchange *)

LEMMA ClientInit == Init => Client!Init
BY DEF Init, Client!Init

LEMMA ClientStep == IInv /\ IInv' /\ [Next]_vars => [Client!Next]_(Client!vars)
<1> SUFFICES ASSUME IInv, IInv', [Next]_vars
             PROVE  Client!Next \/ UNCHANGED Client!vars
  BY DEF Client!vars
<1> USE SessionAssumption
<1> DEFINE asked == seen \cap Requests
<1>1. ASSUME UNCHANGED <<replies, pending>>, asked' = asked
      PROVE  UNCHANGED Client!vars
  BY <1>1 DEF Client!vars
<1>2. ASSUME NEW r \in Requests, ReceiveRequest(r) PROVE Client!Next
  <2>1. Client!Ask(r)
    BY <1>2 DEF ReceiveRequest, Client!Ask
  <2>. QED BY <2>1 DEF Client!Next
<1>3. ASSUME NEW r \in Requests, ReceiveUnhandled(r) PROVE Client!Next
  <2>1. Client!Refuse(r, "notFound")
    BY <1>3 DEF ReceiveUnhandled, Complete, Client!Refuse, IInv, Carriers
  <2>. QED BY <2>1 DEF Client!Next, Outcomes
<1>4. ASSUME NEW r \in Requests, ReceiveCancel(r) PROVE Client!Next
  <2>1. replies[r] = << >>
    BY <1>4 DEF ReceiveCancel, IInv, ReplyState
  <2>2. replies' = [replies EXCEPT ![r] = <<"canceled">>]
    BY <1>4, <2>1, ShortReplies DEF ReceiveCancel, Complete, Replies
  <2>3. Client!Answer(r, "canceled")
    BY <1>4, <2>1, <2>2 DEF ReceiveCancel, Complete, Client!Answer
  <2>. QED BY <2>3 DEF Client!Next
<1>5. CASE TakeResponse
  <2> DEFINE r == Head(tasks).id
             k == Head(tasks).kind
  <2>1. r \in Reported /\ r \in Requests /\ k \in Outcomes /\ k \in Replies
    BY <1>5, TakeTaskMoves
       DEF TakeResponse, IInv, Carriers, OneCarrier, Tasks, Outcomes, Replies
  <2>2. /\ replies' = [replies EXCEPT ![r] = Append(@, k)]
        /\ pending' = pending \ {r}
        /\ UNCHANGED seen
    BY <1>5 DEF TakeResponse, Complete
  <2> HIDE DEF r, k
  <2>3. CASE r \in pending
    <3>1. replies[r] = << >>
      BY <2>1, <2>3 DEF IInv, ReplyState
    <3>2. replies' = [replies EXCEPT ![r] = <<k>>]
      BY <2>1, <2>2, <3>1, ShortReplies
    <3>3. Client!Answer(r, k)
      BY <2>2, <2>3, <3>1, <3>2 DEF Client!Answer
    <3>. QED BY <2>1, <3>3 DEF Client!Next
  <2>4. CASE r \notin pending
    <3>1. replies[r] = <<"canceled">> /\ r \in seen
      BY <2>1, <2>4 DEF IInv, ReplyState, Carriers, Carried
    <3>2. replies' = [replies EXCEPT ![r] = <<"canceled", k>>]
      BY <2>1, <2>2, <3>1, ShortReplies
    <3>3. Client!Surplus(r, k)
      BY <2>1, <2>2, <2>4, <3>1, <3>2 DEF Client!Surplus
    <3>. QED BY <2>1, <3>3 DEF Client!Next
  <2>. QED BY <2>3, <2>4
<1>6. ASSUME NEW n \in Notes, ReceiveNote(n) PROVE UNCHANGED Client!vars
  BY <1>1, <1>6 DEF ReceiveNote
<1>7. CASE \/ \E n \in 1..MaxBatch : ReceiveEdit(n)
           \/ ApplyWrite \/ ReceiveShutdown \/ Exit \/ TakeRetry \/ TakeNoteError
           \/ UNCHANGED vars
  BY <1>1, <1>7 DEF ReceiveEdit, ApplyWrite, ReceiveShutdown, Exit, TakeRetry,
                    TakeNoteError, vars
<1>8. CASE \E t \in Threads : WorkerStep(t)
  BY <1>1, <1>8 DEF WorkerStep, StartJob, FinishJob, UnwindJob, PanicJob, Release
<1>. QED BY <1>2, <1>3, <1>4, <1>5, <1>6, <1>7, <1>8 DEF Next, MainStep

(* Whatever is queued, retried, unwound or written, the client observes an *)
(* exchange that Exchange allows.                                          *)
THEOREM ClientImplemented == Spec => ClientSpec
<1>1. Spec => Client!Init
  BY ClientInit DEF Spec
<1>. QED BY <1>1, IInvAlways, ClientStep, PTL DEF Spec, ClientSpec, Client!Spec
=============================================================================
