----------------------------- MODULE ScanProofs -----------------------------
(***************************************************************************)
(* Proofs about Scan, for any files, any map of shards and any workers.    *)
(***************************************************************************)
EXTENDS Scan, TLAPS

-----------------------------------------------------------------------------
(* The inductive invariant *)

Stages == {"idle", "scan", "query", "compute", "done"}

TypeOK ==
  /\ urls \subseteq Files
  /\ gone \subseteq Files
  /\ memo \subseteq Files
  /\ claim \in [Files -> Workers \cup {None}]
  /\ pc \in [Workers -> Stages]
  /\ at \in [Workers -> 0..Shards]
  /\ todo \in [Workers -> SUBSET Files]
  /\ file \in [Workers -> Files \cup {None}]
  /\ reported \in [Workers -> SUBSET Files]
  /\ known \in [Workers -> SUBSET Files]
  /\ task \in {"none", "open", "delete", "write"}
  /\ target \in Files \cup {None}
  /\ task # "none" => target \in Files
  /\ edits \in Nat

(* A worker has a file exactly while it asks for its symbols, and a claim  *)
(* exactly while it computes them.                                         *)
Claimed ==
  /\ \A w \in Workers : file[w] # None <=> pc[w] \in {"query", "compute"}
  /\ \A f \in Files, w \in Workers :
       claim[f] = w <=> pc[w] = "compute" /\ file[w] = f

(* Only scanners hold locks, and only while they scan.                     *)
Locked ==
  \A w \in Workers :
    /\ w \notin Scanners => pc[w] # "scan" /\ at[w] = 0
    /\ pc[w] \in {"idle", "done"} => at[w] = 0

(* Where a file known at the start of a scan is, while the scan runs: in a *)
(* shard still to come, to be visited, visited now, dealt with or deleted. *)
Ahead(w) == {f \in Files : at[w] < ShardOf[f]}
Accounted ==
  \A w \in Scanners :
    /\ known[w] \subseteq urls \cup gone
    /\ pc[w] \in {"scan", "query", "compute"} =>
         known[w] \subseteq Ahead(w) \cup todo[w] \cup {file[w]} \cup reported[w] \cup gone

IInv == TypeOK /\ Claimed /\ Locked /\ Accounted /\ ScanIsComplete

-----------------------------------------------------------------------------
(* Type correctness *)

LEMMA TypeInit == Init => TypeOK
BY ScanAssumption DEF Init, TypeOK, Stages

(* The end of a query keeps the types.                                     *)
LEMMA ReturnType ==
  ASSUME TypeOK, NEW w \in Workers, file[w] \in Files, Return(w)
  PROVE  /\ pc' \in [Workers -> Stages]
         /\ file' \in [Workers -> Files \cup {None}]
         /\ reported' \in [Workers -> SUBSET Files]
BY DEF TypeOK, Return, Stages

LEMMA TypeStep == TypeOK /\ Claimed /\ [Next]_vars => TypeOK'
<1> SUFFICES ASSUME TypeOK, Claimed, [Next]_vars PROVE TypeOK'
  OBVIOUS
<1> USE ScanAssumption
<1>1. ASSUME NEW w \in Scanners, NextShard(w) PROVE TypeOK'
  <2>1. w \in Workers /\ at[w] + 1 \in 0..Shards
    BY <1>1 DEF NextShard, TypeOK, Workers
  <2>2. at' \in [Workers -> 0..Shards] /\ pc' \in [Workers -> Stages]
    BY <1>1, <2>1 DEF NextShard, TypeOK, Stages
  <2>3. todo' \in [Workers -> SUBSET Files]
    BY <1>1, <2>1 DEF NextShard, TypeOK
  <2>4. reported' \in [Workers -> SUBSET Files] /\ known' \in [Workers -> SUBSET Files]
    BY <1>1, <2>1 DEF NextShard, TypeOK
  <2>. QED BY <1>1, <2>2, <2>3, <2>4 DEF NextShard, TypeOK
<1>2. ASSUME NEW w \in Scanners, Visit(w) PROVE TypeOK'
  BY <1>2 DEF Visit, TypeOK, Stages, Workers
<1>3. ASSUME NEW w \in Scanners, Skip(w) PROVE TypeOK'
  BY <1>3 DEF Skip, TypeOK, Workers
<1>4. ASSUME NEW w \in Scanners, EndScan(w) PROVE TypeOK'
  BY <1>4 DEF EndScan, TypeOK, Stages, Workers
<1>5. ASSUME NEW w \in Viewers, View(w) PROVE TypeOK'
  BY <1>5 DEF View, TypeOK, Stages, Workers
<1>6. ASSUME NEW w \in Workers, Hit(w) PROVE TypeOK'
  <2>1. file[w] \in Files BY <1>6 DEF Hit, TypeOK
  <2>. QED BY <1>6, <2>1, ReturnType DEF Hit, TypeOK
<1>7. ASSUME NEW w \in Workers, Claim(w) PROVE TypeOK'
  BY <1>7 DEF Claim, TypeOK, Claimed, Stages
<1>8. ASSUME NEW w \in Workers, Register(w) PROVE TypeOK'
  <2>1. file[w] \in Files BY <1>8 DEF Register, TypeOK, Claimed
  <2>2. Includes[file[w]] \subseteq Files BY <2>1
  <2>. QED BY <1>8, <2>2 DEF Register, Missing, TypeOK
<1>9. ASSUME NEW w \in Workers, Computed(w) PROVE TypeOK'
  <2>1. file[w] \in Files BY <1>9 DEF Computed, TypeOK, Claimed
  <2>. QED BY <1>9, <2>1, ReturnType DEF Computed, TypeOK
<1>10. ASSUME NEW w \in Workers, Unwind(w) PROVE TypeOK'
  BY <1>10 DEF Unwind, TypeOK, Stages
<1>11. CASE Notified
  BY <1>11 DEF Notified, TypeOK
<1>12. CASE Insert \/ EndWrite
  BY <1>12 DEF Insert, EndWrite, TypeOK
<1>15. CASE Remove
  BY <1>15 DEF Remove, TypeOK
<1>13. ASSUME NEW w \in Workers, Again(w) PROVE TypeOK'
  BY <1>13 DEF Again, TypeOK, Stages
<1>14. CASE UNCHANGED vars
  BY <1>14 DEF vars, TypeOK
<1>. QED BY <1>1, <1>2, <1>3, <1>4, <1>5, <1>6, <1>7, <1>8, <1>9, <1>10, <1>11,
            <1>12, <1>13, <1>14, <1>15
         DEF Next, ScannerStep, QueryStep

-----------------------------------------------------------------------------
(* Claims and locks *)

LEMMA ClaimedInit == Init => Claimed /\ Locked
BY ScanAssumption DEF Init, Claimed, Locked, Workers

(* A file is claimed by the worker that computes it and by nobody else.    *)
LEMMA ClaimedStep == TypeOK /\ Claimed /\ Locked /\ [Next]_vars => Claimed'
<1> SUFFICES ASSUME TypeOK, Claimed, Locked, [Next]_vars PROVE Claimed'
  OBVIOUS
<1> USE ScanAssumption
<1>1. ASSUME NEW w \in Scanners, NextShard(w) PROVE Claimed'
  BY <1>1 DEF NextShard, TypeOK, Claimed, Workers
<1>2. ASSUME NEW w \in Scanners, Visit(w) PROVE Claimed'
  BY <1>2 DEF Visit, TypeOK, Claimed, Workers
<1>3. ASSUME NEW w \in Scanners, Skip(w) PROVE Claimed'
  BY <1>3 DEF Skip, TypeOK, Claimed, Workers
<1>4. ASSUME NEW w \in Scanners, EndScan(w) PROVE Claimed'
  BY <1>4 DEF EndScan, TypeOK, Claimed, Workers
<1>5. ASSUME NEW w \in Viewers, View(w) PROVE Claimed'
  BY <1>5 DEF View, TypeOK, Claimed, Workers
<1>6. ASSUME NEW w \in Workers, Hit(w) PROVE Claimed'
  BY <1>6 DEF Hit, Return, TypeOK, Claimed
<1>7. ASSUME NEW w \in Workers, Claim(w) PROVE Claimed'
  BY <1>7 DEF Claim, TypeOK, Claimed, Workers
<1>8. ASSUME NEW w \in Workers, Register(w) PROVE Claimed'
  BY <1>8 DEF Register, TypeOK, Claimed
<1>9. ASSUME NEW w \in Workers, Computed(w) PROVE Claimed'
  BY <1>9 DEF Computed, Return, TypeOK, Claimed, Workers
<1>10. ASSUME NEW w \in Workers, Unwind(w) PROVE Claimed'
  BY <1>10 DEF Unwind, TypeOK, Claimed, Workers
<1>11. CASE Notified
  BY <1>11 DEF Notified, Claimed
<1>12. CASE Insert \/ EndWrite
  BY <1>12 DEF Insert, EndWrite, Claimed
<1>15. CASE Remove
  BY <1>15 DEF Remove, Claimed
<1>13. ASSUME NEW w \in Workers, Again(w) PROVE Claimed'
  BY <1>13 DEF Again, TypeOK, Claimed
<1>14. CASE UNCHANGED vars
  BY <1>14 DEF vars, Claimed
<1>. QED BY <1>1, <1>2, <1>3, <1>4, <1>5, <1>6, <1>7, <1>8, <1>9, <1>10, <1>11,
            <1>12, <1>13, <1>14, <1>15
         DEF Next, ScannerStep, QueryStep

LEMMA LockedStep == TypeOK /\ Locked /\ [Next]_vars => Locked'
<1> SUFFICES ASSUME TypeOK, Locked, [Next]_vars PROVE Locked'
  OBVIOUS
<1> USE ScanAssumption
<1>1. ASSUME NEW w \in Scanners, NextShard(w) PROVE Locked'
  BY <1>1 DEF NextShard, TypeOK, Locked, Workers
<1>2. ASSUME NEW w \in Scanners, Visit(w) PROVE Locked'
  BY <1>2 DEF Visit, TypeOK, Locked, Workers
<1>3. ASSUME NEW w \in Scanners, Skip(w) PROVE Locked'
  BY <1>3 DEF Skip, TypeOK, Locked, Workers
<1>4. ASSUME NEW w \in Scanners, EndScan(w) PROVE Locked'
  BY <1>4 DEF EndScan, TypeOK, Locked, Workers
<1>5. ASSUME NEW w \in Viewers, View(w) PROVE Locked'
  BY <1>5 DEF View, TypeOK, Locked, Workers
<1>6. ASSUME NEW w \in Workers, Hit(w) PROVE Locked'
  BY <1>6 DEF Hit, Return, TypeOK, Locked, Workers
<1>7. ASSUME NEW w \in Workers, Claim(w) PROVE Locked'
  BY <1>7 DEF Claim, TypeOK, Locked, Workers
<1>8. ASSUME NEW w \in Workers, Register(w) PROVE Locked'
  BY <1>8 DEF Register, TypeOK, Locked, Workers
<1>9. ASSUME NEW w \in Workers, Computed(w) PROVE Locked'
  BY <1>9 DEF Computed, Return, TypeOK, Locked, Workers
<1>10. ASSUME NEW w \in Workers, Unwind(w) PROVE Locked'
  BY <1>10 DEF Unwind, TypeOK, Locked, Workers
<1>11. CASE Notified
  BY <1>11 DEF Notified, TypeOK, Locked, Workers
<1>12. CASE Insert \/ EndWrite
  BY <1>12 DEF Insert, EndWrite, TypeOK, Locked, Workers
<1>15. CASE Remove
  BY <1>15 DEF Remove, TypeOK, Locked, Workers
<1>13. ASSUME NEW w \in Workers, Again(w) PROVE Locked'
  BY <1>13 DEF Again, TypeOK, Locked, Workers
<1>14. CASE UNCHANGED vars
  BY <1>14 DEF vars, TypeOK, Locked, Workers
<1>. QED BY <1>1, <1>2, <1>3, <1>4, <1>5, <1>6, <1>7, <1>8, <1>9, <1>10, <1>11,
            <1>12, <1>13, <1>14, <1>15
         DEF Next, ScannerStep, QueryStep

-----------------------------------------------------------------------------
(* Scans *)

LEMMA AccountedInit == Init => Accounted /\ ScanIsComplete
BY ScanAssumption DEF Init, Accounted, ScanIsComplete, Workers

(* The end of a query adds the file asked for to those dealt with.         *)
LEMMA ReturnAccounts ==
  ASSUME TypeOK, Claimed, Accounted, NEW v \in Workers, pc[v] \in {"query", "compute"}, Return(v),
         UNCHANGED <<urls, gone, at, todo, known>>
  PROVE  Accounted'
<1> SUFFICES ASSUME NEW w \in Scanners
             PROVE  /\ known[w] \subseteq urls \cup gone
                    /\ pc'[w] \in {"scan", "query", "compute"} =>
                         known[w] \subseteq Ahead(w) \cup todo[w] \cup {file'[w]}
                                             \cup reported'[w] \cup gone
  BY DEF Accounted, Ahead
<1>1. w \in Workers BY DEF Workers
<1>2. CASE v = w
  BY <1>1, <1>2 DEF Return, TypeOK, Accounted, Workers
<1>3. CASE v # w
  BY <1>1, <1>3 DEF Return, TypeOK, Accounted, Workers
<1>. QED BY <1>2, <1>3

(* A scan goes on to a shard with all of its files: none is passed over.   *)
LEMMA NextShardAccounts ==
  ASSUME TypeOK, Claimed, Locked, Accounted, NEW v \in Scanners, NextShard(v)
  PROVE  Accounted'
<1> USE ScanAssumption
<1>1. v \in Workers /\ at[v] \in Nat /\ urls \subseteq Files
  BY DEF Workers, TypeOK
<1>2. urls' = urls /\ gone' = gone /\ file' = file
  BY DEF NextShard
<1>3. at' = [at EXCEPT ![v] = at[v] + 1] /\ at'[v] = at[v] + 1
  BY <1>1 DEF NextShard, TypeOK
<1>4. todo'[v] = {f \in urls : ShardOf[f] = at[v] + 1}
  BY <1>1, <1>3 DEF NextShard, TypeOK
<1>5. ASSUME NEW w \in Scanners, w # v
      PROVE  /\ at'[w] = at[w] /\ pc'[w] = pc[w] /\ todo'[w] = todo[w]
             /\ known'[w] = known[w] /\ reported'[w] = reported[w]
  BY <1>1, <1>5 DEF NextShard, TypeOK, Workers
<1>6. ASSUME NEW f \in urls, at[v] < ShardOf[f] PROVE f \in Ahead(v)' \cup todo'[v]
  <2>1. ShardOf[f] \in Nat /\ f \in Files BY <1>1
  <2>. QED BY <1>1, <1>3, <1>4, <1>6, <2>1 DEF Ahead
<1>7. CASE pc[v] = "idle"
  <2>1. at[v] = 0 BY <1>1, <1>7 DEF Locked
  <2>2. known'[v] = urls BY <1>1, <1>7 DEF NextShard, TypeOK
  <2>3. \A f \in urls : at[v] < ShardOf[f]
    BY <1>1, <2>1
  <2>4. known'[v] \subseteq Ahead(v)' \cup todo'[v]
    BY <1>6, <2>2, <2>3
  <2>. QED BY <1>2, <1>5, <2>2, <2>4 DEF Accounted, Ahead
<1>8. CASE pc[v] = "scan" /\ todo[v] = {}
  <2>1. known'[v] = known[v] /\ reported'[v] = reported[v]
    BY <1>8 DEF NextShard
  <2>2. file[v] = None BY <1>1, <1>8 DEF Claimed
  <2>3. known[v] \subseteq urls \cup gone /\ known[v] \subseteq Ahead(v) \cup reported[v] \cup gone
    BY ScanAssumption, <1>1, <1>8, <2>2 DEF Accounted, TypeOK
  <2>4. known'[v] \subseteq Ahead(v)' \cup todo'[v] \cup reported'[v] \cup gone
    BY <1>6, <2>1, <2>3 DEF Ahead
  <2>. QED BY <1>2, <1>5, <2>1, <2>3, <2>4 DEF Accounted, Ahead
<1>. QED BY <1>7, <1>8 DEF NextShard

(* No file that was known when a scan began is lost from sight but by its  *)
(* deletion.                                                               *)
LEMMA AccountedStep ==
  TypeOK /\ Claimed /\ Locked /\ Accounted /\ [Next]_vars => Accounted'
<1> SUFFICES ASSUME TypeOK, Claimed, Locked, Accounted, [Next]_vars PROVE Accounted'
  OBVIOUS
<1>1. ASSUME NEW w \in Scanners, NextShard(w) PROVE Accounted'
  BY <1>1, NextShardAccounts
<1>2. ASSUME NEW w \in Scanners, Visit(w) PROVE Accounted'
  BY <1>2, ScanAssumption DEF Visit, TypeOK, Claimed, Accounted, Ahead, Workers
<1>3. ASSUME NEW w \in Scanners, Skip(w) PROVE Accounted'
  BY <1>3 DEF Skip, TypeOK, Accounted, Ahead, Workers
<1>4. ASSUME NEW w \in Scanners, EndScan(w) PROVE Accounted'
  BY <1>4 DEF EndScan, TypeOK, Accounted, Ahead, Workers
<1>5. ASSUME NEW w \in Viewers, View(w) PROVE Accounted'
  BY <1>5, ScanAssumption DEF View, TypeOK, Accounted, Ahead, Workers
<1>6. ASSUME NEW w \in Workers, Hit(w) PROVE Accounted'
  BY <1>6, ReturnAccounts DEF Hit
<1>7. ASSUME NEW w \in Workers, Claim(w) PROVE Accounted'
  BY <1>7 DEF Claim, TypeOK, Accounted, Ahead, Workers
<1>8. ASSUME NEW w \in Workers, Register(w) PROVE Accounted'
  BY <1>8 DEF Register, TypeOK, Accounted, Ahead, Workers
<1>9. ASSUME NEW w \in Workers, Computed(w) PROVE Accounted'
  BY <1>9, ReturnAccounts DEF Computed
<1>10. ASSUME NEW w \in Workers, Unwind(w) PROVE Accounted'
  BY <1>10 DEF Unwind, TypeOK, Accounted, Ahead, Workers
<1>11. CASE Notified
  BY <1>11 DEF Notified, TypeOK, Accounted, Ahead, Workers
<1>12. CASE Insert \/ EndWrite
  BY <1>12 DEF Insert, EndWrite, TypeOK, Accounted, Ahead, Workers
<1>15. CASE Remove
  BY <1>15 DEF Remove, TypeOK, Accounted, Ahead, Workers
<1>13. ASSUME NEW w \in Workers, Again(w) PROVE Accounted'
  BY <1>13 DEF Again, TypeOK, Accounted, Ahead, Workers
<1>14. CASE UNCHANGED vars
  BY <1>14 DEF vars, TypeOK, Accounted, Ahead, Workers
<1>. QED BY <1>1, <1>2, <1>3, <1>4, <1>5, <1>6, <1>7, <1>8, <1>9, <1>10, <1>11,
            <1>12, <1>13, <1>14, <1>15
         DEF Next, ScannerStep, QueryStep

(* A scan ends in the last shard, when nothing is ahead any more; and only *)
(* a new scan makes another one of it.                                     *)
LEMMA CompleteStep == IInv /\ [Next]_vars => ScanIsComplete'
<1> SUFFICES ASSUME IInv, [Next]_vars, NEW w \in Scanners, pc'[w] = "done"
             PROVE  known'[w] \subseteq reported'[w] \cup gone'
  BY DEF ScanIsComplete
<1> USE ScanAssumption DEF IInv
<1>1. w \in Workers BY DEF Workers
<1>2. CASE EndScan(w)
  <2>1. Ahead(w) = {} BY <1>1, <1>2 DEF EndScan, Ahead, TypeOK
  <2>2. file[w] = None BY <1>1, <1>2 DEF EndScan, Claimed
  <2>. QED BY <1>1, <1>2, <2>1, <2>2 DEF EndScan, Accounted, TypeOK
<1>3. CASE pc[w] = "done" /\ known'[w] = known[w] /\ reported'[w] = reported[w] /\ gone \subseteq gone'
  BY <1>3 DEF ScanIsComplete
<1>4. \/ EndScan(w)
      \/ pc[w] = "done" /\ known'[w] = known[w] /\ reported'[w] = reported[w] /\ gone \subseteq gone'
  <2>1. ASSUME NEW v \in Scanners, NextShard(v) PROVE <1>4!:
    BY <1>1, <2>1 DEF NextShard, TypeOK, Workers
  <2>2. ASSUME NEW v \in Scanners, Visit(v) PROVE <1>4!:
    BY <1>1, <2>2 DEF Visit, TypeOK, Workers
  <2>3. ASSUME NEW v \in Scanners, Skip(v) PROVE <1>4!:
    BY <1>1, <2>3 DEF Skip, TypeOK, Workers
  <2>4. ASSUME NEW v \in Scanners, EndScan(v) PROVE <1>4!:
    BY <1>1, <2>4 DEF EndScan, TypeOK, Workers
  <2>5. ASSUME NEW v \in Viewers, View(v) PROVE <1>4!:
    BY <1>1, <2>5 DEF View, TypeOK, Workers
  <2>6. ASSUME NEW v \in Workers, QueryStep(v) PROVE <1>4!:
    BY <1>1, <2>6 DEF QueryStep, Hit, Claim, Register, Computed, Unwind, Return, TypeOK, Workers
  <2>7. ASSUME NEW v \in Workers, Again(v) PROVE <1>4!:
    BY <1>1, <2>7 DEF Again, TypeOK, Workers
  <2>8. CASE Notified \/ Insert \/ Remove \/ EndWrite \/ UNCHANGED vars
    BY <2>8 DEF Notified, Insert, Remove, EndWrite, vars
  <2>. QED BY <2>1, <2>2, <2>3, <2>4, <2>5, <2>6, <2>7, <2>8 DEF Next, ScannerStep
<1>. QED BY <1>2, <1>3, <1>4

-----------------------------------------------------------------------------
(* Theorems *)

LEMMA Inductive == Spec => []IInv
<1>1. Init => IInv
  BY TypeInit, ClaimedInit, AccountedInit DEF IInv
<1>2. IInv /\ [Next]_vars => IInv'
  BY TypeStep, ClaimedStep, LockedStep, AccountedStep, CompleteStep DEF IInv
<1>. QED BY <1>1, <1>2, PTL DEF Spec

(* A finished scan has visited every file that was registered when it      *)
(* began and was not deleted under way, for every map of shards and        *)
(* whatever the other workers and the main thread register, compute,       *)
(* delete and write (the loops over file_iter).                            *)
THEOREM ScanIsCompleteHolds == Spec => []ScanIsComplete
<1>1. IInv => ScanIsComplete BY DEF IInv
<1>. QED BY <1>1, Inductive, PTL
=============================================================================
