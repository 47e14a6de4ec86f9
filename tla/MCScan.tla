------------------------------- MODULE MCScan -------------------------------
(***************************************************************************)
(* Scan on a map of two shards.                                            *)
(***************************************************************************)
EXTENDS Scan, TLC

CONSTANTS f1, f2, s1

MCFiles == {f1, f2, s1}
MCInitial == {f1, f2}

(* The script s1 is on disk and not registered; f1 includes it.            *)
MCIncludes == [f \in MCFiles |-> IF f = f1 THEN {s1} ELSE {}]

(* s1 falls into a later shard than the file that includes it ...          *)
MCApart == [f \in MCFiles |-> IF f = f1 THEN 1 ELSE 2]

(* ... or into the same one.                                               *)
MCTogether == [f \in MCFiles |-> IF f = f2 THEN 2 ELSE 1]
=============================================================================
