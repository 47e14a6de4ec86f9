------------------------------ MODULE MCSession -----------------------------
(***************************************************************************)
(* Session on a small instance: one request that is retried, one that is   *)
(* not, one of an unknown method, one note, two workers.                   *)
(***************************************************************************)
EXTENDS Session

CONSTANTS
  retried,       \* a request registered with RETRY
  once,          \* a request registered with NO_RETRY
  unknown,       \* a request of a method in no registry
  trace          \* a $/setTrace

MCRequests == {retried, once, unknown}
MCNotes == {trace}
MCRetriable == {retried}
MCUnhandled == {unknown}
=============================================================================
