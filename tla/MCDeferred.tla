----------------------------- MODULE MCDeferred -----------------------------
(***************************************************************************)
(* Deferred for all small programs with two functions of the file, f and   *)
(* g, and one function n nested in f.                                      *)
(***************************************************************************)
EXTENDS Deferred, TLC

CONSTANTS file, f, g, n, t1, t2

MCSites == {file, f, g, n}
MCParent == f :> file @@ g :> file @@ n :> f

Declaration(s) == [op |-> "declare", site |-> s, arg |-> None]
Calls(sites) == [op : {"call"}, site : sites, arg : Types]
Bad == [op |-> "error", site |-> None, arg |-> None]

(* The file declares f and g and may call them; f declares n.  Each body   *)
(* has a statement worth a diagnostic and up to two calls.                 *)
UpTo(k, S) == UNION {[1..m -> S] : m \in 0..k}
Bodies(s) ==
  CASE s = file -> {<<Declaration(f), Declaration(g)>> \o c : c \in UpTo(2, Calls({f, g}))}
    [] s = f -> {<<Bad, Declaration(n)>> \o c : c \in UpTo(2, Calls({f, g, n}))}
    [] s = g -> {<<Bad>> \o c : c \in UpTo(1, Calls({f, g}))}
    [] s = n -> {<<Bad>> \o c : c \in UpTo(1, Calls({f, g}))}
MCPrograms ==
  {(file :> a @@ f :> b @@ g :> c @@ n :> d) :
     a \in Bodies(file), b \in Bodies(f), c \in Bodies(g), d \in Bodies(n)}
=============================================================================
