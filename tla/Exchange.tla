------------------------------ MODULE Exchange ------------------------------
(***************************************************************************)
(* What one LSP client may observe of the request/response exchange with   *)
(* the server, whatever threads, queues and retries lie behind it.  This   *)
(* is the abstract specification that Session implements.                  *)
(*                                                                         *)
(* The one point at which it is weaker than "a request is answered at most *)
(* once" is Surplus: a request the client withdrew with $/cancelRequest is *)
(* told "canceled", and one more reply may follow that one.                *)
(***************************************************************************)
EXTENDS Sequences

CONSTANTS
  Requests,      \* the ids of the requests the client may issue
  Outcomes,      \* the replies a handler or the dispatcher can give
  Canceled       \* the reply to a withdrawn request

VARIABLES
  asked,         \* requests the server has received
  open,          \* requests that are still owed a reply
  replies        \* for each request, the replies sent, in order

vars == <<asked, open, replies>>

Init ==
  /\ asked = {}
  /\ open = {}
  /\ replies = [r \in Requests |-> << >>]

(* A request arrives; the id was not used before. *)
Ask(r) ==
  /\ r \notin asked
  /\ asked' = asked \cup {r}
  /\ open' = open \cup {r}
  /\ UNCHANGED replies

(* The dispatcher refuses a request as soon as it arrives. *)
Refuse(r, k) ==
  /\ r \notin asked
  /\ asked' = asked \cup {r}
  /\ replies' = [replies EXCEPT ![r] = Append(@, k)]
  /\ UNCHANGED open

(* An open request gets its one reply. *)
Answer(r, k) ==
  /\ r \in open
  /\ replies[r] = << >>
  /\ open' = open \ {r}
  /\ replies' = [replies EXCEPT ![r] = <<k>>]
  /\ UNCHANGED asked

(* The reply of a handler that was still running when its request was      *)
(* withdrawn: it is sent all the same, once.                               *)
Surplus(r, k) ==
  /\ r \in asked \ open
  /\ replies[r] = <<Canceled>>
  /\ replies' = [replies EXCEPT ![r] = <<Canceled, k>>]
  /\ UNCHANGED <<asked, open>>

Next ==
  \E r \in Requests :
    \/ Ask(r)
    \/ Answer(r, Canceled)
    \/ \E k \in Outcomes : Refuse(r, k) \/ Answer(r, k) \/ Surplus(r, k)

Spec == Init /\ [][Next]_vars
=============================================================================
