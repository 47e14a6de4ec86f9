------------------------------- MODULE MCMemo -------------------------------
(***************************************************************************)
(* Memo with scripts that include one another in a chain.                  *)
(***************************************************************************)
EXTENDS Memo, TLC

CONSTANTS a, b, w1, w2

MCTwo == a :> b @@ b :> None

MCSymmetry == Permutations({w1, w2})
=============================================================================
