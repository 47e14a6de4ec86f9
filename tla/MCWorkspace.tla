---------------------------- MODULE MCWorkspace -----------------------------
(***************************************************************************)
(* Workspace on a small instance.                                          *)
(***************************************************************************)
EXTENDS Workspace, TLC

MCSymmetry == Permutations(Workers) \cup Permutations(Keys)
=============================================================================
