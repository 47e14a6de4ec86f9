----------------------------- MODULE MCDocSync ------------------------------
(***************************************************************************)
(* DocSync with a document of three characters.                            *)
(***************************************************************************)
EXTENDS DocSync, TLC

MCTexts == {<<11, 12, 13>>}
=============================================================================
