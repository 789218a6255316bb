--------------------------- MODULE MCPromiseChain ---------------------------
(***************************************************************************)
(* Small instances of PromiseChain for TLC.                                *)
(***************************************************************************)
EXTENDS PromiseChain
=============================================================================
