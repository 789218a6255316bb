-------------------------- MODULE MCPromiseStream --------------------------
(* Small instances of PromiseStream for TLC: the .cfg files give the constants. *)
EXTENDS PromiseStream
=============================================================================
