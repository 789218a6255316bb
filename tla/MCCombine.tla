----------------------------- MODULE MCCombine -----------------------------
(* Instances of Combine for TLC: lists of up to three promises.             *)
EXTENDS Combine
=============================================================================
