---------------------------- MODULE MCPromise ----------------------------
(* Small instances of Promise for TLC: the .cfg files give the constants.    *)
EXTENDS Promise
=============================================================================
