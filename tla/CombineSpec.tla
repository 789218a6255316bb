---------------------------- MODULE CombineSpec ----------------------------
(***************************************************************************)
(* What promise.md and promise/combiners.h promise of combine(): the       *)
(* combined promise resolves to all results, in the order of the list, if  *)
(* every promise of the list resolves, and rejects with the error of one   *)
(* that rejects, without waiting for the others.  It is settled once.  If  *)
(* some had rejected before the call, the error is that of the first of    *)
(* them, or of one in front of it that rejected meanwhile.                 *)
(***************************************************************************)
EXTENDS Naturals

CONSTANT Lengths    \* the lengths of lists that combine() is called with

VARIABLES
    promises,       \* the state of each promise of the list
    called,         \* combine() has been called
    early,          \* the promises that had rejected when it was
    nextPromise     \* the combined promise

vars == <<promises, called, early, nextPromise>>

\* The result of promise i and the error of promise i are both named i.
Pending == [state |-> "pending", results |-> <<>>, error |-> 0]
Resolved(rs) == [state |-> "resolved", results |-> rs, error |-> 0]
Rejected(i) == [state |-> "rejected", results |-> <<>>, error |-> i]

Indices == DOMAIN promises

Init ==
    /\ \E n \in Lengths : promises = [i \in 1 .. n |-> "pending"]
    /\ called = FALSE
    /\ early = {}
    /\ nextPromise = Pending

Settle(i, s) ==
    /\ promises[i] = "pending"
    /\ promises' = [promises EXCEPT ![i] = s]
    /\ UNCHANGED <<called, early, nextPromise>>

Call ==
    /\ ~called
    /\ called' = TRUE
    /\ early' = {i \in Indices : promises[i] = "rejected"}
    /\ UNCHANGED <<promises, nextPromise>>

Resolve ==
    /\ called
    /\ nextPromise = Pending
    /\ \A i \in Indices : promises[i] = "resolved"
    /\ nextPromise' = Resolved([i \in Indices |-> i])
    /\ UNCHANGED <<promises, called, early>>

Reject(i) ==
    /\ called
    /\ nextPromise = Pending
    /\ promises[i] = "rejected"
    /\ \A j \in early : i <= j
    /\ nextPromise' = Rejected(i)
    /\ UNCHANGED <<promises, called, early>>

Next ==
    \/ \E i \in Indices, s \in {"resolved", "rejected"} : Settle(i, s)
    \/ Call
    \/ Resolve
    \/ \E i \in Indices : Reject(i)

Spec == Init /\ [][Next]_vars
=============================================================================
