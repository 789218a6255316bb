------------------------------ MODULE Combine ------------------------------
(***************************************************************************)
(* combine() over a list of promises: HomogenousCombineState and the       *)
(* callbacks that HomogenousCombineIterator binds to each promise.  (The   *)
(* heterogenous state has the same members; its list is a tuple.)          *)
(*                                                                         *)
(* The promises of the list are one-shot cells: each is settled at most    *)
(* once, and its callbacks run once, in the thread that settles it or in   *)
(* the one that calls combine(), whichever comes second (module Promise).  *)
(* A critical section of state_lock is one action; the combined promise is *)
(* settled outside of them, which is an action of its own.                 *)
(***************************************************************************)
EXTENDS Naturals

CONSTANT Lengths    \* the lengths of lists that combine() is called with

ASSUME LengthsAssumption == Lengths \subseteq Nat

VARIABLES
    promises,       \* the state of each promise of the list
    index,          \* how many of them the loop of combine() has bound
    pc,             \* how far the callbacks of each promise have got
    runner,         \* the thread that runs them: the "combiner" or a "settler"
    remaining,      \* HomogenousCombineState::remaining
    failed,         \* HomogenousCombineState::failed
    results,        \* HomogenousCombineState::results
    nextPromise,    \* HomogenousCombineState::nextPromise
    attempts,       \* history: how often it has been resolved or rejected
    early           \* history: the promises that had rejected before the call

vars == <<promises, index, pc, runner, remaining, failed, results, nextPromise, attempts, early>>

Abstract == INSTANCE CombineSpec WITH called <- index > 0

Indices == DOMAIN promises
Running == {"next", "handler", "reject", "finalizer", "resolve"}

\* what the vector holds where no result has been stored
NoResult == 0

Init ==
    \E n \in Lengths :
        /\ promises = [i \in 1 .. n |-> "pending"]
        /\ index = 0
        /\ pc = [i \in 1 .. n |-> "waiting"]
        /\ runner = [i \in 1 .. n |-> "nobody"]
        /\ remaining = n
        /\ failed = FALSE
        /\ results = [i \in 1 .. n |-> NoResult]
        /\ nextPromise = Abstract!Pending
        /\ attempts = 0
        /\ early = {}

-----------------------------------------------------------------------------
(* A promise is settled and bound: its callbacks start.                     *)

FirstCallback(s) == IF s = "resolved" THEN "next" ELSE "handler"

Start(i, s, r) ==
    /\ pc' = [pc EXCEPT ![i] = FirstCallback(s)]
    /\ runner' = [runner EXCEPT ![i] = r]

Settle(i, s) ==
    /\ promises[i] = "pending"
    /\ promises' = [promises EXCEPT ![i] = s]
    /\ IF i <= index THEN Start(i, s, "settler") ELSE UNCHANGED <<pc, runner>>
    /\ UNCHANGED <<index, remaining, failed, results, nextPromise, attempts, early>>

\* the loop binds a promise, and runs its callbacks if it is settled already
Bind ==
    /\ index + 1 \in Indices
    /\ \A i \in Indices : runner[i] = "combiner" => pc[i] = "done"
    /\ index' = index + 1
    /\ IF promises[index + 1] = "pending" THEN UNCHANGED <<pc, runner>>
       ELSE Start(index + 1, promises[index + 1], "combiner")
    /\ early' = IF index = 0 THEN {i \in Indices : promises[i] = "rejected"} ELSE early
    /\ UNCHANGED <<promises, remaining, failed, results, nextPromise, attempts>>

-----------------------------------------------------------------------------
(* The callbacks.                                                           *)

NextCallback(i) ==
    /\ pc[i] = "next"
    /\ results' = IF failed THEN results ELSE [results EXCEPT ![i] = i]
    /\ pc' = [pc EXCEPT ![i] = "finalizer"]
    /\ UNCHANGED <<promises, index, runner, remaining, failed, nextPromise, attempts, early>>

\* mutant of Handler: a failure is counted here and in the finalizer
HandlerCounts(i) ==
    /\ pc[i] = "handler"
    /\ failed' = TRUE
    /\ remaining' = remaining - 1
    /\ pc' = [pc EXCEPT ![i] = IF failed THEN "finalizer" ELSE "reject"]
    /\ UNCHANGED <<promises, index, runner, results, nextPromise, attempts, early>>

\* mutant of Handler: the first failure is recorded and not passed on
HandlerSilent(i) ==
    /\ pc[i] = "handler"
    /\ failed' = TRUE
    /\ pc' = [pc EXCEPT ![i] = "finalizer"]
    /\ UNCHANGED <<promises, index, runner, remaining, results, nextPromise, attempts, early>>

Handler(i) ==
    /\ pc[i] = "handler"
    /\ failed' = TRUE
    /\ pc' = [pc EXCEPT ![i] = IF failed THEN "finalizer" ELSE "reject"]
    /\ UNCHANGED <<promises, index, runner, remaining, results, nextPromise, attempts, early>>

\* A second settlement throws in checked builds, and never changes the promise.
SettleNext(p) ==
    /\ nextPromise' = IF nextPromise = Abstract!Pending THEN p ELSE nextPromise
    /\ attempts' = attempts + 1

RejectNext(i) ==
    /\ pc[i] = "reject"
    /\ SettleNext(Abstract!Rejected(i))
    /\ pc' = [pc EXCEPT ![i] = "finalizer"]
    /\ UNCHANGED <<promises, index, runner, remaining, failed, results, early>>

\* mutant of Finalizer: the last promise is not waited for
FinalizerEarly(i) ==
    /\ pc[i] = "finalizer"
    /\ remaining' = remaining - 1
    /\ pc' = [pc EXCEPT ![i] = IF remaining <= 2 /\ ~failed THEN "resolve" ELSE "done"]
    /\ UNCHANGED <<promises, index, runner, failed, results, nextPromise, attempts, early>>

\* mutant of Finalizer: the counter is compared before it is decremented
FinalizerLate(i) ==
    /\ pc[i] = "finalizer"
    /\ remaining' = remaining - 1
    /\ pc' = [pc EXCEPT ![i] = IF remaining = 0 /\ ~failed THEN "resolve" ELSE "done"]
    /\ UNCHANGED <<promises, index, runner, failed, results, nextPromise, attempts, early>>

Finalizer(i) ==
    /\ pc[i] = "finalizer"
    /\ remaining' = remaining - 1
    /\ pc' = [pc EXCEPT ![i] = IF remaining' = 0 /\ ~failed THEN "resolve" ELSE "done"]
    /\ UNCHANGED <<promises, index, runner, failed, results, nextPromise, attempts, early>>

\* the vector is moved into the combined promise, without state_lock
ResolveNext(i) ==
    /\ pc[i] = "resolve"
    /\ SettleNext(Abstract!Resolved(results))
    /\ results' = <<>>
    /\ pc' = [pc EXCEPT ![i] = "done"]
    /\ UNCHANGED <<promises, index, runner, remaining, failed, early>>

Callback(i) ==
    \/ NextCallback(i)
    \/ Handler(i)
    \/ RejectNext(i)
    \/ Finalizer(i)
    \/ ResolveNext(i)

Next ==
    \/ \E i \in Indices, s \in {"resolved", "rejected"} : Settle(i, s)
    \/ Bind
    \/ \E i \in Indices : Callback(i)

\* combine() and the callbacks of a promise run to their end; nobody has to
\* settle the promises of the list
Fairness ==
    /\ WF_vars(Bind)
    /\ WF_vars(\E i \in Indices : Callback(i))

Spec == Init /\ [][Next]_vars
FairSpec == Spec /\ Fairness

-----------------------------------------------------------------------------
(* Properties.                                                              *)

\* Every variable keeps its type.
TypeOK ==
    \E n \in Lengths :
        /\ promises \in [1 .. n -> {"pending", "resolved", "rejected"}]
        /\ index \in 0 .. n
        /\ pc \in [1 .. n -> Running \cup {"waiting", "done"}]
        /\ runner \in [1 .. n -> {"nobody", "combiner", "settler"}]
        /\ remaining \in 0 .. n
        /\ failed \in BOOLEAN
        /\ results \in [1 .. n -> 0 .. n] \cup {<<>>}
        /\ nextPromise.state \in {"pending", "resolved", "rejected"}
        /\ attempts \in Nat
        /\ early \subseteq 1 .. n

\* However the promises of the list are settled, and in whichever threads, the
\* combined promise is resolved or rejected by one of them only: a second
\* settlement would throw into the thread that happens to come last.
SettledOnce == attempts <= 1

\* The vector, which is moved without state_lock, is moved when no callback can
\* store a result in it any more.
MovedLast == results = <<>> => \A i \in Indices : pc[i] = "done"

\* combine() implements its specification: what it resolves to is every result,
\* in order, and what it rejects with is the error of a promise that rejected, no
\* later in the list than any that had rejected before combine() was called.
Implements == Abstract!Spec

\* One promise that rejects, once it is bound, rejects the combined promise,
\* even when the others are never settled.
RejectsEarly ==
    (\E i \in Indices : i <= index /\ promises[i] = "rejected")
        ~> (nextPromise # Abstract!Pending)

\* When all promises of the list are settled the combined one is settled in the
\* end (promise.md: it resolves "if all promises resolved").
CombinedSettles ==
    (\A i \in Indices : promises[i] # "pending") ~> (nextPromise # Abstract!Pending)
=============================================================================
