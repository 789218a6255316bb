---------------------------- MODULE ExecutorSpec ----------------------------
(***************************************************************************)
(* What an event loop promises to those who use it, without threads, locks *)
(* and counters: an event pushed to a pool runs once, in that pool, the    *)
(* events of a pool start in the order in which they were pushed, and join *)
(* returns at a moment at which nothing is queued, running or unhandled.   *)
(***************************************************************************)
EXTENDS Sequences

CONSTANTS Pools, Events

VARIABLES
    fresh,      \* the events that have not been pushed
    queue,      \* the events that wait in each pool
    running,    \* the events that run in each pool
    exceptions, \* the events that threw, in order, and were not handled yet
    joined      \* join has returned, and its caller has done nothing since

execVars == <<fresh, queue, running, exceptions, joined>>

Init ==
    /\ fresh = Events
    /\ queue = [p \in Pools |-> <<>>]
    /\ running = [p \in Pools |-> {}]
    /\ exceptions = <<>>
    /\ joined = FALSE

\* an event or the owner of the loop pushes e
Push(p, e) ==
    /\ e \in fresh
    /\ fresh' = fresh \ {e}
    /\ queue' = [queue EXCEPT ![p] = Append(@, e)]
    /\ joined' = FALSE
    /\ UNCHANGED <<running, exceptions>>

\* a thread of pool p takes the next event
Start(p) ==
    /\ queue[p] # <<>>
    /\ queue' = [queue EXCEPT ![p] = Tail(@)]
    /\ running' = [running EXCEPT ![p] = @ \cup {Head(queue[p])}]
    /\ joined' = joined
    /\ UNCHANGED <<fresh, exceptions>>

Return(p, e) ==
    /\ e \in running[p]
    /\ running' = [running EXCEPT ![p] = @ \ {e}]
    /\ joined' = joined
    /\ UNCHANGED <<fresh, queue, exceptions>>

Throw(p, e) ==
    /\ e \in running[p]
    /\ running' = [running EXCEPT ![p] = @ \ {e}]
    /\ exceptions' = Append(exceptions, e)
    /\ joined' = joined
    /\ UNCHANGED <<fresh, queue>>

\* process_exceptions passes one exception to its handler
Handle ==
    /\ exceptions # <<>>
    /\ exceptions' = Tail(exceptions)
    /\ joined' = joined
    /\ UNCHANGED <<fresh, queue, running>>

Idle == \A p \in Pools : queue[p] = <<>> /\ running[p] = {}

JoinReturns ==
    /\ Idle
    /\ exceptions = <<>>
    /\ joined' = TRUE
    /\ UNCHANGED <<fresh, queue, running, exceptions>>

\* the caller of join goes on to use the loop
Resume ==
    /\ joined' = FALSE
    /\ UNCHANGED <<fresh, queue, running, exceptions>>

Next ==
    \/ \E p \in Pools : Start(p) \/ \E e \in Events : Push(p, e) \/ Return(p, e) \/ Throw(p, e)
    \/ Handle \/ JoinReturns \/ Resume

Spec == Init /\ [][Next]_execVars
=============================================================================
