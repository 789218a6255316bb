----------------------------- MODULE EventLoop -----------------------------
(***************************************************************************)
(* ParallelEventLoop: pools of worker threads that execute events from one *)
(* ConcurrentQueue per pool, the ScopedCounter of threads that are not     *)
(* idle, and the main thread that pushes events, joins and destroys the    *)
(* loop.                                                                   *)
(*                                                                         *)
(* An action is what a thread does between two points where another thread *)
(* can interfere.  A queue mutex is explicit (qmx) because pop() and       *)
(* join() hold it over several steps; the mutexes of the counter, of the   *)
(* starter pistol and of the exception queue are leaves of the lock order  *)
(* with short critical sections, each part of the action it occurs in.     *)
(***************************************************************************)
EXTENDS Integers, Sequences, FiniteSets, SequencesExt

CONSTANTS
    Workers,            \* the threads of all pools
    PoolOrder,          \* the pools, in the iteration order of "queues"
    PoolOf,             \* PoolOf[w] is the pool worker w was created for
    Main,               \* the thread that owns the loop
    Free,               \* owner of a free mutex
    Events,             \* events, each pushed at most once
    NoEvent,            \* what a worker that runs nothing is running
    MaxJoins,           \* bound on calls of join and process_exceptions
    SpuriousWakeups     \* TRUE iff a condition variable may wake for no reason

Pools == Range(PoolOrder)

ASSUME WorkersAssumption == IsFiniteSet(Workers)
ASSUME PoolsAssumption ==
    /\ PoolOrder \in Seq(Pools)
    /\ IsInjective(PoolOrder) /\ PoolOrder # <<>>
    /\ PoolOf \in [Workers -> Pools]
ASSUME NamesAssumption == Main \notin Workers /\ Free \notin Workers \cup {Main}
ASSUME EventsAssumption == NoEvent \notin Events
ASSUME BoundsAssumption == MaxJoins \in Nat /\ SpuriousWakeups \in BOOLEAN

VARIABLES
    queue,      \* ConcurrentQueue::events of each pool
    nowaiting,  \* ConcurrentQueue::nowaiting of each pool
    qmx,        \* owner of ConcurrentQueue::queue_mutex of each pool
    pc,         \* where each worker is in do_threaded_loop
    current,    \* the event each worker runs
    counter,    \* threads_not_idle_counter.value
    racers,     \* StarterPistol::racers
    exceptions, \* queue of exceptions, by the event that threw
    mpc,        \* where the main thread is
    destroying, \* the main thread is in the destructor
    cursor,     \* the queue that lock_many or the destructor has reached
    joins,      \* calls of join and process_exceptions so far
    pushed,     \* history: events pushed to each pool, in order
    thrown,     \* history: events that threw
    handled     \* history: events whose exception was handled or discarded

queueVars == <<queue, nowaiting, qmx>>
workerVars == <<pc, current, counter, racers>>
mainVars == <<mpc, destroying, cursor, joins>>
historyVars == <<pushed, thrown, handled>>
vars == <<queueVars, workerVars, exceptions, mainVars, historyVars>>

Size == Len(PoolOrder)

\* a worker in one of these has constructed its WaitGuard: it counts as idle
IdlePcs == {"check", "block", "waiting", "woken"}
\* a worker in one of these has not entered do_threaded_loop or has left it
OutsidePcs == {"created", "exited"}

Busy == {w \in Workers : pc[w] \notin IdlePcs \cup OutsidePcs}
InPool(p) == {w \in Workers : PoolOf[w] = p}
Waiting(p) == {w \in InPool(p) : pc[w] = "waiting"}
Unpushed == Events \ UNION {Range(pushed[p]) : p \in Pools}

\* a StarterPistol is made for no thread, and reset() by the constructor before
\* it creates any; a pistol that threads wait for refuses to be reset
InitialRacers == 0
AfterReset(waited_for, threads) == IF waited_for # 0 THEN waited_for ELSE threads

Init ==
    /\ queue = [p \in Pools |-> <<>>]
    /\ nowaiting = [p \in Pools |-> FALSE]
    /\ qmx = [p \in Pools |-> Free]
    /\ pc = [w \in Workers |-> "created"]
    /\ current = [w \in Workers |-> NoEvent]
    /\ counter = 0
    /\ racers = AfterReset(InitialRacers, Cardinality(Workers) + 1)
    /\ exceptions = <<>>
    /\ mpc = "construct"
    /\ destroying = FALSE
    /\ cursor = 1
    /\ joins = 0
    /\ pushed = [p \in Pools |-> <<>>]
    /\ thrown = {}
    /\ handled = {}

-----------------------------------------------------------------------------
(* ConcurrentQueue::emplace under the queue mutex: append, notify_one.      *)

\* mutant of Emplace: nobody is notified
EmplaceSilent(p, e) ==
    /\ qmx[p] = Free
    /\ e \in Unpushed
    /\ queue' = [queue EXCEPT ![p] = Append(@, e)]
    /\ pushed' = [pushed EXCEPT ![p] = Append(@, e)]
    /\ UNCHANGED <<nowaiting, qmx, pc, current, counter, racers, exceptions, thrown, handled>>

Emplace(p, e) ==
    /\ qmx[p] = Free
    /\ e \in Unpushed
    /\ queue' = [queue EXCEPT ![p] = Append(@, e)]
    /\ pushed' = [pushed EXCEPT ![p] = Append(@, e)]
    /\ IF Waiting(p) = {} THEN pc' = pc
       ELSE \E w \in Waiting(p) : pc' = [pc EXCEPT ![w] = "woken"]
    /\ UNCHANGED <<nowaiting, qmx, current, counter, racers, exceptions, thrown, handled>>

\* current_pool(): this_pool of the calling thread
CurrentPool(t) == IF t = Main THEN "unknown" ELSE PoolOf[t]

\* the pools that a caller may name; push() resolves "same", and throws
\* (without any effect) on a name that does not stand for a pool of the loop
PoolNames == Pools \cup {"same"}
TargetPool(t, name) == IF name = "same" THEN CurrentPool(t) ELSE name

Push(t) ==
    \E name \in PoolNames, e \in Events :
        /\ TargetPool(t, name) \in Pools
        /\ Emplace(TargetPool(t, name), e)

-----------------------------------------------------------------------------
(* Worker threads.                                                          *)

\* do_threaded_loop: threads_not_idle_counter.delta(+1)
CountIn(w) ==
    /\ pc[w] = "created"
    /\ pc' = [pc EXCEPT ![w] = "counted"]
    /\ counter' = counter + 1
    /\ UNCHANGED <<queueVars, current, racers, exceptions, mainVars, historyVars>>

\* starter_pistol.ready(): one racer less, then wait for the last one
Ready(w) ==
    /\ pc[w] = "counted"
    /\ pc' = [pc EXCEPT ![w] = "racing"]
    /\ racers' = racers - 1
    /\ UNCHANGED <<queueVars, current, counter, exceptions, mainVars, historyVars>>

Go(w) ==
    /\ pc[w] = "racing"
    /\ racers = 0
    /\ pc' = [pc EXCEPT ![w] = "next"]
    /\ UNCHANGED <<queueVars, current, counter, racers, exceptions, mainVars, historyVars>>

\* end_wait_condition of pop()
EndWait(p) == nowaiting[p] \/ queue[p] # <<>>

\* mutant of Take: the event is copied and stays in the queue
TakeCopy(w, p) ==
    /\ UNCHANGED queue
    /\ IF queue[p] # <<>> THEN
           /\ current' = [current EXCEPT ![w] = Head(queue[p])]
           /\ pc' = [pc EXCEPT ![w] = "running"]
       ELSE
           /\ pc' = [pc EXCEPT ![w] = "leaving"]
           /\ UNCHANGED current

\* the end of pop(): take the first event, or return false if there is none
Take(w, p) ==
    /\ IF queue[p] # <<>> THEN
           /\ current' = [current EXCEPT ![w] = Head(queue[p])]
           /\ queue' = [queue EXCEPT ![p] = Tail(@)]
           /\ pc' = [pc EXCEPT ![w] = "running"]
       ELSE
           /\ pc' = [pc EXCEPT ![w] = "leaving"]
           /\ UNCHANGED <<current, queue>>

\* pop(): lock the queue; without a reason to wait take an event at once
PopAtOnce(w) ==
    /\ pc[w] = "next"
    /\ qmx[PoolOf[w]] = Free
    /\ EndWait(PoolOf[w])
    /\ Take(w, PoolOf[w])
    /\ UNCHANGED <<nowaiting, qmx, counter, racers, exceptions, mainVars, historyVars>>

\* pop(): lock the queue and find a reason to wait
PopMustWait(w) ==
    /\ pc[w] = "next"
    /\ qmx[PoolOf[w]] = Free
    /\ ~EndWait(PoolOf[w])
    /\ qmx' = [qmx EXCEPT ![PoolOf[w]] = w]
    /\ pc' = [pc EXCEPT ![w] = "guard"]
    /\ UNCHANGED <<queue, nowaiting, current, counter, racers, exceptions, mainVars, historyVars>>

\* the WaitGuard is constructed with the queue locked: the worker is idle
CountIdle(w) ==
    /\ pc[w] = "guard"
    /\ counter' = counter - 1
    /\ pc' = [pc EXCEPT ![w] = "check"]
    /\ UNCHANGED <<queueVars, current, racers, exceptions, mainVars, historyVars>>

\* unblock.wait evaluates the condition with the queue locked.  When it holds
\* the guard is destroyed, the event taken and the queue unlocked.
EndOfWait(w) ==
    /\ pc[w] = "check"
    /\ EndWait(PoolOf[w])
    /\ counter' = counter + 1
    /\ Take(w, PoolOf[w])
    /\ qmx' = [qmx EXCEPT ![PoolOf[w]] = Free]
    /\ UNCHANGED <<nowaiting, racers, exceptions, mainVars, historyVars>>

\* When it does not hold the thread is about to block: set_nowaiting, which
\* does not lock the queue, can still come between this step and the next.
KeepWaiting(w) ==
    /\ pc[w] = "check"
    /\ ~EndWait(PoolOf[w])
    /\ pc' = [pc EXCEPT ![w] = "block"]
    /\ UNCHANGED <<queueVars, current, counter, racers, exceptions, mainVars, historyVars>>

\* the thread blocks on the condition variable, which unlocks the queue
Block(w) ==
    /\ pc[w] = "block"
    /\ qmx' = [qmx EXCEPT ![PoolOf[w]] = Free]
    /\ pc' = [pc EXCEPT ![w] = "waiting"]
    /\ UNCHANGED <<queue, nowaiting, current, counter, racers, exceptions, mainVars, historyVars>>

\* the wait returns for no reason
WakeSpuriously(w) ==
    /\ SpuriousWakeups
    /\ pc[w] = "waiting"
    /\ pc' = [pc EXCEPT ![w] = "woken"]
    /\ UNCHANGED <<queueVars, current, counter, racers, exceptions, mainVars, historyVars>>

\* a thread that was woken locks the queue again
Reacquire(w) ==
    /\ pc[w] = "woken"
    /\ qmx[PoolOf[w]] = Free
    /\ qmx' = [qmx EXCEPT ![PoolOf[w]] = w]
    /\ pc' = [pc EXCEPT ![w] = "check"]
    /\ UNCHANGED <<queue, nowaiting, current, counter, racers, exceptions, mainVars, historyVars>>

\* the running event pushes another one, to its own pool or another
EventPushes(w) ==
    /\ pc[w] = "running"
    /\ Push(w)
    /\ UNCHANGED mainVars

EventReturns(w) ==
    /\ pc[w] = "running"
    /\ pc' = [pc EXCEPT ![w] = "next"]
    /\ current' = [current EXCEPT ![w] = NoEvent]
    /\ UNCHANGED <<queueVars, counter, racers, exceptions, mainVars, historyVars>>

\* the event throws: the exception is queued.  The counter's notify() makes a
\* waiting join re-evaluate "value == 0", which has not changed.
EventThrows(w) ==
    /\ pc[w] = "running"
    /\ exceptions' = Append(exceptions, current[w])
    /\ thrown' = thrown \cup {current[w]}
    /\ pc' = [pc EXCEPT ![w] = "next"]
    /\ current' = [current EXCEPT ![w] = NoEvent]
    /\ UNCHANGED <<queueVars, counter, racers, mainVars, pushed, handled>>

\* mutant of Leave: the thread that ends is still counted
LeaveCounted(w) ==
    /\ pc[w] = "leaving"
    /\ pc' = [pc EXCEPT ![w] = "exited"]
    /\ UNCHANGED <<queueVars, current, counter, racers, exceptions, mainVars, historyVars>>

\* next() returned nullptr: the loop ends and not_idle is destroyed
Leave(w) ==
    /\ pc[w] = "leaving"
    /\ counter' = counter - 1
    /\ pc' = [pc EXCEPT ![w] = "exited"]
    /\ UNCHANGED <<queueVars, current, racers, exceptions, mainVars, historyVars>>

WorkerStep(w) ==
    \/ CountIn(w) \/ Ready(w) \/ Go(w)
    \/ PopAtOnce(w) \/ PopMustWait(w) \/ CountIdle(w)
    \/ EndOfWait(w) \/ KeepWaiting(w) \/ Block(w) \/ Reacquire(w)
    \/ Leave(w)

-----------------------------------------------------------------------------
(* The main thread: constructor, push, process_exceptions, join, destructor. *)

\* the user's code between two calls on the loop; "joined" is "idle" right
\* after join() returned
AtRest == mpc \in {"idle", "joined"}

MainGoes(to) ==
    /\ mpc' = to
    /\ UNCHANGED <<queueVars, workerVars, exceptions, historyVars>>

\* the constructor created the threads: starter_pistol.ready() in this thread
MainReady ==
    /\ mpc = "construct"
    /\ racers' = racers - 1
    /\ mpc' = "racing"
    /\ UNCHANGED <<queueVars, pc, current, counter, exceptions, destroying, cursor, joins,
                   historyVars>>

MainGo ==
    /\ mpc = "racing"
    /\ racers = 0
    /\ MainGoes("idle")
    /\ UNCHANGED <<destroying, cursor, joins>>

MainPushes ==
    /\ AtRest
    /\ Push(Main)
    /\ mpc' = "idle"
    /\ UNCHANGED <<destroying, cursor, joins>>

CallProcessExceptions ==
    /\ AtRest
    /\ joins < MaxJoins
    /\ joins' = joins + 1
    /\ MainGoes("process")
    /\ UNCHANGED <<destroying, cursor>>

CallJoin ==
    /\ AtRest
    /\ joins < MaxJoins
    /\ joins' = joins + 1
    /\ MainGoes("drain")
    /\ UNCHANGED <<destroying, cursor>>

\* ~ParallelEventLoop begins with join(nullptr)
CallDestructor ==
    /\ AtRest
    /\ destroying' = TRUE
    /\ MainGoes("drain")
    /\ UNCHANGED <<cursor, joins>>

\* process_exceptions: one turn of the loop, called by the user ("process"),
\* at the head of join's loop ("drain") and at its end ("final")
ProcessException ==
    /\ mpc \in {"process", "drain", "final"}
    /\ exceptions # <<>>
    /\ exceptions' = Tail(exceptions)
    /\ handled' = handled \cup {Head(exceptions)}
    /\ UNCHANGED <<queueVars, workerVars, mainVars, pushed, thrown>>

\* the handler throws: the exception leaves process_exceptions and join, which
\* hold no lock then; the destructor passes no handler
HandlerThrows ==
    /\ mpc \in {"process", "drain", "final"}
    /\ exceptions # <<>>
    /\ ~destroying
    /\ exceptions' = Tail(exceptions)
    /\ handled' = handled \cup {Head(exceptions)}
    /\ mpc' = "idle"
    /\ UNCHANGED <<queueVars, workerVars, destroying, cursor, joins, pushed, thrown>>

ExceptionsProcessed ==
    /\ exceptions = <<>>
    /\ \/ /\ mpc = "process"
          /\ MainGoes("idle")
          /\ UNCHANGED cursor
       \/ /\ mpc = "drain"
          /\ MainGoes("waitzero")
          /\ UNCHANGED cursor
       \/ /\ mpc = "final"
          /\ MainGoes(IF destroying THEN "store" ELSE "joined")
          /\ cursor' = 1
    /\ UNCHANGED <<destroying, joins>>

\* waitForZero returns; lock_many is constructed
ZeroReached ==
    /\ mpc = "waitzero"
    /\ counter = 0
    /\ cursor' = 1
    /\ MainGoes("lock")
    /\ UNCHANGED <<destroying, joins>>

Held == {p \in Pools : qmx[p] = Main}

\* mutant of Following: the cursor runs over the end
FollowingOverrun(i) == i + 1

Following(i) == (i % Size) + 1

\* lock_many goes round the mutexes: it blocks on the first of a round and only
\* tries the others
LockNext ==
    /\ mpc = "lock"
    /\ Held # Pools
    /\ qmx[PoolOrder[cursor]] = Free
    /\ qmx' = [qmx EXCEPT ![PoolOrder[cursor]] = Main]
    /\ cursor' = Following(cursor)
    /\ UNCHANGED <<queue, nowaiting, workerVars, exceptions, mpc, destroying, joins, historyVars>>

UnlockAll == qmx' = [p \in Pools |-> IF qmx[p] = Main THEN Free ELSE qmx[p]]

\* a try_lock fails: release every mutex, begin the next round with this one
BackOff ==
    /\ mpc = "lock"
    /\ Held # {} /\ Held # Pools
    /\ qmx[PoolOrder[cursor]] # Free
    /\ UnlockAll
    /\ UNCHANGED <<queue, nowaiting, workerVars, exceptions, mainVars, historyVars>>

\* with all mutexes locked: some queue has an event, release them and go round
\* again; or none has, and the counter is looked at next
CheckEmpty ==
    /\ mpc = "lock"
    /\ Held = Pools
    /\ IF \A p \in Pools : queue[p] = <<>>
       THEN mpc' = "zero" /\ UNCHANGED qmx
       ELSE mpc' = "drain" /\ UnlockAll
    /\ UNCHANGED <<queue, nowaiting, workerVars, exceptions, destroying, cursor, joins, historyVars>>

\* mutant of CheckZero: empty queues are enough
CheckZeroBlind ==
    /\ mpc = "zero"
    /\ mpc' = "final"
    /\ UnlockAll
    /\ UNCHANGED <<queue, nowaiting, workerVars, exceptions, destroying, cursor, joins, historyVars>>

\* mutant of CheckZero: the condition is inverted
CheckZeroInverted ==
    /\ mpc = "zero"
    /\ mpc' = IF counter # 0 THEN "final" ELSE "drain"
    /\ UnlockAll
    /\ UNCHANGED <<queue, nowaiting, workerVars, exceptions, destroying, cursor, joins, historyVars>>

\* all threads are idle: leave the loop; the mutexes are released either way
CheckZero ==
    /\ mpc = "zero"
    /\ mpc' = IF counter = 0 THEN "final" ELSE "drain"
    /\ UnlockAll
    /\ UNCHANGED <<queue, nowaiting, workerVars, exceptions, destroying, cursor, joins, historyVars>>

\* set_nowaiting(true) on each queue: an atomic store and a notify_all, both
\* without the queue mutex
StoreNoWaiting ==
    /\ mpc = "store"
    /\ nowaiting' = [nowaiting EXCEPT ![PoolOrder[cursor]] = TRUE]
    /\ mpc' = "notify"
    /\ UNCHANGED <<queue, qmx, workerVars, exceptions, destroying, cursor, joins, historyVars>>

\* mutant of NotifyAll: the flag is all there is, nobody is notified
NotifyAllSilent ==
    /\ mpc = "notify"
    /\ cursor' = Following(cursor)
    /\ mpc' = IF cursor = Size THEN "threads" ELSE "store"
    /\ UNCHANGED <<queueVars, workerVars, exceptions, destroying, joins, historyVars>>

NotifyAll ==
    /\ mpc = "notify"
    /\ pc' = [w \in Workers |->
                 IF w \in Waiting(PoolOrder[cursor]) THEN "woken" ELSE pc[w]]
    /\ cursor' = Following(cursor)
    /\ mpc' = IF cursor = Size THEN "threads" ELSE "store"
    /\ UNCHANGED <<queueVars, current, counter, racers, exceptions, destroying, joins,
                   historyVars>>

\* thread.join() on every worker returned
JoinThreads ==
    /\ mpc = "threads"
    /\ \A w \in Workers : pc[w] = "exited"
    /\ MainGoes("destroyed")
    /\ UNCHANGED <<destroying, cursor, joins>>

Destroyed == mpc = "destroyed" /\ UNCHANGED vars

MainCalls ==
    MainPushes \/ CallProcessExceptions \/ CallJoin \/ CallDestructor

MainStep ==
    \/ MainReady \/ MainGo
    \/ ProcessException \/ ExceptionsProcessed
    \/ ZeroReached \/ LockNext \/ BackOff \/ CheckEmpty \/ CheckZero
    \/ StoreNoWaiting \/ NotifyAll \/ JoinThreads

LocksQueue(w) == PopAtOnce(w) \/ PopMustWait(w) \/ Reacquire(w)

Next ==
    \/ \E w \in Workers :
          WorkerStep(w) \/ WakeSpuriously(w) \/ EventPushes(w) \/ EventReturns(w) \/ EventThrows(w)
    \/ MainStep \/ MainCalls \/ HandlerThrows
    \/ Destroyed

\* Threads are scheduled: a thread that can go on, and can keep doing so, does.
\* A worker that blocks on a queue mutex gets it if the mutex becomes free again
\* and again: join() takes and releases all queue mutexes in a loop for as long
\* as a worker that was notified has not taken its event.  The main thread goes
\* on to destroy the loop.
ThreadFairness ==
    /\ \A w \in Workers : WF_vars(WorkerStep(w)) /\ SF_vars(LocksQueue(w))
    /\ WF_vars(MainStep)
    /\ WF_vars(CallDestructor)

\* Events end: nothing in the loop bounds how long an event runs.
EventFairness == \A w \in Workers : WF_vars(EventReturns(w) \/ EventThrows(w))

\* Condition variables do not wake their waiters for no reason for ever: workers
\* that did could make every try_lock of lock_many fail.
WakeUpsCease == <>[][\A w \in Workers : ~WakeSpuriously(w)]_vars

Spec == Init /\ [][Next]_vars
FairSpec == Spec /\ ThreadFairness /\ EventFairness /\ WakeUpsCease

-----------------------------------------------------------------------------
(* Properties                                                               *)

PcValues ==
    {"created", "counted", "racing", "next", "guard", "check", "block", "waiting", "woken",
     "running", "leaving", "exited"}

MpcValues ==
    {"construct", "racing", "idle", "joined", "process", "drain", "waitzero", "lock", "zero", "final",
     "store", "notify", "threads", "destroyed"}

\* Every variable keeps its type.
TypeOK ==
    /\ queue \in [Pools -> Seq(Events)]
    /\ nowaiting \in [Pools -> BOOLEAN]
    /\ qmx \in [Pools -> Workers \cup {Main, Free}]
    /\ pc \in [Workers -> PcValues]
    /\ current \in [Workers -> Events \cup {NoEvent}]
    /\ counter \in Int
    /\ racers \in Int
    /\ exceptions \in Seq(Events)
    /\ mpc \in MpcValues
    /\ destroying \in BOOLEAN
    /\ cursor \in 1 .. Size
    /\ joins \in Nat
    /\ pushed \in [Pools -> Seq(Events)]
    /\ thrown \subseteq Events
    /\ handled \subseteq Events

\* The counter is the number of threads inside do_threaded_loop that are not
\* waiting for an event, at every point another thread could look.
CounterIsBusy == counter = Cardinality(Busy)

\* When join has decided to return no event is queued and none is running,
\* and this stays so until the main thread pushes again: no event was in
\* flight between the two checks (event_loop.h: "Returns when all threads are
\* idle and no events are pending").
JoinedPcs == {"final", "joined", "store", "notify", "threads", "destroyed"}
JoinIsQuiescent ==
    mpc \in JoinedPcs =>
        /\ \A p \in Pools : queue[p] = <<>>
        /\ \A w \in Workers : pc[w] # "running"

\* When join has returned, every exception thrown until then was handled.
JoinHandlesAll == mpc \in JoinedPcs \ {"final"} => thrown \subseteq handled

\* The loop implements what its users rely on: each event pushed runs once, in
\* its pool, in the order of the pushes, however many threads push and pop, and
\* join returns at a moment at which nothing is queued, running or unhandled.
Running(p) == {current[w] : w \in {v \in InPool(p) : pc[v] = "running"}}
Abstract ==
    INSTANCE ExecutorSpec WITH
        fresh <- Unpushed,
        running <- [p \in Pools |-> Running(p)],
        joined <- (mpc \in JoinedPcs \ {"final"})
Implements == Abstract!Spec

\* notify_one is enough: while a worker of a pool sleeps, each queued event has
\* an awake worker of the pool on its way to the queue.
OnTheWay(p) ==
    {w \in InPool(p) : pc[w] \in {"created", "counted", "racing", "next", "guard", "check", "woken"}}
NotifyOneSuffices ==
    \A p \in Pools : Waiting(p) # {} => Len(queue[p]) <= Cardinality(OnTheWay(p))

\* The starter pistol: no worker looks for events, and the constructor does not
\* return, before all workers have been counted; so join cannot see zero early.
NobodyEarly ==
    \/ \A w \in Workers : pc[w] \notin {"created", "counted"}
    \/ /\ mpc \in {"construct", "racing"}
       /\ \A w \in Workers : pc[w] \in {"created", "counted", "racing"}

\* join returns (with the events it waited for executed) or throws what its
\* handler throws; it is not starved by lock_many's back-off.
JoinReturns == (mpc = "drain") ~> (mpc \in {"joined", "idle", "store"})

\* The destructor terminates: setting no-waiting wakes the workers that wait
\* for events and they end (event_loop.cpp, comment in ~ParallelEventLoop).
DestructorReturns == destroying ~> (mpc = "destroyed")

\* A worker has missed the wake-up: it is about to block on an empty queue
\* although the flag was stored and the notification has been given.
MissedWakeUp(w) ==
    /\ pc[w] = "block"
    /\ nowaiting[PoolOf[w]]
    /\ ~(mpc = "notify" /\ PoolOrder[cursor] = PoolOf[w])

\* The missed wake-up is all that can keep the destructor from its end:
\* whatever sleeps when the flags are stored, events and exceptions that its
\* join still finds, and spurious wake-ups in between do not.
DestructorReturnsUnlessMissed ==
    [](\A w \in Workers : ~MissedWakeUp(w)) => (destroying ~> (mpc = "destroyed"))
=============================================================================
