------------------------------ MODULE Promise ------------------------------
(***************************************************************************)
(* One promise object (PromiseStateBase / PromiseState<Result>) shared by  *)
(* the threads that hold a Promise<> handle to it.                         *)
(*                                                                         *)
(* Threads resolve, reject and bind concurrently.  Everything a member     *)
(* function does under the object's mutex before it calls the bound        *)
(* callback is one action; the callback itself is user code that runs with *)
(* the mutex held, so it is an interval: the action that reaches it leaves *)
(* mx taken, and CallbackReturns or CallbackThrows ends the interval.  The *)
(* lock helper releases the mutex first and clears the object's reference  *)
(* to itself afterwards (self_managing_helper), which is an action of its  *)
(* own, because other threads run in between.                              *)
(***************************************************************************)
EXTENDS Naturals, FiniteSets

CONSTANTS
    Threads,        \* threads that may hold a handle to the promise
    NoThread,       \* owner of the free mutex
    Values,         \* results and errors, told apart by their value only
    NoValue,        \* the value of a result or error that was never set
    SafePromises,   \* TRUE iff compiled with SAFE_PROMISES (debug builds)
    MaxSettles,     \* bound on calls of resolve and reject
    MaxBinds        \* bound on calls of then, forward_to and finish

ASSUME ThreadsAssumption == NoThread \notin Threads
ASSUME ValuesAssumption == NoValue \notin Values
ASSUME SafePromisesAssumption == SafePromises \in BOOLEAN
ASSUME BoundsAssumption == MaxSettles \in Nat /\ MaxBinds \in Nat

VARIABLES
    state,              \* promise_state
    result,             \* PromiseState::result
    error,              \* PromiseStateBase::error
    callbacks_assigned, \* PromiseStateBase::callbacks_assigned
    callbacks,          \* kind of on_resolve/on_reject, "null" when cleared
    self_reference,     \* self_managing::self_reference is set (immortal)
    mx,                 \* owner of self_managing::mx
    pc,                 \* what each thread does inside a member function
    handles,            \* threads that hold a shared_ptr to the object
    memory,             \* the object is "live", "freed", or its destructor "threw"
    settles,            \* calls of resolve and reject so far
    binds,              \* calls of set_callbacks so far
    accepted,           \* history: values of the settlements that did not throw
    delivered,          \* history: <<branch, value>> of every callback started
    finished,           \* history: callbacks that ran to their end
    thrown              \* history: callbacks that threw

promiseVars == <<state, result, error, callbacks_assigned, callbacks>>
historyVars == <<accepted, delivered, finished, thrown>>
vars == <<promiseVars, self_reference, mx, pc, handles, memory, settles, binds, historyVars>>

States == {"pending", "resolved", "rejected", "completed"}
Settlements == {"resolved", "rejected"}

\* forwarding callbacks move the result out of the promise; the terminator
\* of finish() has a reject callback that rethrows the error
CallbackKinds == {"forward", "terminator"}

Init ==
    /\ state = "pending"
    /\ result = NoValue
    /\ error = NoValue
    /\ callbacks_assigned = FALSE
    /\ callbacks = "null"
    /\ self_reference = FALSE
    /\ mx = NoThread
    /\ pc = [t \in Threads |-> "idle"]
    /\ handles = Threads
    /\ memory = "live"
    /\ settles = 0
    /\ binds = 0
    /\ accepted = {}
    /\ delivered = {}
    /\ finished = 0
    /\ thrown = 0

-----------------------------------------------------------------------------
(* Acquiring the mutex: every member function starts with get_lock().      *)

MayCall(t) ==
    /\ t \in handles
    /\ pc[t] = "idle"
    /\ mx = NoThread

MaySettleAgain == settles < MaxSettles /\ settles' = settles + 1 /\ UNCHANGED binds
MayBindAgain == binds < MaxBinds /\ binds' = binds + 1 /\ UNCHANGED settles

\* the part of the call under the mutex is over and throws nothing, or the
\* exception unwinds the helper: the mutex is free and nothing is scheduled
Leave(t) == UNCHANGED <<mx, pc>>

\* update_state() has reached a state whose callback must run: the calling
\* thread keeps the mutex and enters the callback
EnterCallback(t) ==
    /\ mx' = t
    /\ pc' = [pc EXCEPT ![t] = "callback"]

\* make_immortal(), under the condition on which its caller reaches it
MakeImmortal(condition) == self_reference' = (self_reference \/ condition)

\* make_mortal(): thread t's helper unlocks, and drops the self reference later
MakeMortal(t) == pc' = [pc EXCEPT ![t] = "unlocked"]

SetError(v) == error' = v
GetError == error

\* set_state(): the transitions SAFE_PROMISES refuses with a logic_error
MaySettle(s) == SafePromises => state \in {"pending", s}

\* mutant of Dispatch: a settlement does not look for callbacks
DispatchNothing(t, s, v) == Leave(t) /\ UNCHANGED delivered

\* mutant of Dispatch: the value has been moved away before the callback
DispatchMoved(t, s, v) ==
    IF callbacks = "null" THEN Leave(t) /\ UNCHANGED delivered
    ELSE EnterCallback(t) /\ delivered' = delivered \cup {<<s, NoValue>>}

\* update_state() in a settled state with value v of that settlement
Dispatch(t, s, v) ==
    IF ~callbacks_assigned THEN
        /\ Leave(t)
        /\ UNCHANGED delivered
    ELSE IF callbacks = "null" THEN
        \* only after completion, unchecked builds: bad_function_call
        /\ Leave(t)
        /\ UNCHANGED delivered
    ELSE
        /\ EnterCallback(t)
        /\ delivered' = delivered \cup {<<s, v>>}

\* resolve(): set_result, then set_state(resolved).  The result is stored
\* even when set_state refuses the transition.
Resolve(t, v) ==
    /\ MayCall(t)
    /\ MaySettleAgain
    /\ IF MaySettle("resolved") THEN
           /\ state' = "resolved"
           /\ MakeImmortal(SafePromises /\ state = "pending")
           /\ accepted' = accepted \cup {<<"resolved", v>>}
           /\ Dispatch(t, "resolved", v)
           /\ result' = IF callbacks = "forward" THEN NoValue ELSE v
       ELSE
           /\ Leave(t)
           /\ result' = v
           /\ UNCHANGED <<state, self_reference, accepted, delivered>>
    /\ UNCHANGED <<error, callbacks_assigned, callbacks, handles, memory, finished, thrown>>

\* reject(): set_error, then set_state(rejected)
Reject(t, v) ==
    /\ MayCall(t)
    /\ MaySettleAgain
    /\ SetError(v)
    /\ IF MaySettle("rejected") THEN
           /\ state' = "rejected"
           /\ MakeImmortal(SafePromises /\ state = "pending")
           /\ accepted' = accepted \cup {<<"rejected", v>>}
           /\ Dispatch(t, "rejected", v)
       ELSE
           /\ Leave(t)
           /\ UNCHANGED <<state, self_reference, accepted, delivered>>
    /\ UNCHANGED <<result, callbacks_assigned, callbacks, handles, memory, finished, thrown>>

\* set_callbacks(), reached from then(), forward_to() and finish()
Bind(t, kind) ==
    /\ MayCall(t)
    /\ MayBindAgain
    /\ IF SafePromises /\ callbacks_assigned THEN
           /\ Leave(t)
           /\ UNCHANGED <<promiseVars, delivered>>
       ELSE
           /\ callbacks_assigned' = TRUE
           /\ \/ /\ state \in {"pending", "completed"}
                 /\ callbacks' = IF state = "pending" THEN kind ELSE "null"
                 /\ Leave(t)
                 /\ UNCHANGED <<result, delivered>>
              \/ /\ state = "resolved"
                 /\ callbacks' = kind
                 /\ EnterCallback(t)
                 /\ delivered' = delivered \cup {<<"resolved", result>>}
                 /\ result' = IF kind = "forward" THEN NoValue ELSE result
              \/ /\ state = "rejected"
                 /\ callbacks' = kind
                 /\ EnterCallback(t)
                 /\ delivered' = delivered \cup {<<"rejected", GetError>>}
                 /\ UNCHANGED result
           /\ UNCHANGED <<state, error>>
    /\ UNCHANGED <<self_reference, handles, memory, accepted, finished, thrown>>

-----------------------------------------------------------------------------
(* The callback interval, under the mutex.                                  *)

\* mutant of CallbackReturns: the promise stays settled
CallbackReturnsUncompleted(t) ==
    /\ pc[t] = "callback"
    /\ ~(callbacks = "terminator" /\ state = "rejected")
    /\ finished' = finished + 1
    /\ mx' = NoThread
    /\ pc' = [pc EXCEPT ![t] = "unlocked"]
    /\ UNCHANGED <<promiseVars, self_reference, handles, memory,
                   settles, binds, accepted, delivered, thrown>>

\* mutant of CallbackReturns: make_mortal() is forgotten, and the callbacks are
\* moved away instead of cleared
CallbackReturnsImmortal(t) ==
    /\ pc[t] = "callback"
    /\ ~(callbacks = "terminator" /\ state = "rejected")
    /\ state' = "completed"
    /\ callbacks' = "moved"
    /\ finished' = finished + 1
    /\ mx' = NoThread
    /\ pc' = [pc EXCEPT ![t] = "idle"]
    /\ UNCHANGED <<result, error, callbacks_assigned, self_reference, handles, memory,
                   settles, binds, accepted, delivered, thrown>>

\* the callback returns: set_state(completed) clears both callbacks and asks
\* the helper to drop the self reference; the helper unlocks first
CallbackReturns(t) ==
    /\ pc[t] = "callback"
    /\ ~(callbacks = "terminator" /\ state = "rejected")
    /\ state' = "completed"
    /\ callbacks' = "null"
    /\ finished' = finished + 1
    /\ mx' = NoThread
    /\ MakeMortal(t)
    /\ UNCHANGED <<result, error, callbacks_assigned, self_reference, handles, memory,
                   settles, binds, accepted, delivered, thrown>>

\* the callback throws: always from a terminator that is given an error, and
\* from a forwarding callback whose next promise ends in such a terminator.
\* The exception skips set_state(completed); the helper unlocks.
CallbackThrows(t) ==
    /\ pc[t] = "callback"
    /\ callbacks = "terminator" => state = "rejected"
    /\ thrown' = thrown + 1
    /\ mx' = NoThread
    /\ pc' = [pc EXCEPT ![t] = "idle"]
    /\ UNCHANGED <<promiseVars, self_reference, handles, memory,
                   settles, binds, accepted, delivered, finished>>

\* ~self_managing_helper() after the unlock: immortality->reset()
ReleaseSelf(t) ==
    /\ pc[t] = "unlocked"
    /\ self_reference' = FALSE
    /\ pc' = [pc EXCEPT ![t] = "idle"]
    /\ memory' = IF handles = {} THEN "freed" ELSE memory
    /\ UNCHANGED <<promiseVars, mx, handles, settles, binds, historyVars>>

-----------------------------------------------------------------------------
(* Handles.                                                                 *)

\* mutant of DropHandle: the self reference does not keep the object
DropHandleWeakSelf(t) ==
    /\ t \in handles
    /\ pc[t] = "idle" \/ (SafePromises /\ pc[t] = "callback")
    /\ handles' = handles \ {t}
    /\ memory' = IF handles' # {} THEN memory ELSE "freed"
    /\ UNCHANGED <<promiseVars, self_reference, mx, pc, settles, binds, historyVars>>

\* A thread drops its Promise<>, between two calls or, when the callback it
\* runs destroys the owner of the handle, inside one.  (Unchecked builds never
\* make a promise immortal, so there a caller keeps its handle.)  Losing the last
\* reference runs the destructor, which with SAFE_PROMISES throws on a promise
\* that is bound and not completed, unless the stack is being unwound.
DropHandle(t) ==
    /\ t \in handles
    /\ pc[t] = "idle" \/ (SafePromises /\ pc[t] = "callback")
    /\ handles' = handles \ {t}
    /\ \E unwinding \in BOOLEAN :
         memory' =
             IF handles' # {} \/ self_reference THEN memory
             ELSE IF SafePromises /\ ~unwinding /\ callbacks_assigned /\ state # "completed"
             THEN "threw" ELSE "freed"
    /\ UNCHANGED <<promiseVars, self_reference, mx, pc, settles, binds, historyVars>>

Next ==
    \E t \in Threads :
        \/ \E v \in Values : Resolve(t, v) \/ Reject(t, v)
        \/ \E kind \in CallbackKinds : Bind(t, kind)
        \/ CallbackReturns(t)
        \/ CallbackThrows(t)
        \/ ReleaseSelf(t)
        \/ DropHandle(t)

Spec == Init /\ [][Next]_vars

-----------------------------------------------------------------------------
(* Properties                                                               *)

\* Every variable keeps its type.
TypeOK ==
    /\ state \in States
    /\ result \in Values \cup {NoValue}
    /\ error \in Values \cup {NoValue}
    /\ callbacks_assigned \in BOOLEAN
    /\ callbacks \in CallbackKinds \cup {"null"}
    /\ self_reference \in BOOLEAN
    /\ mx \in Threads \cup {NoThread}
    /\ pc \in [Threads -> {"idle", "callback", "unlocked"}]
    /\ handles \subseteq Threads
    /\ memory \in {"live", "freed", "threw"}
    /\ settles \in Nat
    /\ binds \in Nat
    /\ accepted \subseteq Settlements \X Values
    /\ delivered \subseteq Settlements \X (Values \cup {NoValue})
    /\ finished \in Nat
    /\ thrown \in Nat

\* Whatever the order and the threads of resolve, reject and then, the
\* resolve callback and the reject callback are never both called
\* (promise.md: "calls EITHER next or handler").
EitherBranch ==
    \A d1, d2 \in delivered : d1[1] = d2[1]

\* A callback is only ever given the value of a settlement that was accepted,
\* on the branch of that settlement: a resolve or reject that threw after it
\* had overwritten the result or the error is never seen by a callback.
DeliversAccepted == delivered \subseteq accepted

\* A callback that ran to its end is never run again: whoever settles or binds
\* afterwards is refused.
CompletesOnce == finished <= 1

\* No callback is lost, whichever of settlement and binding comes first: when
\* nobody is inside the promise, a settled promise that is bound has called
\* its callback, and is still settled only because the callback threw.
NoLostCallback ==
    (mx = NoThread /\ callbacks_assigned /\ state \in Settlements) => thrown > 0

\* The mutex brackets the callback: callbacks never overlap.
CallbackUnderLock == \A t \in Threads : pc[t] = "callback" <=> mx = t

\* A thread inside a member function never finds the object freed, in
\* particular not between the helper's unlock and its immortality->reset().
NoUseAfterFree ==
    (\E t \in Threads : pc[t] # "idle") => memory = "live"

\* The self reference keeps a settled promise until its callback has run,
\* even when every handle is dropped: a destroyed promise was completed or
\* was never settled.
SettledIsKept ==
    memory # "live" => state \in {"pending", "completed"}

\* A promise whose callback has run holds no reference to itself once the
\* running call is over: completed promises do not leak.
CompletedIsMortal ==
    (state = "completed" /\ \A t \in Threads : pc[t] = "idle") => ~self_reference

\* The state graph of promise.md: pending -> resolved | rejected -> completed.
StateGraphStep ==
    state' # state =>
        \/ state = "pending" /\ state' \in Settlements
        \/ state \in Settlements /\ state' = "completed"
StateGraph == [][StateGraphStep]_vars
=============================================================================
