# A verification of kaiu in TLA+

kaiu is a small C++14 library of asynchronous building blocks: promises,
promise streams (promises that also carry data), and event loops that run
functions in pools of threads. This directory holds TLA+ models of its
concurrent core, TLC configurations that check them on small instances, and
proofs of their safety properties for every instance. Paths such as
`src/promise.cpp` are paths of the repository.

## 1. The system

| component | source | state it keeps | operations |
|---|---|---|---|
| Promise | `promise.cpp`, `promise.tcc`, `promise/` | state (`pending`, `resolved`, `rejected`, `completed`), the result and the error, the two callbacks, a mutex, a reference to itself | `resolve`, `reject`, `then`, `forward_to`, `finish`, destructor |
| self-managing objects | `self_managing.h` | the mutex, the self reference, and whether it is to be dropped | `get_lock`, `make_immortal`, `make_mortal`, the lock helper's destructor |
| Promise stream | `promise_stream.cpp`, `promise_stream.tcc`, `promise_stream/` | state, buffer, flags for "written to", "buffer empty" and "consumer running", the action the consumer asked for, the result with its completer, the proxy promise | `write`, `resolve`, `reject`, `stream`, `discard`, `stop`, `forward_to`, `is_stopping`, the continuation of the consumer |
| Parallel event loop | `event_loop.cpp`, `event_loop.h` | a queue per pool, a queue of exceptions, a counter of busy threads, a starter pistol, the threads | constructor, worker loop, `push`, `join`, `process_exceptions`, destructor |
| Concurrent queue | `concurrent_queue.tcc` | the events, the no-waiting flag, a mutex and a condition variable | `emplace`, `pop` with a wait guard, `set_nowaiting`, `isEmpty` |
| Scoped counter | `scoped_counter.tcc` | a number, a mutex, a condition variable | scoped adjustment, `isZero`, `waitForZero`, `notify` |
| Starter pistol | `starter_pistol.cpp` | how many threads are not ready | `ready`, `reset` |
| `lock_many` | `lock_many.tcc` | which of several mutexes it holds | lock all, unlock all |
| Synchronous event loop | `event_loop.cpp` | one queue | constructor, `push` |
| Promise combinators | `promise.tcc`, `promise/combiners.h` | results, number remaining, failed | `combine` over tuples and over lists |
| Task, task stream | `task.tcc`, `task_stream.tcc`, `shared_functor.h` | none of their own: closures in queues | `dispatch`, `task`, `task_stream` |
| Decimal | `decimal.cpp`, `decimal.tcc` | a vector of decimal digits | arithmetic, comparison, conversion, parallel multiplication |
| Assertions | `assertion.cpp` | the tests' expectations | book-keeping of the unit tests |
| functional | `functional.tcc`, `tuple_iteration.h`, `promise/monad.h` | none | currying and operators, resolved by the compiler |

How they interact. A promise calls the callbacks bound to it with its mutex
held, and those settle the next promise of the chain: calls nest downstream. A
stream calls its consumer with its mutex held, binds a continuation to the
promise that the consumer returns, and settles its proxy promise when it has
completed. The event loop is a queue per pool, a counter and a pistol shared by
the threads; queue mutexes are taken before the counter's (the wait guard of
`pop` adjusts the counter while the queue is locked) and `join` takes all the
queue mutexes through `lock_many`. Tasks push closures that settle promises
into pools, so promises and streams meet every interleaving the pools can make.

What is hard about it: settlement racing with binding; objects that keep
themselves alive and are released *after* their mutex is unlocked; a counter
that must be right whenever `join` may look, although workers change it under
another mutex; `notify_one` with several workers; a join that decides on facts
read one after the other; stream consumers that finish in this thread, in
another one, or by throwing; and two parties, the producer and the consumer,
that ask a stream to stop for different reasons. `PROJECT.json` lists each such
hazard at its line, with the properties that cover it.

What makes each component correct, in a sentence: a promise calls exactly one of
its callbacks, once, with a value that was accepted, and is freed afterwards and
not before; a chain of promises calls next or handler, then the finalizer, at
each of its stages, and carries an error down to the first handler; a stream delivers what was written, in order, one datum at a time,
until the consumer asks it to stop, and settles its promise after that; an
event loop runs every event once and its `join` returns exactly when nothing is
left to do; a combined promise settles once, with all results or an
error of the list; a task settles its promise in the end, and a task stream
passes on every datum, in order, and the result after them; decimals compute
what numbers do.

## 2. The modules

Every action is one critical section of the code, or the part of one that lies
between two points where another thread can act. Nothing outside `src/` is modelled
except mutexes and condition variables, by what the C++ standard says of them
(a condition variable may wake a waiter spuriously, `notify_one` wakes some
waiter, a mutex is not fair).

### Promise.tla: one promise

| model | code |
|---|---|
| `state`, `result`, `error`, `callbacks_assigned`, `callbacks` | the members of `PromiseStateBase` and `PromiseState` of these names (`on_resolve` and `on_reject` are cleared together, so one variable holds their kind) |
| `mx`, `pc`, `self_reference`, `handles`, `memory` | the lock, what each thread does in a member function, `self_managing::self_reference`, the `shared_ptr`s that threads hold, the object |
| `accepted`, `delivered`, `finished`, `thrown` | history: settlements that did not throw, callbacks called, completed, ended by an exception |
| `Resolve`, `Reject` | `PromiseState::resolve`, `PromiseStateBase::reject`: store, then `set_state`, which validates in checked builds |
| `Bind` | `then`, `forward_to`, `finish` down to `set_callbacks` |
| `Dispatch` | `update_state`: which callback is taken, with `make_immortal`/`make_mortal` |
| `CallbackReturns`, `CallbackThrows` | the end of the user's callback, which runs with the mutex held |
| `ReleaseSelf` | `~self_managing_helper`: after the unlock, the self reference is dropped |
| `DropHandle` | a `shared_ptr` is destroyed; the destructor of an object that is still owed a callback would throw |

A subtlety the model keeps: `resolve` stores the value *before* the transition
is validated, so a refused second settlement has already overwritten the value.
`DeliversAccepted` says that no callback ever sees such a value.

### EventLoop.tla: the parallel event loop

One module composes the loop, its queues, counter, pistol, `lock_many` and
`join`, because the properties are about the order in which they touch each
other. Every thread has a program counter whose labels are the points where it
can be preempted. A worker: `CountIn`, `Ready`, `Go` (the pistol), then `pop`:
`PopAtOnce`, or `PopMustWait`, `CountIdle`, `Block`/`KeepWaiting`,
`WakeSpuriously`, `Reacquire`, `EndWait`, `EndOfWait`; the event:
`EventPushes`, `EventReturns`, `EventThrows`; and `Leave`. The main thread:
`MainReady`, `MainGo`, `MainPushes`, `CallProcessExceptions`, `CallJoin`,
`CallDestructor`, `ProcessException`, `HandlerThrows`, `ExceptionsProcessed`,
`ZeroReached` (`waitForZero`), `LockNext`, `BackOff`, `UnlockAll` (`lock_many`),
`CheckEmpty` and `CheckZero` (the queues, and the second look at the counter),
and `StoreNoWaiting`, `NotifyAll` and `JoinThreads` in the destructor. Mutexes
are variables with an owner, and a queue's condition variable is the set of
workers it has blocked. `Push` takes the name of a pool or `same`, the caller's own
(`TargetPool`); the main thread has none, and such a push throws without effect.
`AfterReset` is the pistol's `reset`, with the refusal that the loop never meets.

### ExecutorSpec.tla: what the loop promises

`ExecutorSpec` is the event loop without threads, locks and counter: the events
that have not been pushed (`fresh`), a queue and the running events of each pool,
the unhandled exceptions, and whether `join` has returned (`joined`). Its
actions are `Push`, `Start`, `Return`, `Throw`, `Handle` and `Join`, and `Join` is
possible only when nothing is queued, running or unhandled. `EventLoop` defines the
refinement mapping (`Abstract`: an event runs while the worker that took it is
at `running`, `joined` holds between the return of `join` and the next thing its
caller does) and the property `Implements`, which TLC checks in run `loop`. It
subsumes that each event runs once, that the events of a pool start in the order
of their pushes, and that no exception is forgotten.

### PromiseChain.tla: the callbacks of then()

`p0->then(...)->...->finish()` with any number `N` of calls of `then`, built by one
thread while others settle `p0` and the promises that `next` and `handler` return.
A promise is what `Promise` shows it to be: settled once, bound once, its callback
run, once, by whoever makes it both. Each call has one
of the forms of `promise/state.h`: `Then`, with any of handler and finalizer, `Except`,
which gives a handler only, or `Finally`. What this module adds is what the
callbacks do, and that they nest: the callback of a stage settles the next
promise and so runs the next stage's callback, inside its own.

| model | code |
|---|---|
| `outcome`, `bound`, `completed` | `PromiseState::result` or `::error`, `callbacks_assigned`, the state `completed`, of each promise of the chain (`Link`) and of each one that next or handler returned (`Inner`) |
| `form`, `ends_void` | the functions given to each stage, and whether the last one is the overload that returns void |
| `at` | how far the callback of each promise has come: in a branch, before the finalizer, waiting for the callback below it to return, ended, left by an exception |
| `raised` | the exception caught from next or handler (`src/promise.tcc:147,174`) |
| `Bind` | `then` or `finish` on the last promise so far, in the building thread |
| `ResolveBranch`, `RejectBranch` | the two lambdas of `then` |
| `DefaultNext`, `DefaultExcept` | `default_next` (which throws when the types differ) and `default_except` for what is left out, and what the overload that returns void does instead |
| `Finalize` | `call_finally` and what follows it: reject with the finalizer's exception, reject with the caught one, or `forward_to` |
| `Forward`, `Terminate` | the callbacks of `forward_to` and of `set_terminator` |
| `ReturnToBranch`, `ReturnToInner` | the return, or the unwinding, of the nested calls |

Outcomes name the function that produced them, so that the properties can tell
the error of `p0` from one that a finalizer threw two stages later.

### StreamObject.tla and PromiseStream.tla: one promise stream

`StreamObject` has no variables: an object is a record of `StreamType`, and each
protected member of `PromiseStreamStateBase` and `PromiseStreamState` is an operator
from the object before to the object after (`SetStreamHasBeenWrittenTo`, `SetAction`, `SetDataCallbackAssigned`,
`SetStreamResult`, `SetBufferIsEmpty`, `SetConsumerIsRunning`, `EmplaceData`,
`DoReject`, `CallDataCallback`, `ProcessData`; `AfterAction` and `AfterFailure` are
the two continuations of a consumer), or to what it reads (`GetAction`, `IsStopping`,
`DataAction`). `update_state` and `set_state` call each
other until nothing applies: the model states the fixpoint, `FurthestState`.
`PromiseStream` (one object, `stream`, with its mutex and lifetime) and `TaskStream`
(two of them) extend the module and compose the operators in the order of the
code's calls. The completer throws or not (`MayThrow`), which in the code skips
`make_mortal`.

The actions of `PromiseStream` are `Write`, `WriteIgnored`, `Resolve`, `Reject`, `Bind` (any of
`stream`, `discard`, `stop`, `forward_to`), the ways in which a consumer can
end (`SyncReturn`, `AsyncReturn`, `SyncFail`, `AsyncFail`, `GoesAsync`),
`ReleaseSelf` and `DropHandle`. `SyncFail` and `AsyncFail` differ because an
exception that `do_reject` throws meets a `catch` block in one case and not in
the other (`src/promise_stream.tcc:197`).

### TaskStream.tla: tasks across pools

`promise::task_stream` joins two streams (`inner`, what the factory returned, and
`outer`, what the caller holds) by three kinds of events of an event loop:
`Produce` runs the factory and binds the proxy consumer and the two reactions,
`Consume(d)` writes datum `d` to `outer` and answers `inner` with the action that
`outer` then asks for, `React` passes the result on. `promise::task` is the case
without data (`streaming = FALSE`). The module composes what the others have
established: both streams are objects of `StreamObject`, changed by its
operators alone, and the event loop is `ExecutorSpec`, which `EventLoop` implements. An event is a sequence of
steps, each under the mutex of one stream; `part` counts them, and between two of
them other events, the source of the data (`SourceWrites`, `SourceResolves`,
`SourceRejects`) and the user's consumer (`UserBinds`, `UserAnswers`, `UserFails`,
`UserGoesAsync`) come in. `Returns` and `Throw` end the event.

### CombineSpec.tla and Combine.tla: combining a list of promises

`CombineSpec` is what `promise.md` and `promise/combiners.h` promise: the
combined promise resolves with every result in its place when all promises have
resolved, or rejects with the error of one that rejected, no later in the list than
any of those (`early`) that had rejected when `combine` was called (`Call`). `Combine`
is the code:
`promises` are one-shot cells (what `Promise` guarantees of each of them),
`index` is the loop of `combine`, `remaining`, `failed`, `results` and
`nextPromise` are the members of `HomogenousCombineState`. For each promise,
`pc` says which of its callbacks comes next and `runner` which thread runs them:
the one that settles it, or the one that calls `combine`, in which case the loop
waits. `NextCallback`, `Handler` and `Finalizer` are the three critical sections
of `state_lock`; `RejectNext` and `ResolveNext`, what is done after it is
released, are steps of their own, since another promise's callbacks can come
between. `HeterogenousCombineState` (over tuples) has the same members and the
same callbacks, so the module stands for both. `Implements` states that
`Combine` refines `CombineSpec`, with the same `promises` and `nextPromise`, `called`
once the loop has bound a promise, and everything else hidden.

### Decimal.tla: numbers as digits

The members of `class decimal` are operators on sequences of digits (`At` is the
constant `operator []`; `Sum`, `Difference` and `Row` are the loops, with the
carry or borrow into each digit as a recursive function; `RelationTo` and the six
operators on top of it; `Reading` and `ToText`, the parser and the formatter), and
the actions assign to one variable. `Low(d)[i]` is the number that the lowest `i`
digits stand for, and `ValueOf` that of all. The operand is another number or the variable itself, as in
`x += x`. `SubtractUnderflows` keeps what a failed `-=` leaves behind, and
`spoilt` remembers that it happened. `parallel_multiply` is three actions: the
start, one per worker, which adds its partial product under the mutex, and the
return after all of them; `Chunk` is 1000 in the code. The history variable
`value` is the number that the natural numbers give. Recursion is written as recursive
functions, one entry per round of the loop, so that the proofs can unfold it.

### MC modules, proof modules

`MCPromise`, `MCPromiseChain`, `MCEventLoop`, `MCPromiseStream`, `MCTaskStream`,
`MCCombine` and `MCDecimal` give names to the small instances. `PromiseProofs`,
`PromiseChainProofs`, `EventLoopProofs` (with the proof that the loop implements the
executor), `PromiseStreamProofs`, `TaskStreamProofs`, `CombineProofs` and `DecimalProofs`
hold the inductive invariants and theorems, and `StreamObjectProofs` the
lemmas that both modules about streams rest on. Definitions marked "mutant of X" in the
modules are not part of the models: each is X with a plausible bug, and
substituting it for X must make TLC refute the property that `PROJECT.json`
pairs it with. They show that the properties depend on the code.

## 3. The runs

| run | instance | what it shows |
|---|---|---|
| `promise` | three threads, up to three settlements and two bindings, checked build | the safety of one promise under every interleaving, settlements that are refused included |
| `chain` | chains of three calls, each `then` with next alone or with all functions, `except` or `finally`, both overloads at the end, each function returning, throwing or returning a pending promise | next or handler and then the finalizer at each stage, where errors go, what an unhandled error abandons, and that a chain ends |
| `task` | three pools, up to three data, every behaviour of the source and of the user's consumer; tasks and task streams | data in order, the result after the data, Stop passed back, and the caller's promise settled in the end |
| `loop` | two pools with two and one workers, events that push and throw, spurious wake-ups | the counter, `notify_one`, what `join` may rely on, and the refinement of `ExecutorSpec` |
| `loop_live` | two pools with one worker each, spurious wake-ups, fair threads | `join` returns, and the destructor ends unless a worker misses its wake-up |
| `loop_destructor` | two workers in one pool, no spurious wake-ups | a violation: the destructor can wait for ever (section 6) |
| `stream` | four writes, any number of settlements, every behaviour of the consumer | order, loss, exclusion, stalls, lifetime, the consumer's Stop, which the producer is told of from then on, and that a stream completes and is freed |
| `stream_overrides`, `stream_rejects` | the same | two statements of the documentation that the code does not keep (section 6) |
| `combine` | lists of one, two and three promises, fair callbacks | early rejection, settlement in the end, and the refinement of `CombineSpec` (which includes that it is settled once, and whose error it gets) |
| `combine_empty` | the empty list | a violation: the combined promise is never settled (section 6) |
| `decimal` | base three, numbers up to 242 (five digits), operands up to 28 and the number itself, two workers | digits, comparisons and conversions agree with the natural numbers after any sequence of operations |

Bounds, and why they are enough. *Promise*: three threads let a settlement, a
binding and a handle's destruction interleave; three settlements with two values
let one be accepted and two be refused, with the same and with another value;
two bindings show that the second is refused. The proofs cover any number of threads and values.
*Chain*: three stages are a first, a last and one that has both neighbours, which
is what it takes for an error to pass a stage without a handler, be replaced by a
finalizer's and still have a stage to reach, and for two calls to be nested when
an exception unwinds them. A finalizer that does not throw is as good as none, so
four of the six forms (`Used`) show the behaviours of all; the proofs cover every
length and every form. *Task*: with three data
one can be consumed by the user, one be on its way as an event and one be in the
buffer of `inner`; the proofs cover any number of data and pools that coincide. Each pool starts any number of its events side by side, so the
executor is at its most permissive.
*Event loop*: the pool with two workers is what `notify_one` and stolen
events need, the second pool is what `lock_many` needs to have something to
back off from, and the event that pushes another one is what makes the two looks
at the counter necessary. Spurious wake-ups are possible in `loop` and `loop_live`,
any number of them; `loop_destructor` switches them off, to show that the hang needs
none. `loop_live` has one worker per pool to keep its graph within reach, so what
liveness says of stolen events rests on the safety property `NotifyOneSuffices`
and its proof. *Stream*: two data are enough for order, a third for
one that waits behind the first two, and the fourth for late data; the proofs
cover any number. *Combine*: with two promises a rejection races with a result or
with another rejection, and the third is one that is still to be bound, or never
settles, meanwhile; the proofs cover lists of every length. *Decimal*: base three
has a digit that is neither the least nor the greatest, four digits have a comma
in their text, and carries, borrows and every pair of lengths up to five digits
occur; the proofs cover every base and every length, with the code's base ten
among them, whose intermediate results (at most 9 * 9 + 8) fit a `char`.

All runs are of the build the makefile makes by default (`-DDEBUG`,
`src/makefile:3`), which defines `SAFE_PROMISES` and `SAFE_PROMISE_STREAMS`. The
constants `SafePromises` and `SafePromiseStreams` stand for these macros. The
theorems about streams hold for both values, and the text of each theorem about
promises says where the value matters.

Deadlock is checked in `loop_live`, whose terminal state stutters explicitly. With
spurious wake-ups a sleeping worker has a step in every state, so that check only
concerns states in which nobody sleeps; threads that wait for each other, or for a
notification that does not come, are what the two liveness properties exclude.
Elsewhere a model may simply come to rest (all handles dropped, all pushes
made), so the configurations switch the deadlock check off.

Fairness. Safety is checked without fairness. `loop_live` and the liveness
properties of the other runs assume:
- weak fairness of each thread's next step, and of the end of user callbacks,
  consumers and events: threads are scheduled and user functions return;
- strong fairness where a worker waits for its queue's mutex (`LocksQueue`):
  `join` spins through `waitForZero` and `lock_many` while there are still
  events, taking and releasing that mutex again and again. With weak fairness
  only a worker may starve and `join` with it; mutexes that are not
  pathologically unfair give strong fairness;
- that spurious wake-ups cease (`WakeUpsCease`). A worker that woke up for ever would
  take its queue's mutex each time `lock_many` tries to, and `join` would not return;
  any finite number of them, at any point, is allowed;
- that threads drop their handles in the end, for the properties which say that
  objects are freed;
- in `chain`, weak fairness of each stage's callback, of the settlement of `p0` and
  of the promises that next and handler return, and of the building thread: the
  code enforces none of the last three, and without them a chain rightly waits;
- in `task`, weak fairness of each event that runs and of each pool (which
  `loop_live` shows of the event loop), that the source settles what it returned, and that
  the user binds a consumer whose calls end. None of `SourceWrites`;
- in `combine`, weak fairness of the loop and of the callbacks, and none of the
  settlement of the promises: `RejectsEarly` holds although some never settle.
The runs `promise` and `loop` check safety only and assume no fairness at all.
No fairness is assumed of the producer or of pushes.

## 4. What is proved

TLAPS checks every proof in the `*Proofs` modules,
for every value of the constants. The assumptions are the named `ASSUME`s of the
modules (sets that are not empty or finite, bounds that are naturals, model
values outside the sets they are told apart from), which TLC evaluates on every
instance.

**PromiseProofs.** For any set of threads and any bounds. The inductive
invariant relates the mutex to the interval in which a callback runs, the stored
value to the accepted one, the callbacks taken to the state, and the references
to the lifetime: `OneBranchOnly`, `AcceptedValuesOnly`, `CallbackCompletesOnce`,
`CallbackNotLost`, `NeverUsedAfterFree`, `LifetimeMatchesDelivery`, `TypeCorrect`, and the
action property `FollowsStateGraph` (in no run, since the proof settles it). None of these is inductive alone: a callback
completes once because its completion, under the same mutex, clears it, and because the
state cannot be left once settled.

**EventLoopProofs.** For any number of pools, workers and events.
`CounterCorrect` is the key: at every step the counter is the number of threads
that are counted in, although three different scopes adjust it. Its proof goes
through a set of busy workers whose cardinality follows the counter.
`NobodyStartsEarly` is about the pistol. `JoinReturnsQuiescent` says that once
`join` has seen the counter at zero with all the queue mutexes held and the
queues empty, nothing runs until the main thread pushes again;
`JoinReturnsHandled` adds that all exceptions were handled. The invariant lists
who holds which lock at which label, and what each decision of `join` still
guarantees after a later step of a worker. `NotifyOneIsEnough` (while a worker
sleeps, each queued event has an awake worker on its way to it) adds one fact to
that invariant, that a worker about to block holds the mutex of an empty queue;
lemma `StepKind` says that a step does one of five things to a pool, and each keeps
at least as many workers on their way as there are events.

`LoopImplements`, in the same module, shows that the loop implements `ExecutorSpec`. Lemma `StepShape` classifies
every step of the loop as one of five shapes, by what it does to the queues, the
running events and the exceptions, and from then on no program counter is looked
at again. `EventsAreExclusive` (an event is queued once at most, or runs in one
worker) makes the shape "an event ends" remove exactly one running event, and the
quiescence just described supplies the guard of `Join`.

**PromiseChainProofs.** For chains of every length and every form of call at each stage. The
invariant says of each stage alone where it is (`Phase`), what it settled the next
promise with (`Passed`) and where that came from (`Origin`: what the user's function
gave, or what stands for one that is left out); of the stages
together it says only that an exception that has left one callback has left all
those below it (`Unwinding`), and that the chain is built in order. A step
changes one stage and may start the next, so lemma `LocalFrame` carries all other
stages over, and `SettleFromFrame` is what a branch and a forwarding have in
common. `TypeCorrect`, `CallsAreInOrder`, `ErrorsGoDown` and
`OnlyUnhandledAbandons` follow.

**StreamObjectProofs, PromiseStreamProofs.** For any number of writes, in checked
and unchecked builds. Because members are operators on the object, the object has
an invariant of its own, `Obj` (the table of states; the flag of the empty buffer; the queue:
what was delivered is 1..n and the buffer continues from there; the calls of the
consumer; what is due before the result). There is one lemma per member which
says that it preserves `Obj`, and `UpdateStateObj` says that `update_state`
restores the table from a state that lags behind. `IInv` adds the history (who
asked to stop) and the lifetime, and every safety property of the run follows:
`Typing`, `DataInOrder`, `SettledAfterData`, `NothingLost`, `NeverStalls`,
`OneConsumerAtATime`, `NeverUsedAfterFree`, `StopIsHonoured`. `TableIsFollowed` is about
steps: each change of the state is an edge of the table of `promise_stream.md`, or
several in a row, the event that the table names for it (the stream is written to, its
result is set, its buffer becomes empty) happens in the same step, a stream completes with
nothing buffered and no consumer running, and no change that is due is left undone. It
rests on one lemma per member about what that member may change (`WriteMoves`,
`ProcessDataMoves`, `DoRejectMoves` and so on), and is in no run, since the proof
settles it.

**TaskStreamProofs.** For any number of data, and any three pools, equal or not.
Both objects keep `Obj`, by the same lemmas. The invariant then says that one
event at a time lies between the two streams (`Between`: that of the last datum
which `inner` gave away, while `inner` waits for the promise that the proxy consumer
returned), that all data before it were passed on in order or came too late
(`Passing`), that an action other than `Continue` which `outer` asked for stays, and is
in `inner` or in the hands of that one event (`Stopping`), and that `outer` has a
result only when `inner` is completed (`Reaction`). `DataForwardedInOrder`,
`StopIsPassedOn`, `ResultComesLast` and `Typing` follow. One lemma, `InnerStep`, carries
the invariant over every call on `inner`, whoever makes it. The executor's promise
that an event is in one place (`OnePlace`) is all that is used of the event loop.

**CombineProofs.** For lists of every length. The invariant says that `remaining`
is the cardinality of the set of promises which no finalizer has counted; that
at most one handler is on its way to reject the combined promise, and then
nothing has settled it yet; that a finalizer on its way to resolve it is alone,
with all other callbacks done; that while nobody has failed the results of
the promises past their first callback are stored; and that the loop has done with
each promise rejected before the call when it binds the next one, so that the
handler which fails first is not behind any of them (`EarlyFirst`). `SettlesOnce`,
`VectorMovedLast` and `Typing` follow, and `CombineImplements` is the refinement:
`Settle`, the first `Bind`, `RejectNext` and `ResolveNext` are steps of `CombineSpec`,
all others stutter.

**DecimalProofs.** For every base from two on, numbers of every length, every number
of cores and every chunk. The library's induction theorems take an operator that the
provers cannot instantiate, so induction is stated for sets: `SetInduction` and
`StrongInduction` follow from the well-foundedness of strict inclusion of finite
sets, `Recursion` and `Iteration` from them, which say that what a recursive definition
defines satisfies its equation. From then on each loop has its invariant, a relation between `Low` of its
operands and of its result below a position and the carry into that position:
the sum is `Low(a)[i] + Low(b)[i]` less the carry times `Power[i]`, the
difference has the borrow instead, and a row of the product its own carry.
`RelationFacts` shows that the most significant difference decides, from which
the normal form is unique, and with it that the digits are `FromInteger` of the
number. The invariant `Inv` says that the digits stand for `value`, in normal form
unless a subtraction has failed, and, while a parallel product runs, that what the
workers have added plus what those that remain will add (`Due`, the sum of their
`Share`s) is the product: `RangesFacts` shows that their ranges neither overlap nor
leave a gap. `Typing`, `ArithmeticIsRight`, `ComparisonsAreRight` and `ConversionsAreRight`
are the four invariants of run `decimal`.

Only model-checked: the liveness properties (`ChainEnds`, `TaskSettles`, `CompletedIsFreed`,
`JoinReturns`, `DestructorReturnsUnlessMissed`, `Completes`, `RejectsEarly`,
`CombinedSettles`): the proof system has no support for liveness under fairness.

## 5. Abstractions

Values are members of small sets or the number of the write that made them;
`std::function`s are the set of things they may do (return, throw, go
asynchronous, push); exceptions are the fact that one was thrown. Left out:
- the depth of the stack: a synchronous consumer is called recursively from
  `process_data` (`src/promise_stream.tcc:182`), once per buffered datum;
- calls of a callback or consumer back into the same promise or stream, which
  wait for the mutex they run under and never return (a synchronous consumer that
  calls `write` or `is_stopping` on its own stream, `src/promise_stream.tcc:168`);
- the failure of `std::thread`'s constructor (`src/event_loop.cpp:69`, with threads
  already waiting at the pistol) and of memory allocation;
- in `TaskStream`, the pool `same` as the one of the reaction: it means the pool of
  the calling thread, and `EventLoop` models how a push resolves it;
- in `Promise`, that the terminator returns normally if the error it is given is a null
  `exception_ptr` (`src/promise.cpp:158-162`): a callback returns or throws, whichever
  it is, and errors are never null;
- in `EventLoop`, the `logic_error` of a `join` called by a worker
  (`src/event_loop.cpp:153-156`): to the worker it is an event that throws;
- in `TaskStream`, that `do_reject` itself throws when a refused write meets an `inner`
  stream that has a result (`src/promise_stream.tcc:193`): `Forward` takes the
  continuation for failures, in a branch that the proof shows is never reached;
- in `Decimal`, the `invalid_argument` of a text or an integer that is no decimal
  (`src/decimal.cpp:26-28`, `src/decimal.tcc:11-13`), which leaves no number behind;
- in `Decimal`, that a `char` may be unsigned (then no borrow is ever seen), and
  the factorial of a number that a failed subtraction has left with leading
  zeros;
- state objects of the stateful `stream` overloads.

Known consequences of the code that the properties exempt, with the place where
they come from:
- a callback that throws leaves its promise settled and not completed
  (`src/promise.cpp:125`), and if it is settled again, the same way, the callback runs
  again. `CompletesOnce` counts the calls that end normally, and `NoLostCallback`
  exempts a callback that threw;
- a `write` refused because the stream has a result has already put its datum
  into the buffer (`src/promise_stream.tcc:41`) and the datum may be
  consumed: `CompletesAfterData` and `NoDataLost` speak of what was written
  before the result;
- a consumer that fails asynchronously after the producer has set a result: `do_reject`
  throws (`src/promise_stream.tcc:193`) and no `catch` block is left to clear
  `consumer_is_running`, so the rest of the buffer and all later writes are never
  processed, and the stream never completes. `Completes` and `NoStall` exempt a stream
  whose consumer failed. Section 6 names the two other effects of a failure;
- a completer that throws skips `make_mortal` (`src/promise_stream.cpp:87-88`)
  and the stream is never freed: `CompletedIsFreed` exempts it;
- when an asynchronous consumer returns `Continue`, that overwrites the `Stop` a
  producer's `reject` has asked for meanwhile (`src/promise_stream.tcc:179`), and
  the rest of the buffer is delivered. `StopHonoured` is about what the consumer
  asks for;
- a `reject` after `resolve` is refused, but `do_reject` has already asked for `Stop`
  (`src/promise_stream.tcc:275`), and what is in the buffer is dropped although the
  stream resolves: `NoDataLost` exempts a stream on which `reject` was called (a
  `reject` that is accepted drops them as well, see section 6);
- a settled promise that nobody binds keeps its self reference for ever
  (`src/promise.cpp:99`); its documentation forbids leaving one unbound;
- the same happens to a promise that next or handler returned when the
  finalizer then throws: it is never bound, and never freed once it is settled
  (`src/promise.tcc:150`). `ChainEnds` exempts it;
- an error that no handler took is thrown by the terminator
  (`src/promise.cpp:159`) through the callbacks of every stage that is still in a
  call: none of those promises is completed or freed.
  `AbandonedOnlyByUnhandled` says that nothing else has this effect;
- the overload of `then` that returns void wraps its handler in a function that
  returns normally even if there is none (`src/promise.tcc:199`), so an error that
  arrives there without a handler is lost. `ErrorsPropagate` states it as an
  exception;
- a factory that throws in a task, instead of returning a rejected promise, ends
  in the event loop's exceptions and the caller's promise is never settled
  (`src/task.tcc:32`). `TaskSettles` exempts it;
- `notify()` after an exception (`src/event_loop.cpp:92`) only makes
  `waitForZero` look at the counter again: a `join` that waits handles the
  exception when the workers are idle.

## 6. Where the code and its documentation disagree

Each is a run that TLC refutes, with the trace in its output:
1. `loop_destructor`: `set_nowaiting` sets its flag and notifies without the
   queue's mutex (`src/concurrent_queue.tcc:84`). A worker between the evaluation of the wait
   condition and the block misses both, and the destructor waits for its thread
   for ever. In the run one of two workers is woken by an event which the other takes,
   and goes back to sleep at the wrong time; with a spurious wake-up, one worker is
   enough. `loop_live` shows, with spurious wake-ups, that this is all that keeps
   the destructor from its end: `MissedWakeUp` is the state in which a worker is about to
   block after the notification, and `DestructorReturnsUnlessMissed` says that the
   destructor terminates in every behaviour without such a state.
2. `stream_overrides`: a consumer that fails after the producer has set a result
   does not override it: `set_stream_result` throws.
3. `stream_rejects`: after a failure nobody processes the rest of the buffer, so
   the promise stays unsettled unless the producer writes again.
4. `combine_empty`: only a finalizer looks at the counter, so the combination of
   an empty list is never settled, although all its promises have resolved.

Three more statements are not kept, and no run is about them. `src/promise_stream.md:61-63`
says that the consumer is called for all remaining data, unless it asks to stop itself,
when the producer resolves or rejects the stream. `reject` sets the action to `Stop`
(`src/promise_stream.tcc:275`), so what is still buffered is dropped: `NoDataLost` is
about streams that nobody called `reject` on.

`src/promise.md:263-264` says that a combined promise rejects with "the error from the
first promise to reject". Handlers run in the threads that reject the promises,
after they have settled them, and the first to take `state_lock` wins
(`src/promise.tcc:448`): it need not be the one whose promise was rejected first.
`src/promise.md:270-271` says that if a promise was rejected before
`combine` was called, the error of the first such promise in the list is used.
The promises are bound one by one, so a promise earlier in the list that another
thread rejects in between comes first. `CombineSpec` therefore asks for the error
of a promise that is no later in the list than the first of those.

## 7. Not modelled, and the plan

Not modelled, and why:
- `SynchronousEventLoop`: one thread that takes events from a `std::queue` until it
  is empty, with nothing in between. It would be the smallest implementation of
  `ExecutorSpec`;
- `AsyncPromiseStreamState` (the first half of `task_stream.tcc`): no code makes one,
  and its overrides name functions that the base class declares with other
  parameters;
- `SharedFunctor`'s refusal of a second call: the executor runs an event once;
- callback packs, `functional`, the monadic operators and the stream traits: the
  compiler resolves them, and they keep no state at run time;
- `Assertions`: the book-keeping of the unit tests. `fs.cpp` is empty. Tests are
  read as statements of intent.

Next, in this order:
1. two streams joined by `forward_to` in one thread, whose calls nest as those of a
   chain do, on top of `StreamObject`;
2. `SynchronousEventLoop`, with the proof that it implements `ExecutorSpec`.
