---------------------------- MODULE PromiseStream ----------------------------
(***************************************************************************)
(* One promise stream (PromiseStreamStateBase / PromiseStreamState) with   *)
(* its producer, the binder of its consumer, and whoever settles the       *)
(* promises an asynchronous consumer returns.                              *)
(*                                                                         *)
(* A member function runs under the stream's mutex from get_lock() to the  *)
(* end of the helper's scope and is one action, with one exception: the    *)
(* consumer is user code that process_data() calls with the mutex held.    *)
(* It either returns a settled promise, and its continuation runs at once  *)
(* in the same thread, or it goes asynchronous: the call returns, the      *)
(* mutex is released, and the continuation takes it again, later.  What    *)
(* the members do to the object is a chain of operators on the record      *)
(* stream, composed in the order of the calls.                             *)
(***************************************************************************)
EXTENDS StreamObject

CONSTANTS
    SafePromiseStreams, \* TRUE iff compiled with SAFE_PROMISE_STREAMS (debug builds)
    MaxWrites           \* bound on the data enqueued

ASSUME SafePromiseStreamsAssumption == SafePromiseStreams \in BOOLEAN
ASSUME MaxWritesAssumption == MaxWrites \in Nat

VARIABLES
    stream,         \* the object, see StreamType
    mx,             \* owner of self_managing::mx
    releasing,      \* the role that has unlocked and not yet dropped the self reference
    self_reference, \* self_managing::self_reference is set (immortal)
    handles,        \* the roles that hold a PromiseStream<> handle
    memory,         \* the object is "live", "freed", or its destructor "threw"
    failed,         \* history: the consumer has thrown or its promise was rejected
    stopped,        \* history: the consumer has returned Discard or Stop, or failed
    reject_called,  \* history: the producer has called reject
    completer_threw \* history: the completer has thrown

vars == <<stream, mx, releasing, self_reference, handles, memory,
          failed, stopped, reject_called, completer_threw>>

Holders == {"producer", "binder"}
Roles == Holders \cup {"settler"}

Init ==
    /\ stream = InitialStream
    /\ mx = "free"
    /\ releasing = "nobody"
    /\ self_reference = FALSE
    /\ handles = Holders
    /\ memory = "live"
    /\ failed = FALSE
    /\ stopped = FALSE
    /\ reject_called = FALSE
    /\ completer_threw = FALSE

-----------------------------------------------------------------------------
(* Entering and leaving a member function.                                  *)

MayCall(r) ==
    /\ r \in handles
    /\ mx = "free"
    /\ releasing # r

\* The completer settles proxy_promise and with it whatever the user has
\* bound to it, which may throw: that skips make_mortal().  Nobody has bound
\* anything while stream() has not returned the proxy.
MayThrow(r) == IF stream.bound /\ r # "binder" THEN BOOLEAN ELSE {FALSE}

\* mutant of Leave: make_mortal() is forgotten on completion
LeaveImmortal(r, s) ==
    /\ stream' = s
    /\ mx' = IF s.call = "sync" THEN r ELSE "free"
    /\ UNCHANGED <<releasing, completer_threw>>

\* Role r leaves the object as s.  With a synchronous consumer running it keeps
\* the mutex; otherwise its helper unlocks, and drops the self reference later.
Leave(r, s) ==
    /\ stream' = s
    /\ mx' = IF s.call = "sync" THEN r ELSE "free"
    /\ IF stream.state # "completed" /\ s.state = "completed"
       THEN \E throws \in MayThrow(r) :
                /\ releasing' = IF throws THEN releasing ELSE r
                /\ completer_threw' = (completer_threw \/ throws)
       ELSE UNCHANGED <<releasing, completer_threw>>

-----------------------------------------------------------------------------
(* The producer.                                                            *)

\* write() while the consumer has not asked to stop.  A write after the
\* producer's own result is refused by checked builds, when the datum is
\* already in the buffer; unchecked builds take it.
Write ==
    LET s == EmplaceData(stream) IN
    /\ MayCall("producer")
    /\ stream.action = "Continue"
    /\ stream.enqueued < MaxWrites
    /\ IF SafePromiseStreams /\ RefusesResult(stream)
       THEN Leave("producer", s)
       ELSE Leave("producer", ProcessData(SetStreamHasBeenWrittenTo(s)))
    /\ UNCHANGED <<self_reference, handles, memory, failed, stopped, reject_called>>

\* write() after Discard, Stop, a failure or a reject: the datum is ignored
WriteIgnored ==
    /\ MayCall("producer")
    /\ stream.action # "Continue"
    /\ Leave("producer", ProcessData(stream))
    /\ UNCHANGED <<self_reference, handles, memory, failed, stopped, reject_called>>

Resolve ==
    /\ MayCall("producer")
    /\ Leave("producer", SetStreamResult(stream, "resolved"))
    /\ UNCHANGED <<self_reference, handles, memory, failed, stopped, reject_called>>

\* reject() asks for Stop first, even when it goes on to refuse the rejection
Reject ==
    /\ MayCall("producer")
    /\ Leave("producer", DoReject(stream, "rejected"))
    /\ reject_called' = TRUE
    /\ UNCHANGED <<self_reference, handles, memory, failed, stopped>>

-----------------------------------------------------------------------------
(* The consumer.                                                            *)

\* stream(), discard(), stop() and forward_to(), by set_data_callback();
\* checked builds refuse to bind again
Bind ==
    /\ MayCall("binder")
    /\ stream.bound => ~SafePromiseStreams
    /\ self_reference' = (self_reference \/ stream.state # "completed")
    /\ Leave("binder", ProcessData(SetDataCallbackAssigned(stream)))
    /\ UNCHANGED <<handles, memory, failed, stopped, reject_called>>

SyncReturn(a) ==
    /\ stream.call = "sync"
    /\ Leave(mx, AfterAction(stream, a))
    /\ stopped' = (stopped \/ a # "Continue")
    /\ UNCHANGED <<self_reference, handles, memory, failed, reject_called>>

AsyncReturn(a) ==
    /\ stream.call = "async"
    /\ mx = "free"
    /\ Leave("settler", AfterAction(stream, a))
    /\ stopped' = (stopped \/ a # "Continue")
    /\ UNCHANGED <<self_reference, handles, memory, failed, reject_called>>

\* Where do_reject() throws, because the producer had set a result, the
\* exception goes through the terminator of the consumer's promise into the
\* catch block of call_data_callback(), which also clears consumer_is_running.
SyncFail ==
    /\ stream.call = "sync"
    /\ Leave(mx, AfterFailure(stream))
    /\ failed' = TRUE
    /\ stopped' = TRUE
    /\ UNCHANGED <<self_reference, handles, memory, reject_called>>

\* An asynchronous continuation is outside of that try block: if do_reject()
\* throws, nothing clears consumer_is_running.
AsyncFail ==
    /\ stream.call = "async"
    /\ mx = "free"
    /\ Leave("settler",
             IF RefusesResult(stream) THEN SetAction(ConsumerEnds(stream), "Stop")
             ELSE AfterFailure(stream))
    /\ failed' = TRUE
    /\ stopped' = TRUE
    /\ UNCHANGED <<self_reference, handles, memory, reject_called>>

\* the consumer has returned a pending promise: the call returns
GoesAsync ==
    /\ stream.call = "sync"
    /\ Leave(mx, [stream EXCEPT !.call = "async"])
    /\ UNCHANGED <<self_reference, handles, memory, failed, stopped, reject_called>>

-----------------------------------------------------------------------------
(* Lifetime.                                                                *)

\* what ~PromiseStreamStateBase() throws on in checked builds
DestructorThrows ==
    /\ SafePromiseStreams
    /\ stream.state # "completed"
    /\ stream.bound \/ stream.state # "pending"

\* ~self_managing_helper() after the unlock: immortality->reset()
ReleaseSelf ==
    /\ releasing # "nobody"
    /\ releasing' = "nobody"
    /\ self_reference' = FALSE
    /\ memory' = IF handles = {} THEN "freed" ELSE memory
    /\ UNCHANGED <<stream, mx, handles, failed, stopped, reject_called, completer_threw>>

\* mutant of DropHandle: the self reference does not keep the object
DropHandleWeakSelf(r) ==
    /\ r \in handles
    /\ mx # r \/ r = "producer"
    /\ releasing # r
    /\ handles' = handles \ {r}
    /\ memory' = IF handles' # {} THEN memory ELSE "freed"
    /\ UNCHANGED <<stream, mx, releasing, self_reference, failed, stopped,
                   reject_called, completer_threw>>

\* A handle is dropped between two calls, or, the producer's, by the consumer
\* that one of its calls runs.  (The binder's stays: stream() still reads
\* proxy_promise after its helper is gone.)
DropHandle(r) ==
    /\ r \in handles
    /\ mx # r \/ r = "producer"
    /\ releasing # r
    /\ handles' = handles \ {r}
    /\ memory' = IF handles' # {} \/ self_reference THEN memory
                 ELSE IF DestructorThrows THEN "threw" ELSE "freed"
    /\ UNCHANGED <<stream, mx, releasing, self_reference, failed, stopped,
                   reject_called, completer_threw>>

ConsumerEndsSync == SyncFail \/ GoesAsync \/ \E a \in StreamActions : SyncReturn(a)
ConsumerEndsAsync == AsyncFail \/ \E a \in StreamActions : AsyncReturn(a)

Next ==
    \/ Write
    \/ WriteIgnored
    \/ Resolve
    \/ Reject
    \/ Bind
    \/ ConsumerEndsSync
    \/ ConsumerEndsAsync
    \/ ReleaseSelf
    \/ \E r \in Holders : DropHandle(r)

\* a consumer ends and its promise is settled, a member function that was
\* entered runs to its end, and every handle is dropped in the end
Fairness ==
    /\ WF_vars(ConsumerEndsSync)
    /\ WF_vars(ConsumerEndsAsync)
    /\ WF_vars(ReleaseSelf)
    /\ \A r \in Holders : WF_vars(DropHandle(r))

Spec == Init /\ [][Next]_vars
FairSpec == Spec /\ Fairness

-----------------------------------------------------------------------------
(* Properties.                                                              *)

\* Every variable keeps its type.
TypeOK ==
    /\ stream \in StreamType
    /\ mx \in Roles \cup {"free"}
    /\ releasing \in Roles \cup {"nobody"}
    /\ self_reference \in BOOLEAN
    /\ handles \subseteq Holders
    /\ memory \in {"live", "freed", "threw"}
    /\ failed \in BOOLEAN
    /\ stopped \in BOOLEAN
    /\ reject_called \in BOOLEAN
    /\ completer_threw \in BOOLEAN

Streaming == stream.state \in {"streaming1", "streaming2"}

\* The table of states and the graph of transitions of promise_stream.md, for
\* what a member function does between two moments at which another thread, or
\* the consumer, can act.  Every change of the state is an edge or a path of the
\* graph, and has the cause that the table names in the same step: a datum is
\* written, the result is set, the last of the buffer has been consumed.
Goes(from, to) == stream.state = from /\ stream'.state = to
ResultIsSet == stream.result = "pending" /\ stream'.result # "pending"
Transition ==
    \/ /\ Goes("pending", "streaming1")
       /\ ~stream.stream_has_been_written_to /\ stream'.stream_has_been_written_to
       /\ stream'.result = "pending"
    \/ /\ Goes("pending", "completed")
       /\ ResultIsSet /\ ~stream'.stream_has_been_written_to
    \/ /\ Goes("streaming1", "streaming2")
       /\ ResultIsSet /\ ~stream'.buffer_is_empty
    \/ /\ Goes("streaming1", "completed")
       /\ ResultIsSet /\ stream.buffer_is_empty
    \/ /\ Goes("streaming2", "completed")
       /\ ~stream.buffer_is_empty /\ stream'.buffer_is_empty

\* A stream completes with no data in the buffer and no consumer running, and
\* settles the proxy with its result then.
Completion ==
    stream'.buffer = <<>> /\ ~stream'.consumer_is_running /\ stream'.proxy = stream'.result

\* No change that the table asks for is left undone.
UpToDate ==
    /\ stream'.state = "pending" => ~stream'.stream_has_been_written_to
    /\ stream'.state \in {"pending", "streaming1"} <=> stream'.result = "pending"
    /\ stream'.state = "streaming2" => ~stream'.buffer_is_empty
    /\ stream'.state # "streaming3"

\* The three together; and what has been settled, result or proxy, stays.
TableStep ==
    /\ stream'.state # stream.state => Transition
    /\ stream'.state = "completed" /\ stream.state # "completed" => Completion
    /\ UpToDate
    /\ stream.result # "pending" => stream'.result = stream.result
    /\ stream.proxy # "pending" => stream'.proxy = stream.proxy
FollowsTable == [][TableStep]_vars

\* Data reaches the consumer in the order written, none twice and none
\* skipped, whatever calls of the consumer go asynchronous.
InOrder ==
    stream.delivered = [i \in 1 .. Len(stream.delivered) |-> i]

\* The promise is settled only when the consumer has returned and nothing that
\* was written before the result waits in the buffer (promise_stream.md: not
\* "until all data has been processed or discarded").
CompletesAfterData ==
    stream.proxy # "pending" =>
        /\ ~stream.consumer_is_running
        /\ \A i \in DOMAIN stream.buffer : stream.buffer[i] > stream.due

\* When the promise resolves, the consumer has been given all data written
\* before resolve(), unless it asked to stop or failed, or the producer
\* had called reject() as well.
NoDataLost ==
    (stream.proxy = "resolved" /\ ~stopped /\ ~reject_called) =>
        Len(stream.delivered) >= stream.due

\* Nothing is given to the consumer once it has returned Discard or Stop, or
\* failed, not even what was already in the buffer; and from then on the producer
\* is told so: data_action() never returns to Continue, and is_stopping() is
\* true for good after a failure, whatever races with it.
StopHonouredStep ==
    /\ stopped' => stream'.delivered = stream.delivered /\ DataAction(stream') # "Continue"
    /\ failed' => IsStopping(stream')
StopHonoured == [][StopHonouredStep]_vars

\* The buffer never stalls: with a consumer bound and idle there is nothing to
\* consume, unless the consumer failed.
NoStall ==
    (Streaming /\ stream.bound /\ ~stream.consumer_is_running /\ ~failed) =>
        stream.buffer = <<>> /\ stream.buffer_is_empty

\* Calls of the consumer never overlap: a new one starts only when the promise
\* of the previous one has been settled, whichever threads write, bind and settle.
OneConsumer ==
    Len(stream.delivered) = stream.ended + IF stream.call = "none" THEN 0 ELSE 1

\* Whoever is inside a member function, and whoever will call back into the
\* stream, finds the object alive, even when all handles are gone; and a stream
\* with a consumer is never destroyed before it has completed.
NoUseAfterFree ==
    memory # "live" =>
        /\ mx = "free" /\ releasing = "nobody" /\ stream.call # "async"
        /\ stream.bound => stream.state = "completed"

\* Once the producer has settled a stream that has a consumer, the promise is
\* settled in the end, unless the consumer fails.
Completes ==
    (stream.bound /\ stream.result \in {"resolved", "rejected"})
        ~> (stream.proxy # "pending" \/ failed)

\* A stream that has completed is freed, unless its completer threw.
CompletedIsFreed ==
    (stream.state = "completed") ~> (memory = "freed" \/ completer_threw)

-----------------------------------------------------------------------------
(* What the documentation and the tests say and the code does not do.       *)

\* promise_stream.md and a comment in set_stream_result(): the failure of the
\* consumer overrides the result set by the producer.
FailureOverrides ==
    failed => stream.proxy \in {"pending", "consumer_failed"}

\* promise_stream.md: if the consumer throws, the stream will eventually
\* reject with that exception.
FailureRejects ==
    (stream.result = "consumer_failed") ~> (stream.proxy = "consumer_failed")
=============================================================================
