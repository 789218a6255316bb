---------------------------- MODULE StreamObject ----------------------------
(***************************************************************************)
(* The object behind a promise stream, and what the protected members of   *)
(* PromiseStreamStateBase and PromiseStreamState do to it, as operators    *)
(* from the object before to the object after.  The actions of modules     *)
(* PromiseStream (one stream) and TaskStream (two streams joined by an     *)
(* event loop) compose them in the order of the calls.                     *)
(***************************************************************************)
EXTENDS Naturals, Sequences

StreamStates == {"pending", "streaming1", "streaming2", "streaming3", "completed"}
StreamResults == {"pending", "resolved", "rejected", "consumer_failed"}
StreamActions == {"Continue", "Discard", "Stop"}

\* A datum is the number of the write that enqueued it.
StreamType ==
    [state : StreamStates,
     stream_has_been_written_to : BOOLEAN,
     buffer_is_empty : BOOLEAN,
     bound : BOOLEAN,                     \* on_data and data_callback_assigned
     consumer_is_running : BOOLEAN,
     call : {"none", "sync", "async"},    \* how the running consumer was left
     action : StreamActions,
     result : StreamResults,              \* with its completer
     proxy : StreamResults,               \* how proxy_promise was settled
     buffer : Seq(Nat),
     enqueued : Nat,                      \* data enqueued so far
     due : Nat,                           \* data enqueued before the result was set
     delivered : Seq(Nat),                \* data given to the consumer
     ended : Nat]                         \* calls of the consumer that have ended

InitialStream ==
    [state |-> "pending", stream_has_been_written_to |-> FALSE, buffer_is_empty |-> TRUE,
     bound |-> FALSE, consumer_is_running |-> FALSE, call |-> "none",
     action |-> "Continue", result |-> "pending", proxy |-> "pending",
     buffer |-> <<>>, enqueued |-> 0, due |-> 0, delivered |-> <<>>, ended |-> 0]

-----------------------------------------------------------------------------
(* The protected members, as operators on the object.                      *)

SetAction(s, a) == [s EXCEPT !.action = a]
GetAction(s) == s.action

\* what the producer, or a stream that passes the data on, is told
IsStopping(s) == GetAction(s) = "Stop"
DataAction(s) == GetAction(s)

\* mutant of Complete: the proxy is settled with the wrong member
CompleteWithAction(s) == [s EXCEPT !.state = "completed", !.proxy = s.action]

Complete(s) == [s EXCEPT !.state = "completed", !.proxy = s.result]

\* update_state() and set_state() call each other until no transition applies:
\* the furthest state that the members of s allow
FurthestState(s) ==
    LET settled == s.result # "pending" IN
    IF s.state = "completed" THEN "completed"
    ELSE IF s.state = "pending" /\ ~s.stream_has_been_written_to
         THEN IF settled THEN "completed" ELSE "pending"
    ELSE IF s.state \in {"pending", "streaming1"} /\ ~settled THEN "streaming1"
    ELSE IF s.state # "streaming3" /\ ~s.buffer_is_empty THEN "streaming2"
    ELSE IF s.consumer_is_running THEN "streaming3"
    ELSE "completed"

UpdateState(s) ==
    IF FurthestState(s) = "completed" THEN Complete(s)
    ELSE [s EXCEPT !.state = FurthestState(s)]

\* mutant of SetStreamHasBeenWrittenTo: the flag of the empty buffer stays up
SetWrittenKeepsFlag(s) == UpdateState([s EXCEPT !.stream_has_been_written_to = TRUE])

SetStreamHasBeenWrittenTo(s) ==
    UpdateState([s EXCEPT !.stream_has_been_written_to = TRUE, !.buffer_is_empty = FALSE])

\* a second result is refused with an exception, unless the consumer has
\* failed: then it is ignored
RefusesResult(s) == s.result \in {"resolved", "rejected"}

SetStreamResult(s, r) ==
    IF s.result = "pending" THEN UpdateState([s EXCEPT !.result = r, !.due = s.enqueued])
    ELSE s

SetBufferIsEmpty(s) ==
    IF s.buffer_is_empty THEN s ELSE UpdateState([s EXCEPT !.buffer_is_empty = TRUE])

SetConsumerIsRunning(s, b) == UpdateState([s EXCEPT !.consumer_is_running = b])

\* mutant of EmplaceData: a stack instead of a queue
EmplaceDataFront(s) ==
    [s EXCEPT !.buffer = <<s.enqueued + 1>> \o @, !.enqueued = @ + 1]

EmplaceData(s) ==
    [s EXCEPT !.buffer = Append(@, s.enqueued + 1), !.enqueued = @ + 1]

DoReject(s, r) == SetStreamResult(SetAction(s, "Stop"), r)

\* set_data_callback_assigned(), apart from the self reference
SetDataCallbackAssigned(s) == [s EXCEPT !.bound = TRUE]

\* call_data_callback() as far as the call of the consumer
CallDataCallback(s, datum) ==
    SetConsumerIsRunning([s EXCEPT !.call = "sync", !.delivered = Append(@, datum)], TRUE)

\* mutant of MayTakeData: a running consumer is not looked for
MayTakeDataAlways(s) == s.bound /\ s.state \in {"streaming1", "streaming2"}

MayTakeData(s) ==
    /\ s.state \in {"streaming1", "streaming2"}
    /\ s.bound
    /\ ~s.consumer_is_running

\* mutant of ProcessData: Discard and Stop leave the buffer to the consumer
ProcessDataKeeps(s) ==
    IF ~MayTakeData(s) THEN s
    ELSE IF s.buffer = <<>> THEN SetBufferIsEmpty(s)
    ELSE CallDataCallback([s EXCEPT !.buffer = Tail(@)], Head(s.buffer))

\* process_data() with take_data(): after Discard or Stop the buffer is dropped
ProcessData(s) ==
    LET kept == IF s.action = "Continue" THEN s.buffer ELSE <<>>
    IN  IF ~MayTakeData(s) THEN s
        ELSE IF kept = <<>> THEN SetBufferIsEmpty([s EXCEPT !.buffer = <<>>])
        ELSE CallDataCallback([s EXCEPT !.buffer = Tail(kept)], Head(kept))

-----------------------------------------------------------------------------
(* The end of a call of the consumer.                                       *)

\* the consumer's promise is settled: its call is over
ConsumerEnds(s) == [s EXCEPT !.call = "none", !.ended = @ + 1]

\* mutant of AfterAction: the rest of the buffer is left for the next write
AfterActionIdle(s, a) ==
    SetConsumerIsRunning(SetAction(ConsumerEnds(s), a), FALSE)

\* the consumer has returned a promise resolved with action a: set_action,
\* set_consumer_is_running(false), process_data
AfterAction(s, a) ==
    ProcessData(SetConsumerIsRunning(SetAction(ConsumerEnds(s), a), FALSE))

\* the consumer has thrown or its promise is rejected: do_reject, then
\* set_consumer_is_running(false)
AfterFailure(s) ==
    SetConsumerIsRunning(DoReject(ConsumerEnds(s), "consumer_failed"), FALSE)
=============================================================================
