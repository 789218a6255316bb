----------------------------- MODULE TaskStream -----------------------------
(***************************************************************************)
(* promise::task and promise::task_stream: a factory runs in one pool of   *)
(* an event loop, the data of its stream are passed on in another, and its *)
(* result in a third.  Two promise streams (the factory's, inner, and the  *)
(* one that the caller holds, outer) and the event loop that joins them    *)
(* are composed: the streams are objects of StreamObject, the loop is      *)
(* the abstract executor that the event loop has been shown to implement.  *)
(*                                                                         *)
(* Without data (task instead of task_stream) inner and outer stand for    *)
(* promises: a stream that is never written to is settled at once.         *)
(*                                                                         *)
(* An event is a functor that runs in several steps, each atomic under the *)
(* mutex of the stream that it calls; other events and the user's threads  *)
(* come in between.                                                        *)
(***************************************************************************)
EXTENDS StreamObject

CONSTANTS
    ProducerPool, ConsumerPool, ReactionPool, \* the pools of the event loop
    MaxData                                   \* bound on the data of the factory's stream

ASSUME MaxDataAssumption == MaxData \in Nat

VARIABLES
    streaming,     \* task_stream() (TRUE) or task() (FALSE)
    inner,         \* what the factory returns
    outer,         \* what the caller of the task holds
    part,          \* the steps that each event has done
    forwarded,     \* history: the data written to outer, by their number in inner
    failed,        \* history: the user's consumer has failed
    late,          \* history: the data that came after outer had asked to stop
    factory_threw, \* history: the factory has thrown
    fresh, queue, running, exceptions \* the executor's, see ExecutorSpec

Produce == <<"produce", 0>>     \* runs the factory and binds what it returns
Consume(d) == <<"consume", d>>  \* passes datum d of inner on to outer
React == <<"react", 0>>         \* passes the result of inner on to outer
Consumes == {Consume(d) : d \in 1 .. MaxData}
Events == {Produce, React} \cup Consumes
Pools == {ProducerPool, ConsumerPool, ReactionPool}

PoolOf(e) ==
    IF e = Produce THEN ProducerPool ELSE IF e = React THEN ReactionPool ELSE ConsumerPool

Executor == INSTANCE ExecutorSpec WITH joined <- FALSE

execVars == <<fresh, queue, running, exceptions>>
history == <<forwarded, failed, late, factory_threw>>
vars == <<streaming, inner, outer, part, history, execVars>>

\* the caller calls the task with an event loop: newFactory pushes the producer
Init ==
    /\ streaming \in BOOLEAN
    /\ inner = InitialStream
    /\ outer = InitialStream
    /\ part = [e \in Events |-> 0]
    /\ forwarded = <<>>
    /\ failed = FALSE
    /\ late = 0
    /\ factory_threw = FALSE
    /\ fresh = Events \ {Produce}
    /\ queue = [p \in Pools |-> IF p = ProducerPool THEN <<Produce>> ELSE <<>>]
    /\ running = [p \in Pools |-> {}]
    /\ exceptions = <<>>

At(e, n) == e \in running[PoolOf(e)] /\ part[e] = n
Done(e) == part' = [part EXCEPT ![e] = @ + 1]
Push(e) == Executor!Push(PoolOf(e), e)

\* mutant of Settled: the result is passed on before the data
SettledEarly(s) == s.result # "pending"

\* the promise of inner, to which resolve and reject are bound, is settled
Settled(s) == s.proxy # "pending"

\* mutant of InnerBecomes: the consumer returns a promise that is already resolved
InnerBecomesEager(s, bound) ==
    IF s.call = "sync"
    THEN /\ inner' = AfterAction([s EXCEPT !.call = "async"], "Continue")
         /\ Push(Consume(s.delivered[Len(s.delivered)]))
    ELSE /\ inner' = s
         /\ IF bound /\ Settled(s) /\ React \in fresh THEN Push(React) ELSE UNCHANGED execVars

\* A call on inner leaves it as s.  The consumer that this call may have
\* started pushes the datum and returns a pending promise; once resolve and
\* reject are bound, the settled promise pushes the result.
InnerBecomes(s, bound) ==
    IF s.call = "sync"
    THEN /\ inner' = [s EXCEPT !.call = "async"]
         /\ Push(Consume(s.delivered[Len(s.delivered)]))
    ELSE /\ inner' = s
         /\ IF bound /\ Settled(s) /\ React \in fresh THEN Push(React) ELSE UNCHANGED execVars

ThenBound == part[Produce] >= 3

-----------------------------------------------------------------------------
(* The producer event: factory(args...)->stream(consumer)->then(resolve, reject) *)

FactoryReturns ==
    /\ At(Produce, 0)
    /\ Done(Produce)
    /\ UNCHANGED <<streaming, inner, outer, history, execVars>>

\* nothing catches it but the event loop
FactoryThrows ==
    /\ At(Produce, 0)
    /\ factory_threw' = TRUE
    /\ Executor!Throw(ProducerPool, Produce)
    /\ UNCHANGED <<streaming, inner, outer, part, forwarded, failed, late>>

\* a task's factory returns a promise: there is nothing to stream
BindConsumer ==
    /\ At(Produce, 1)
    /\ IF streaming THEN InnerBecomes(ProcessData(SetDataCallbackAssigned(inner)), FALSE)
       ELSE UNCHANGED <<inner, execVars>>
    /\ Done(Produce)
    /\ UNCHANGED <<streaming, outer, history>>

\* mutant of BindReactions: a promise that is already settled is not looked at
BindReactionsLate ==
    /\ At(Produce, 2)
    /\ Done(Produce)
    /\ UNCHANGED <<streaming, inner, outer, history, execVars>>

BindReactions ==
    /\ At(Produce, 2)
    /\ InnerBecomes(inner, TRUE)
    /\ Done(Produce)
    /\ UNCHANGED <<streaming, outer, history>>

-----------------------------------------------------------------------------
(* Whoever fills what the factory has returned, before and after it is bound. *)

SourceMayAct == part[Produce] >= 1

SourceWrites ==
    /\ SourceMayAct
    /\ streaming
    /\ inner.result = "pending"
    /\ inner.action = "Continue"
    /\ inner.enqueued < MaxData
    /\ InnerBecomes(ProcessData(SetStreamHasBeenWrittenTo(EmplaceData(inner))), ThenBound)
    /\ UNCHANGED <<streaming, outer, part, history>>

SourceResolves ==
    /\ SourceMayAct
    /\ ~RefusesResult(inner)
    /\ InnerBecomes(SetStreamResult(inner, "resolved"), ThenBound)
    /\ UNCHANGED <<streaming, outer, part, history>>

SourceRejects ==
    /\ SourceMayAct
    /\ ~RefusesResult(inner)
    /\ InnerBecomes(DoReject(inner, "rejected"), ThenBound)
    /\ UNCHANGED <<streaming, outer, part, history>>

-----------------------------------------------------------------------------
(* The proxy event of the consumer.  A call on outer waits for its mutex,   *)
(* which a synchronous consumer of the user's keeps.                        *)

OuterIsFree == outer.call # "sync"

\* what write(datum) leaves, in a stream that takes it, ignores it or, because it
\* has a result already, refuses it
Written(s) ==
    IF s.action # "Continue" THEN ProcessData(s)
    ELSE IF RefusesResult(s) THEN EmplaceData(s)
    ELSE ProcessData(SetStreamHasBeenWrittenTo(EmplaceData(s)))

\* stream->write(datum); a write that is refused throws: consumer_action->reject,
\* and the event is over
Forward(d) ==
    LET taken == outer.action = "Continue"
        refused == taken /\ RefusesResult(outer)
    IN  /\ At(Consume(d), 0)
        /\ OuterIsFree
        /\ outer' = Written(outer)
        /\ forwarded' = IF taken THEN Append(forwarded, d) ELSE forwarded
        /\ late' = IF taken THEN late ELSE late + 1
        /\ IF refused
           THEN /\ InnerBecomes(AfterFailure(inner), ThenBound)
                /\ part' = [part EXCEPT ![Consume(d)] = 2]
           ELSE /\ Done(Consume(d))
                /\ UNCHANGED <<inner, execVars>>
        /\ UNCHANGED <<streaming, failed, factory_threw>>

\* mutant of Answer: what the user's consumer has answered is not read
AnswerContinue(d) ==
    /\ At(Consume(d), 1)
    /\ OuterIsFree
    /\ InnerBecomes(AfterAction(inner, "Continue"), ThenBound)
    /\ Done(Consume(d))
    /\ UNCHANGED <<streaming, outer, history>>

\* mutant of Answer: the state of the stream is passed on for its action
AnswerState(d) ==
    /\ At(Consume(d), 1)
    /\ OuterIsFree
    /\ InnerBecomes(AfterAction(inner, outer.state), ThenBound)
    /\ Done(Consume(d))
    /\ UNCHANGED <<streaming, outer, history>>

\* consumer_action->resolve(stream->data_action()): inner goes on
Answer(d) ==
    /\ At(Consume(d), 1)
    /\ OuterIsFree
    /\ InnerBecomes(AfterAction(inner, DataAction(outer)), ThenBound)
    /\ Done(Consume(d))
    /\ UNCHANGED <<streaming, outer, history>>

-----------------------------------------------------------------------------
(* The proxy event of the result.                                           *)

Deliver ==
    /\ At(React, 0)
    /\ OuterIsFree
    /\ IF inner.proxy = "resolved" THEN outer' = SetStreamResult(outer, "resolved")
       ELSE outer' = DoReject(outer, "rejected")
    /\ IF RefusesResult(outer)
       THEN Executor!Throw(ReactionPool, React) /\ UNCHANGED part
       ELSE Done(React) /\ UNCHANGED execVars
    /\ UNCHANGED <<streaming, inner, history>>

-----------------------------------------------------------------------------
(* The event loop.                                                          *)

Starts(p) ==
    /\ Executor!Start(p)
    /\ UNCHANGED <<streaming, inner, outer, part, history>>

LastPart(e) == IF e = Produce THEN 3 ELSE IF e = React THEN 1 ELSE 2

Returns(e) ==
    /\ At(e, LastPart(e))
    /\ Executor!Return(PoolOf(e), e)
    /\ UNCHANGED <<streaming, inner, outer, part, history>>

Handles ==
    /\ Executor!Handle
    /\ UNCHANGED <<streaming, inner, outer, part, history>>

-----------------------------------------------------------------------------
(* The user: binds a consumer to outer, and answers for each datum.         *)

UserBinds ==
    /\ streaming
    /\ OuterIsFree
    /\ ~outer.bound
    /\ outer' = ProcessData(SetDataCallbackAssigned(outer))
    /\ UNCHANGED <<streaming, inner, part, history, execVars>>

UserAnswers(a) ==
    /\ outer.call # "none"
    /\ outer' = AfterAction(outer, a)
    /\ UNCHANGED <<streaming, inner, part, history, execVars>>

\* do_reject() throws when outer has a result; only a synchronous call's
\* exception is caught
UserFails ==
    /\ outer.call # "none"
    /\ outer' = IF outer.call = "async" /\ RefusesResult(outer)
                THEN SetAction(ConsumerEnds(outer), "Stop")
                ELSE AfterFailure(outer)
    /\ failed' = TRUE
    /\ UNCHANGED <<streaming, inner, part, forwarded, late, factory_threw, execVars>>

UserGoesAsync ==
    /\ outer.call = "sync"
    /\ outer' = [outer EXCEPT !.call = "async"]
    /\ UNCHANGED <<streaming, inner, part, history, execVars>>

-----------------------------------------------------------------------------
ConsumeNext(d) == Forward(d) \/ Answer(d)

EventNext ==
    \/ FactoryReturns \/ FactoryThrows \/ BindConsumer \/ BindReactions
    \/ \E d \in 1 .. MaxData : ConsumeNext(d)
    \/ Deliver
    \/ \E p \in Pools : Starts(p)
    \/ \E e \in Events : Returns(e)

SourceSettles == SourceResolves \/ SourceRejects
UserEnds == UserFails \/ \E a \in StreamActions : UserAnswers(a)

Next ==
    \/ EventNext \/ Handles
    \/ SourceWrites \/ SourceSettles
    \/ UserBinds \/ UserEnds \/ UserGoesAsync

Spec == Init /\ [][Next]_vars

\* A thread that has an event goes on with it and an idle one takes the next
\* (the event loop's own liveness); the source settles what it returned; the
\* user binds a consumer, and its calls end.
Fairness ==
    /\ WF_vars(FactoryReturns \/ FactoryThrows \/ BindConsumer \/ BindReactions)
    /\ \A d \in 1 .. MaxData : WF_vars(ConsumeNext(d))
    /\ WF_vars(Deliver)
    /\ \A p \in Pools : WF_vars(Starts(p))
    /\ \A e \in Events : WF_vars(Returns(e))
    /\ WF_vars(SourceSettles)
    /\ WF_vars(UserBinds)
    /\ WF_vars(UserEnds)

FairSpec == Spec /\ Fairness

-----------------------------------------------------------------------------
\* inner and outer are streams, and the executor's variables are its own
TypeOK ==
    /\ inner \in StreamType
    /\ outer \in StreamType
    /\ part \in [Events -> 0 .. 3]
    /\ fresh \subseteq Events
    /\ running \in [Pools -> SUBSET Events]
    /\ late \in Nat
    /\ {failed, factory_threw, streaming} \subseteq BOOLEAN

\* The user's consumer is given the data in the order in which the factory
\* wrote them, none twice and none left out, although each comes in an event of
\* its own and the events of a pool may run side by side (the proxy
\* consumer returns its promise unsettled until the datum has been written).
ForwardsInOrder ==
    \A i \in DOMAIN outer.delivered : forwarded[outer.delivered[i]] = i

\* Outer has the result of inner only when inner has completed and every datum
\* has been passed on: no event that consumes has anything left to do.  So
\* no write is refused, and no event throws, except for the factory.
ResultAfterData ==
    /\ outer.result \in {"resolved", "rejected"} =>
           /\ inner.state = "completed"
           /\ outer.result = (IF inner.proxy = "resolved" THEN "resolved" ELSE "rejected")
           /\ \A i \in DOMAIN queue[ConsumerPool] : queue[ConsumerPool][i] \notin Consumes
           /\ \A e \in running[ConsumerPool] \cap Consumes : part[e] = 2
           /\ (late = 0 /\ outer.result = "resolved" /\ outer.action = "Continue") =>
                  Len(forwarded) = inner.enqueued
    /\ \A e \in Consumes \cup {React} : \A i \in DOMAIN exceptions : exceptions[i] # e

\* When the user's consumer has asked to stop or failed, at most one more datum
\* comes: the event that passes it on brings the answer back to inner.
StopPassedOn == late <= 1

\* The caller's promise or stream is settled in the end, whoever is slow,
\* unless the factory throws or the user's consumer fails.
TaskSettles == <>(Settled(outer) \/ failed \/ factory_threw)
=============================================================================
