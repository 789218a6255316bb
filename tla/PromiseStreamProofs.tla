------------------------- MODULE PromiseStreamProofs -------------------------
(***************************************************************************)
(* Proofs about PromiseStream, for every number of writes and for checked  *)
(* and unchecked builds.  The actions only compose members, which preserve *)
(* the invariant of the object (StreamObjectProofs), and the invariant of  *)
(* the specification adds what the history and the lifetime have to do     *)
(* with the object.                                                        *)
(***************************************************************************)
EXTENDS PromiseStream, StreamObjectProofs

-----------------------------------------------------------------------------
(* The invariant of the specification.                                      *)

\* Every variable but the object keeps its type.
Types ==
    /\ mx \in Roles \cup {"free"}
    /\ releasing \in Roles \cup {"nobody"}
    /\ self_reference \in BOOLEAN
    /\ handles \subseteq Holders
    /\ memory \in {"live", "freed", "threw"}
    /\ failed \in BOOLEAN
    /\ stopped \in BOOLEAN
    /\ reject_called \in BOOLEAN
    /\ completer_threw \in BOOLEAN

\* what the history says about the object: an action other than Continue was
\* asked for by somebody, and a consumer that has asked to stop does not run
History ==
    /\ failed => stopped
    /\ ~failed => Idle(stream)
    /\ failed => stream.action = "Stop"
    /\ stopped => stream.action # "Continue" /\ stream.call = "none"
    /\ ~stopped /\ ~reject_called => stream.action = "Continue"

\* who keeps the object alive: itself while it has a consumer and has not
\* completed, and then the handle or the self reference of the role that
\* completed it
Lifetime ==
    /\ stream.bound /\ stream.state # "completed" => self_reference
    /\ releasing # "nobody" =>
          stream.state = "completed" /\ (releasing \in handles \/ self_reference)
    /\ memory # "live" => handles = {} /\ ~self_reference

IInv ==
    /\ Types
    /\ Obj(stream)
    /\ (mx = "free") <=> (stream.call # "sync")
    /\ History
    /\ Lifetime

\* A role that has left a member function with the object as s has kept the
\* types, the mutex and the lifetime in order.
LEMMA LeaveStep ==
    ASSUME Types, Lifetime, NEW r \in Roles, NEW s, Leave(r, s),
           memory = "live", r \in handles \/ self_reference,
           handles' = handles, memory' = memory,
           self_reference' \in BOOLEAN, self_reference => self_reference',
           s.bound /\ s.state # "completed" => self_reference',
           stream.state = "completed" => s.state = "completed"
    PROVE  /\ stream' = s
           /\ mx' \in Roles \cup {"free"}
           /\ releasing' \in Roles \cup {"nobody"}
           /\ completer_threw' \in BOOLEAN
           /\ (mx' = "free") <=> (s.call # "sync")
           /\ Lifetime'
<1>1. stream' = s /\ mx' = (IF s.call = "sync" THEN r ELSE "free")
  BY DEF Leave
<1>2. r # "free" /\ r # "nobody"
  BY DEF Roles, Holders
<1>3. /\ releasing' \in {releasing, r}
      /\ releasing' # releasing => s.state = "completed"
      /\ completer_threw' \in BOOLEAN
  BY DEF Leave, MayThrow, Types
<1>4. Lifetime'
  BY <1>1, <1>2, <1>3 DEF Lifetime
<1> QED BY <1>1, <1>2, <1>3, <1>4 DEF Types

\* A running consumer keeps the object alive.
LEMMA RunningIsAlive ==
    ASSUME IInv, stream.call # "none"
    PROVE  memory = "live" /\ self_reference /\ stream.bound /\ ~stopped /\ ~failed
           /\ stream.state # "completed"
  BY DEF IInv, Obj, BeforeUpdate, Calls, Lifetime, History

\* So does a handle, and a role that calls a member function has one.
LEMMA CallerIsAlive ==
    ASSUME IInv, NEW r, MayCall(r)
    PROVE  memory = "live" /\ r \in handles /\ r \in Roles /\ mx = "free" /\ stream.call # "sync"
  BY DEF IInv, Types, Lifetime, MayCall, Roles

\* The inductive invariant holds at the start.
LEMMA InitIInv == Init => IInv
<1> SUFFICES ASSUME Init PROVE IInv
  OBVIOUS
<1>1. Obj(stream) /\ Idle(stream)
  BY InitialObj DEF Init
<1>2. stream.call = "none" /\ stream.bound = FALSE /\ stream.action = "Continue"
  BY DEF Init, InitialStream
<1>3. Types /\ mx = "free" /\ History /\ Lifetime
  BY <1>1, <1>2 DEF Init, Types, History, Lifetime, Roles, Holders
<1> QED BY <1>1, <1>2, <1>3 DEF IInv

\* Writing preserves the inductive invariant.
LEMMA WriteIInv ==
    ASSUME IInv, Write
    PROVE  IInv' /\ StopHonouredStep
<1> DEFINE e == EmplaceData(stream)
           s == IF SafePromiseStreams /\ RefusesResult(stream) THEN e
                ELSE ProcessData(SetStreamHasBeenWrittenTo(e))
<1>1. /\ MayCall("producer") /\ stream.action = "Continue" /\ Leave("producer", s)
      /\ UNCHANGED <<self_reference, handles, memory, failed, stopped, reject_called>>
  BY DEF Write
<1>2. /\ memory = "live" /\ "producer" \in handles /\ "producer" \in Roles
  BY <1>1, CallerIsAlive
<1>3. Obj(stream) /\ ~stopped /\ ~failed
  BY <1>1 DEF IInv, History
<1>4. /\ Obj(s) /\ Idle(s)
      /\ s.bound = stream.bound /\ s.action = "Continue"
      /\ stream.state = "completed" => s.state = "completed"
  <2>1. CASE SafePromiseStreams /\ RefusesResult(stream)
    <3>1. Obj(e)
      BY <1>1, <1>3, <2>1, RefusedWriteObj
    <3>2. /\ e.state = stream.state /\ e.buffer_is_empty = stream.buffer_is_empty
          /\ e.bound = stream.bound /\ e.action = stream.action /\ e.result = stream.result
          /\ e.consumer_is_running = stream.consumer_is_running
      BY <1>1, <1>3, EmplaceDataFields
    <3>3. Idle(stream)
      BY <1>3 DEF IInv, History
    <3> HIDE DEF e
    <3>4. Idle(e)
      BY <1>3, <2>1, <3>2, <3>3 DEF Idle, Obj, Table, RefusesResult
    <3> QED BY <1>1, <2>1, <3>1, <3>2, <3>4
  <2>2. CASE ~(SafePromiseStreams /\ RefusesResult(stream))
    <3> DEFINE w == SetStreamHasBeenWrittenTo(e)
    <3>1. /\ Obj(w) /\ w.bound = stream.bound /\ w.action = "Continue"
          /\ stream.state = "completed" => w.state = "completed"
      BY <1>1, <1>3, AcceptedWriteObj
    <3> HIDE DEF w
    <3>2. s = ProcessData(w)
      BY <2>2 DEF w
    <3> QED BY <3>1, <3>2, ProcessDataObj
  <2> QED BY <2>1, <2>2
<1> HIDE DEF s
<1>5. /\ stream' = s /\ mx' \in Roles \cup {"free"} /\ releasing' \in Roles \cup {"nobody"}
      /\ completer_threw' \in BOOLEAN /\ Lifetime'
      /\ (mx' = "free") <=> (s.call # "sync")
  BY <1>1, <1>2, <1>4, LeaveStep DEF IInv, Types, Lifetime
<1>6. IInv'
  <2>1. Types'
    BY <1>1, <1>3, <1>4, <1>5 DEF IInv, Types
  <2>2. History'
    BY <1>1, <1>3, <1>4, <1>5 DEF IInv, History
  <2> QED BY <1>1, <1>3, <1>4, <1>5, <2>1, <2>2 DEF IInv
<1> QED BY <1>1, <1>3, <1>6 DEF StopHonouredStep, IInv, History, DataAction, GetAction,
                                        IsStopping

\* A write that is ignored preserves it.
LEMMA WriteIgnoredIInv ==
    ASSUME IInv, WriteIgnored
    PROVE  IInv' /\ StopHonouredStep
<1> DEFINE s == ProcessData(stream)
<1>1. /\ MayCall("producer") /\ stream.action # "Continue" /\ Leave("producer", s)
      /\ UNCHANGED <<self_reference, handles, memory, failed, stopped, reject_called>>
  BY DEF WriteIgnored
<1>2. /\ memory = "live" /\ "producer" \in handles /\ "producer" \in Roles
  BY <1>1, CallerIsAlive
<1>3. /\ Obj(s) /\ Idle(s)
      /\ s.bound = stream.bound /\ s.action = stream.action
      /\ stream.state = "completed" => s.state = "completed"
      /\ s.delivered = stream.delivered /\ s.call = stream.call
  BY <1>1, ProcessDataObj DEF IInv
<1> HIDE DEF s
<1>4. /\ stream' = s /\ mx' \in Roles \cup {"free"} /\ releasing' \in Roles \cup {"nobody"}
      /\ completer_threw' \in BOOLEAN /\ Lifetime'
      /\ (mx' = "free") <=> (s.call # "sync")
  BY <1>1, <1>2, <1>3, LeaveStep DEF IInv, Types, Lifetime
<1>5. IInv'
  <2>1. Types'
    BY <1>1, <1>3, <1>4 DEF IInv, Types
  <2>2. History'
    BY <1>1, <1>3, <1>4 DEF IInv, History
  <2> QED BY <1>1, <1>3, <1>4, <2>1, <2>2 DEF IInv
<1> QED BY <1>3, <1>4, <1>5 DEF StopHonouredStep, IInv, History, DataAction, GetAction,
                                        IsStopping

\* The producer's resolve() and reject() preserve it.
LEMMA SettleIInv ==
    ASSUME IInv, Resolve \/ Reject
    PROVE  IInv' /\ StopHonouredStep
<1> PICK r \in {"resolved", "rejected"} :
        /\ MayCall("producer")
        /\ Leave("producer", IF r = "resolved" THEN SetStreamResult(stream, r)
                             ELSE DoReject(stream, r))
        /\ reject_called' = (reject_called \/ r = "rejected")
        /\ UNCHANGED <<self_reference, handles, memory, failed, stopped>>
  BY DEF Resolve, Reject, IInv, Types
<1> DEFINE s == IF r = "resolved" THEN SetStreamResult(stream, r) ELSE DoReject(stream, r)
<1>1. /\ MayCall("producer") /\ Leave("producer", s)
      /\ UNCHANGED <<self_reference, handles, memory, failed, stopped>>
  OBVIOUS
<1>2. /\ memory = "live" /\ "producer" \in handles /\ "producer" \in Roles
  BY <1>1, CallerIsAlive
<1>3. r \in StreamResults \ {"pending"} /\ Obj(stream)
  BY DEF StreamResults, IInv
<1>4. /\ Obj(s) /\ (Idle(stream) => Idle(s))
      /\ s.bound = stream.bound
      /\ s.action = IF r = "resolved" THEN stream.action ELSE "Stop"
      /\ stream.state = "completed" => s.state = "completed"
      /\ s.delivered = stream.delivered /\ s.call = stream.call
  <2>1. CASE r = "resolved"
    BY <1>3, <2>1, SetStreamResultObj
  <2>2. CASE r # "resolved"
    BY <1>3, <2>2, DoRejectObj
  <2> QED BY <2>1, <2>2
<1> HIDE DEF s
<1>5. /\ stream' = s /\ mx' \in Roles \cup {"free"} /\ releasing' \in Roles \cup {"nobody"}
      /\ completer_threw' \in BOOLEAN /\ Lifetime'
      /\ (mx' = "free") <=> (s.call # "sync")
  BY <1>1, <1>2, <1>4, LeaveStep DEF IInv, Types, Lifetime
<1>6. reject_called' \in BOOLEAN
  BY DEF IInv, Types
<1>7. IInv'
  <2>1. Types'
    BY <1>1, <1>4, <1>5, <1>6 DEF IInv, Types
  <2>2. History'
    <3>1. stopped' => s.action # "Continue" /\ s.call = "none"
      BY <1>1, <1>4 DEF IInv, History
    <3>2. ~stopped' /\ ~reject_called' => s.action = "Continue"
      <4>1. ~reject_called' => r = "resolved" /\ ~reject_called
        OBVIOUS
      <4> QED BY <1>1, <1>4, <4>1 DEF IInv, History
    <3> QED BY <1>1, <1>4, <1>5, <3>1, <3>2 DEF IInv, History
  <2> QED BY <1>1, <1>4, <1>5, <1>6, <2>1, <2>2 DEF IInv
<1> QED BY <1>4, <1>5, <1>7 DEF StopHonouredStep, IInv, History, DataAction, GetAction,
                                        IsStopping

\* Binding the consumer preserves it.
LEMMA BindIInv ==
    ASSUME IInv, Bind
    PROVE  IInv' /\ StopHonouredStep
<1> DEFINE b == [stream EXCEPT !.bound = TRUE]
           s == ProcessData(b)
<1>1. /\ MayCall("binder") /\ Leave("binder", s)
      /\ self_reference' = (self_reference \/ stream.state # "completed")
      /\ UNCHANGED <<handles, memory, failed, stopped, reject_called>>
  BY DEF Bind, SetDataCallbackAssigned
<1>2. /\ memory = "live" /\ "binder" \in handles /\ "binder" \in Roles
  BY <1>1, CallerIsAlive
<1>3. /\ Obj(b) /\ b.delivered = stream.delivered /\ b.action = stream.action
      /\ b.call = stream.call /\ b.state = stream.state
  BY BindObj DEF IInv, Obj, BeforeUpdate, StreamType
<1> HIDE DEF b
<1>4. /\ Obj(s) /\ Idle(s) /\ s.action = stream.action
      /\ stream.state = "completed" => s.state = "completed"
      /\ stream.action # "Continue" => s.delivered = stream.delivered /\ s.call = stream.call
  BY <1>3, ProcessDataObj
<1> HIDE DEF s
<1>5. self_reference' \in BOOLEAN /\ (self_reference => self_reference')
  BY <1>1 DEF IInv, Types
<1>6. /\ stream' = s /\ mx' \in Roles \cup {"free"} /\ releasing' \in Roles \cup {"nobody"}
      /\ completer_threw' \in BOOLEAN /\ Lifetime'
      /\ (mx' = "free") <=> (s.call # "sync")
  BY <1>1, <1>2, <1>4, <1>5, LeaveStep DEF IInv
<1>7. IInv'
  <2>1. Types'
    BY <1>1, <1>4, <1>5, <1>6 DEF IInv, Types
  <2>2. History'
    BY <1>1, <1>4, <1>5, <1>6 DEF IInv, History
  <2> QED BY <1>1, <1>4, <1>5, <1>6, <2>1, <2>2 DEF IInv
<1> QED BY <1>1, <1>4, <1>6, <1>7 DEF StopHonouredStep, IInv, History, DataAction, GetAction,
                                        IsStopping

\* The return of a consumer, at once or later, preserves it.
LEMMA ReturnIInv ==
    ASSUME IInv, NEW a \in StreamActions, SyncReturn(a) \/ AsyncReturn(a)
    PROVE  IInv' /\ StopHonouredStep
<1> PICK r \in Roles :
        /\ stream.call # "none"
        /\ Leave(r, AfterAction(stream, a))
        /\ stopped' = (stopped \/ a # "Continue")
        /\ UNCHANGED <<self_reference, handles, memory, failed, reject_called>>
  <2>1. stream.call = "sync" => mx \in Roles
    BY DEF IInv, Types
  <2> QED BY <2>1 DEF SyncReturn, AsyncReturn, Roles
<1> DEFINE s == AfterAction(stream, a)
<1>1. /\ Leave(r, s)
      /\ UNCHANGED <<self_reference, handles, memory, failed, reject_called>>
  OBVIOUS
<1>2. memory = "live" /\ self_reference /\ ~stopped /\ ~failed /\ stream.state # "completed"
  BY RunningIsAlive
<1>3. /\ Obj(s) /\ Idle(s) /\ s.action = a
      /\ a # "Continue" => s.delivered = stream.delivered /\ s.call = "none"
  BY AfterActionObj DEF IInv
<1> HIDE DEF s
<1>4. /\ stream' = s /\ mx' \in Roles \cup {"free"} /\ releasing' \in Roles \cup {"nobody"}
      /\ completer_threw' \in BOOLEAN /\ Lifetime'
      /\ (mx' = "free") <=> (s.call # "sync")
  BY <1>1, <1>2, LeaveStep DEF IInv, Types
<1>5. stopped' \in BOOLEAN /\ stopped' = (a # "Continue")
  BY <1>2
<1>6. IInv'
  <2>1. Types'
    BY <1>1, <1>2, <1>3, <1>4, <1>5 DEF IInv, Types
  <2>2. History'
    <3>1. stopped' => s.action # "Continue" /\ s.call = "none"
      BY <1>3, <1>5
    <3>2. ~stopped' => s.action = "Continue"
      BY <1>3, <1>5
    <3> QED BY <1>1, <1>2, <1>3, <1>4, <3>1, <3>2 DEF History
  <2> QED BY <1>1, <1>2, <1>3, <1>4, <1>5, <2>1, <2>2 DEF IInv
<1> QED BY <1>3, <1>4, <1>5, <1>6 DEF StopHonouredStep, IInv, History, DataAction, GetAction,
                                        IsStopping

\* The failure of a consumer preserves it.
LEMMA FailIInv ==
    ASSUME IInv, SyncFail \/ AsyncFail
    PROVE  IInv' /\ StopHonouredStep
<1> DEFINE x == [ConsumerEnds(stream) EXCEPT !.action = "Stop"]
<1> PICK r \in Roles, s \in {x, AfterFailure(stream)} :
        /\ stream.call # "none"
        /\ Leave(r, s)
        /\ failed' = TRUE
        /\ stopped' = TRUE
        /\ UNCHANGED <<self_reference, handles, memory, reject_called>>
  <2>1. stream.call = "sync" => mx \in Roles
    BY DEF IInv, Types
  <2> QED BY <2>1 DEF SyncFail, AsyncFail, Roles, SetAction
<1>1. /\ Leave(r, s)
      /\ UNCHANGED <<self_reference, handles, memory, reject_called>>
  OBVIOUS
<1>2. memory = "live" /\ self_reference /\ stream.state # "completed"
  BY RunningIsAlive
<1>3. /\ Obj(s) /\ s.action = "Stop" /\ s.call = "none" /\ s.delivered = stream.delivered
  <2>1. "Stop" \in StreamActions /\ Obj(stream)
    BY DEF StreamActions, IInv
  <2>2. CASE s = x
    BY <2>1, <2>2, ConsumerEndsObj
  <2>3. CASE s = AfterFailure(stream)
    BY <2>1, <2>3, AfterFailureObj
  <2> QED BY <2>2, <2>3
<1> HIDE DEF x
<1>4. /\ stream' = s /\ mx' \in Roles \cup {"free"} /\ releasing' \in Roles \cup {"nobody"}
      /\ completer_threw' \in BOOLEAN /\ Lifetime'
      /\ (mx' = "free") <=> (s.call # "sync")
  BY <1>1, <1>2, LeaveStep DEF IInv, Types
<1>5. IInv'
  <2>1. Types'
    BY <1>1, <1>3, <1>4 DEF IInv, Types
  <2>2. History'
    BY <1>1, <1>3, <1>4 DEF IInv, History
  <2> QED BY <1>1, <1>3, <1>4, <2>1, <2>2 DEF IInv
<1> QED BY <1>3, <1>4, <1>5 DEF StopHonouredStep, IInv, History, DataAction, GetAction,
                                        IsStopping

\* A consumer that goes asynchronous preserves it.
LEMMA GoesAsyncIInv ==
    ASSUME IInv, GoesAsync
    PROVE  IInv' /\ StopHonouredStep
<1> DEFINE s == [stream EXCEPT !.call = "async"]
<1>1. /\ stream.call = "sync" /\ Leave(mx, s) /\ mx \in Roles
      /\ UNCHANGED <<self_reference, handles, memory, failed, stopped, reject_called>>
  BY DEF GoesAsync, IInv, Types
<1>2. memory = "live" /\ self_reference /\ ~stopped /\ ~failed /\ stream.state # "completed"
  BY <1>1, RunningIsAlive
<1>3. /\ Obj(s) /\ s.call = "async" /\ (Idle(stream) => Idle(s)) /\ s.action = stream.action
      /\ s.delivered = stream.delivered
  BY <1>1, GoesAsyncObj DEF IInv
<1> HIDE DEF s
<1>4. /\ stream' = s /\ mx' \in Roles \cup {"free"} /\ releasing' \in Roles \cup {"nobody"}
      /\ completer_threw' \in BOOLEAN /\ Lifetime'
      /\ (mx' = "free") <=> (s.call # "sync")
  BY <1>1, <1>2, LeaveStep DEF IInv, Types
<1>5. IInv'
  <2>1. Types'
    BY <1>1, <1>2, <1>3, <1>4 DEF IInv, Types
  <2>2. History'
    BY <1>1, <1>2, <1>3, <1>4 DEF IInv, History
  <2> QED BY <1>1, <1>2, <1>3, <1>4, <2>1, <2>2 DEF IInv
<1> QED BY <1>3, <1>4, <1>5 DEF StopHonouredStep, IInv, History, DataAction, GetAction,
                                        IsStopping

\* Dropping the self reference, and dropping a handle, preserve it.
LEMMA DropIInv ==
    ASSUME IInv, ReleaseSelf \/ \E r \in Holders : DropHandle(r)
    PROVE  IInv' /\ StopHonouredStep
<1>1. UNCHANGED <<stream, mx, failed, stopped, reject_called, completer_threw>>
  BY DEF ReleaseSelf, DropHandle
<1>2. Types'
  BY <1>1 DEF IInv, Types, ReleaseSelf, DropHandle
<1>3. Lifetime'
  <2>1. CASE ReleaseSelf
    BY <2>1 DEF ReleaseSelf, IInv, Types, Lifetime
  <2>2. ASSUME NEW r \in Holders, DropHandle(r) PROVE Lifetime'
    BY <2>2 DEF DropHandle, IInv, Types, Lifetime
  <2> QED BY <2>1, <2>2
<1> QED BY <1>1, <1>2, <1>3 DEF StopHonouredStep, IInv, History, DataAction, GetAction,
                                        IsStopping

\* Every step preserves it, and honours what the consumer asked for.
LEMMA NextIInv == IInv /\ [Next]_vars => IInv' /\ [StopHonouredStep]_vars
<1> SUFFICES ASSUME IInv, [Next]_vars PROVE IInv' /\ [StopHonouredStep]_vars
  OBVIOUS
<1>1. CASE UNCHANGED vars
  BY <1>1 DEF vars, IInv, Types, History, Lifetime
<1>2. CASE Next
  <2>1. CASE Write \/ WriteIgnored \/ Resolve \/ Reject \/ Bind
    BY <2>1, WriteIInv, WriteIgnoredIInv, SettleIInv, BindIInv
  <2>2. CASE ConsumerEndsSync \/ ConsumerEndsAsync
    BY <2>2, ReturnIInv, FailIInv, GoesAsyncIInv DEF ConsumerEndsSync, ConsumerEndsAsync
  <2>3. CASE ReleaseSelf \/ \E r \in Holders : DropHandle(r)
    BY <2>3, DropIInv
  <2> QED BY <1>2, <2>1, <2>2, <2>3 DEF Next
<1> QED BY <1>1, <1>2

-----------------------------------------------------------------------------
(* The graph of states.                                                     *)

\* What moves as the members do, between objects in order, is a step of the
\* table.
LEMMA MovesStep ==
    ASSUME Obj(stream), Obj(stream'), Moves(stream, stream')
    PROVE  TableStep
<1> DEFINE s == stream
           t == stream'
<1>1. /\ s.result # "pending" => t.result = s.result
      /\ s.state = "completed" => t.state = "completed"
      /\ t.state = s.state \/ Writes(s, t) \/ Settles(s, t) \/ Drains(s, t)
  BY DEF Moves
<1>2. /\ t.proxy = IF t.state = "completed" THEN t.result ELSE "pending"
      /\ t.state = "completed" => t.result # "pending" /\ ~t.consumer_is_running
      /\ s.proxy = IF s.state = "completed" THEN s.result ELSE "pending"
      /\ s.state = "completed" => s.result # "pending"
  BY DEF Obj, BeforeUpdate, Behind, Calls
<1>3. /\ t.state = "pending" => ~t.stream_has_been_written_to
      /\ t.state \in {"pending", "streaming1"} <=> t.result = "pending"
      /\ t.state = "streaming2" => ~t.buffer_is_empty
      /\ t.state # "streaming3"
  BY DEF Obj, BeforeUpdate, Table, Behind, StreamType, StreamStates
<1>4. t.state # s.state => Transition
  BY <1>1 DEF Writes, Settles, Drains, Transition, Goes, ResultIsSet
<1>5. t.state = "completed" /\ s.state # "completed" => Completion
  BY <1>1, <1>2 DEF Writes, Settles, Drains, Completion
<1>6. UpToDate
  BY <1>3 DEF UpToDate
<1>7. s.proxy # "pending" => t.proxy = s.proxy
  BY <1>1, <1>2
<1> QED BY <1>1, <1>4, <1>5, <1>6, <1>7 DEF TableStep

\* Every step moves as the members do.
LEMMA NextMoves ==
    ASSUME IInv, Next
    PROVE  Moves(stream, stream')
<1> DEFINE s == stream
<1>1. Obj(s)
  BY DEF IInv
<1>2. CASE Write
  <2>1. CASE SafePromiseStreams /\ RefusesResult(s)
    <3>1. stream' = EmplaceData(s)
      BY <1>2, <2>1 DEF Write, Leave
    <3>2. EmplaceData(s).state = s.state /\ EmplaceData(s).result = s.result
      BY <1>1, <1>2, EmplaceDataFields DEF Write
    <3> QED BY <3>1, <3>2 DEF Moves
  <2>2. CASE ~(SafePromiseStreams /\ RefusesResult(s))
    <3>1. stream' = ProcessData(SetStreamHasBeenWrittenTo(EmplaceData(s)))
      BY <1>2, <2>2 DEF Write, Leave
    <3> QED BY <1>1, <1>2, <3>1, WriteMoves DEF Write
  <2> QED BY <2>1, <2>2
<1>3. CASE WriteIgnored
  <2>1. stream' = ProcessData(s)
    BY <1>3 DEF WriteIgnored, Leave
  <2> QED BY <1>1, <2>1, ProcessDataMoves, ProcessDataObj DEF Moves
<1>4. CASE Resolve
  <2>1. stream' = SetStreamResult(s, "resolved")
    BY <1>4 DEF Resolve, Leave
  <2>2. "resolved" \in StreamResults \ {"pending"}
    BY DEF StreamResults
  <2> QED BY <1>1, <2>1, <2>2, SetStreamResultMoves, SetStreamResultObj DEF Moves
<1>5. CASE Reject
  <2>1. stream' = DoReject(s, "rejected")
    BY <1>5 DEF Reject, Leave
  <2>2. "rejected" \in StreamResults \ {"pending"}
    BY DEF StreamResults
  <2> QED BY <1>1, <2>1, <2>2, DoRejectMoves, DoRejectObj DEF Moves
<1>6. CASE Bind
  <2> DEFINE b == [s EXCEPT !.bound = TRUE]
  <2>1. stream' = ProcessData(b)
    BY <1>6 DEF Bind, Leave, SetDataCallbackAssigned
  <2>2. /\ Obj(b) /\ b.state = s.state /\ b.result = s.result
        /\ b.buffer_is_empty = s.buffer_is_empty
    BY <1>1, BindObj DEF Obj, BeforeUpdate, StreamType
  <2> HIDE DEF b
  <2> QED BY <2>1, <2>2, ProcessDataMoves, ProcessDataObj DEF Moves, Drains
<1>7. CASE \E a \in StreamActions : SyncReturn(a) \/ AsyncReturn(a)
  <2>1. PICK a \in StreamActions : stream' = AfterAction(s, a) /\ s.call # "none"
    BY <1>7 DEF SyncReturn, AsyncReturn, Leave
  <2>2. s.state # "completed"
    BY <2>1, RunningIsAlive
  <2> QED BY <1>1, <2>1, <2>2, AfterActionMoves DEF Moves
<1>8. CASE SyncFail \/ AsyncFail
  <2>1. /\ s.call # "none"
        /\ \/ stream' = AfterFailure(s)
           \/ stream' = SetAction(ConsumerEnds(s), "Stop")
    BY <1>8 DEF SyncFail, AsyncFail, Leave
  <2>2. s.state # "completed"
    BY <2>1, RunningIsAlive
  <2>3. CASE stream' = AfterFailure(s)
    BY <1>1, <2>1, <2>2, <2>3, AfterFailureMoves DEF Moves
  <2>4. CASE stream' = SetAction(ConsumerEnds(s), "Stop")
    <3>1. stream'.state = s.state /\ stream'.result = s.result
      BY <1>1, <2>4 DEF SetAction, ConsumerEnds, Obj, BeforeUpdate, StreamType
    <3> QED BY <3>1 DEF Moves
  <2> QED BY <2>1, <2>3, <2>4
<1>9. CASE GoesAsync
  <2>1. stream' = [s EXCEPT !.call = "async"]
    BY <1>9 DEF GoesAsync, Leave
  <2>2. stream'.state = s.state /\ stream'.result = s.result
    BY <1>1, <2>1 DEF Obj, BeforeUpdate, StreamType
  <2> QED BY <2>2 DEF Moves
<1>10. CASE ReleaseSelf \/ \E r \in Holders : DropHandle(r)
  BY <1>10 DEF ReleaseSelf, DropHandle, Moves
<1> QED BY <1>2, <1>3, <1>4, <1>5, <1>6, <1>7, <1>8, <1>9, <1>10
        DEF Next, ConsumerEndsSync, ConsumerEndsAsync

-----------------------------------------------------------------------------
(* Theorems.                                                                *)

\* The inductive invariant holds in every reachable state.
THEOREM Inductive == Spec => []IInv
<1>1. Init => IInv
  BY InitIInv
<1>2. IInv /\ [Next]_vars => IInv'
  BY NextIInv
<1> QED BY <1>1, <1>2, PTL DEF Spec

\* Every variable keeps its type.
THEOREM Typing == Spec => []TypeOK
<1>1. IInv => TypeOK
  BY DEF IInv, Types, Obj, BeforeUpdate, TypeOK
<1> QED BY <1>1, Inductive, PTL

\* Every change of the state is one of the table of promise_stream.md, has the
\* cause that the table names, and none that it asks for is left undone.
THEOREM TableIsFollowed == Spec => FollowsTable
<1>1. IInv /\ [Next]_vars => IInv' /\ [TableStep]_vars
  <2> SUFFICES ASSUME IInv, Next PROVE TableStep
    BY NextIInv
  <2>1. IInv'
    BY NextIInv
  <2> QED BY <2>1, NextMoves, MovesStep DEF IInv
<1> QED BY <1>1, Inductive, PTL DEF Spec, FollowsTable

\* Data reach the consumer in the order written, none twice and none skipped.
THEOREM DataInOrder == Spec => []InOrder
<1>1. IInv => InOrder
  <2> SUFFICES ASSUME IInv PROVE InOrder
    OBVIOUS
  <2> DEFINE d == stream.delivered
  <2>1. d \in Seq(Nat) /\ \A i \in 1 .. Len(d) : d[i] = i
    BY DEF IInv, Obj, BeforeUpdate, StreamType, Queue, Consecutive
  <2> HIDE DEF d
  <2>2. d = [i \in 1 .. Len(d) |-> i]
    BY <2>1
  <2> QED BY <2>2 DEF InOrder, d
<1> QED BY <1>1, Inductive, PTL

\* The promise is settled only after the consumer has returned and the data
\* written before the result have left the buffer.
THEOREM SettledAfterData == Spec => []CompletesAfterData
<1>1. IInv => CompletesAfterData
  <2> SUFFICES ASSUME IInv, stream.proxy # "pending"
               PROVE  /\ ~stream.consumer_is_running
                      /\ \A i \in DOMAIN stream.buffer : stream.buffer[i] > stream.due
    BY DEF CompletesAfterData
  <2>1. stream.state = "completed"
    BY DEF IInv, Obj, Table, Behind
  <2>2. DOMAIN stream.buffer = 1 .. Len(stream.buffer)
    BY DEF IInv, Obj, BeforeUpdate, StreamType
  <2>3. \A i \in 1 .. Len(stream.buffer) : stream.buffer[i] > stream.due
    BY <2>1 DEF IInv, Obj, BeforeUpdate, Due, Later
  <2> QED BY <2>1, <2>2, <2>3 DEF IInv, Obj, BeforeUpdate, Calls
<1> QED BY <1>1, Inductive, PTL

\* When the promise resolves, nothing written before the result is lost, unless
\* the consumer asked to stop or failed or the producer called reject().
THEOREM NothingLost == Spec => []NoDataLost
<1>1. IInv => NoDataLost
  <2> SUFFICES ASSUME IInv, stream.proxy = "resolved", ~stopped, ~reject_called
               PROVE  Len(stream.delivered) >= stream.due
    BY DEF NoDataLost
  <2> DEFINE d == stream.delivered
             b == stream.buffer
             m == stream.due
             n == stream.enqueued
  <2>1. /\ d \in Seq(Nat) /\ b \in Seq(Nat) /\ m \in Nat /\ n \in Nat /\ m <= n
        /\ n = Len(d) + Len(b)
        /\ Consecutive(d, b) /\ Later(b, m)
    BY DEF IInv, Obj, BeforeUpdate, StreamType, Queue, Due, History, Table, Behind
  <2> SUFFICES Len(d) >= m
    OBVIOUS
  <2> HIDE DEF d, b, m, n
  <2>2. Len(d) \in Nat /\ Len(b) \in Nat
    BY <2>1
  <2>3. CASE Len(b) = 0
    <3>1. n = Len(d)
      BY <2>1, <2>2, <2>3
    <3> QED BY <2>1, <2>2, <3>1
  <2>4. CASE Len(b) # 0
    <3>1. 1 \in 1 .. Len(b)
      BY <2>2, <2>4
    <3>2. b[1] = Len(d) + 1 /\ b[1] > m
      BY <2>1, <3>1 DEF Consecutive, Later
    <3>3. Len(d) + 1 > m
      BY <3>2
    <3> QED BY <2>1, <2>2, <3>3
  <2> QED BY <2>3, <2>4
<1> QED BY <1>1, Inductive, PTL

\* The buffer never stalls while the consumer is idle.
THEOREM NeverStalls == Spec => []NoStall
<1>1. IInv => NoStall
  BY DEF IInv, History, Idle, NoStall, Streaming
<1> QED BY <1>1, Inductive, PTL

\* Calls of the consumer never overlap.
THEOREM OneConsumerAtATime == Spec => []OneConsumer
<1>1. IInv => OneConsumer
  BY DEF IInv, Obj, BeforeUpdate, Calls, OneConsumer
<1> QED BY <1>1, Inductive, PTL

\* Nobody finds the object freed, and a stream with a consumer outlives its
\* completion.
THEOREM NeverUsedAfterFree == Spec => []NoUseAfterFree
<1>1. IInv => NoUseAfterFree
  <2> SUFFICES ASSUME IInv, memory # "live"
               PROVE  /\ mx = "free" /\ releasing = "nobody" /\ stream.call # "async"
                      /\ stream.bound => stream.state = "completed"
    BY DEF NoUseAfterFree
  <2>1. stream.call = "none"
    BY RunningIsAlive
  <2> QED BY <2>1 DEF IInv, Lifetime
<1> QED BY <1>1, Inductive, PTL

\* Nothing is given to the consumer once it has asked to stop or failed, and the
\* producer is told so by data_action() and is_stopping() ever after.
THEOREM StopIsHonoured == Spec => StopHonoured
<1>1. IInv /\ [Next]_vars => [StopHonouredStep]_vars
  BY NextIInv
<1> QED BY <1>1, Inductive, PTL DEF Spec, StopHonoured
=============================================================================
