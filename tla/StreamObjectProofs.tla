------------------------- MODULE StreamObjectProofs -------------------------
(***************************************************************************)
(* The invariant of a promise stream's object, and one lemma for each      *)
(* member: it preserves the invariant.  Whatever composes members, in      *)
(* whatever order, keeps it, for every number of writes.                   *)
(***************************************************************************)
EXTENDS StreamObject, TLAPS

-----------------------------------------------------------------------------
(* The invariant of the object.                                             *)

\* before update_state(): the state may be behind the other members, and is
\* never ahead of them
Behind(s) ==
    /\ s.state # "streaming3"
    /\ s.state \in {"streaming1", "streaming2"} => s.stream_has_been_written_to
    /\ s.state \in {"streaming2", "completed"} => s.result # "pending"
    /\ s.proxy = IF s.state = "completed" THEN s.result ELSE "pending"
    /\ (s.buffer_is_empty /\ s.state # "completed") => ~s.consumer_is_running

\* after it: the table of promise_stream.md
Table(s) ==
    /\ Behind(s)
    /\ s.state = "pending" => ~s.stream_has_been_written_to
    /\ s.state \in {"pending", "streaming1"} => s.result = "pending"

\* the flag of the empty buffer
Flag(s) ==
    (s.buffer_is_empty /\ s.state # "completed") => s.buffer = <<>> /\ ~s.consumer_is_running

\* the data delivered, d, are the first ones, and the buffer b goes on from there
Consecutive(d, b) ==
    /\ \A i \in 1 .. Len(d) : d[i] = i
    /\ \A i \in 1 .. Len(b) : b[i] = Len(d) + i

\* Data are delivered in order, and the buffer holds what comes next, up to the
\* last datum enqueued: unless it has been dropped, and then nothing will ever
\* be enqueued or delivered again.
Queue(s) ==
    /\ Consecutive(s.delivered, s.buffer)
    /\ Len(s.delivered) + Len(s.buffer) <= s.enqueued
    /\ \/ s.enqueued = Len(s.delivered) + Len(s.buffer)
       \/ s.action # "Continue" /\ s.call = "none" /\ s.buffer = <<>>

\* calls of the consumer
Calls(s) ==
    /\ Len(s.delivered) = s.ended + IF s.call = "none" THEN 0 ELSE 1
    /\ s.call # "none" => s.consumer_is_running
    /\ s.consumer_is_running =>
          s.bound /\ s.stream_has_been_written_to /\ s.state # "completed"

\* everything in the buffer b was written after datum n
Later(b, n) == \A i \in 1 .. Len(b) : b[i] > n

\* what was written before the result, and what is left when the stream completes
Due(s) ==
    /\ s.due <= s.enqueued
    /\ s.state = "completed" => Later(s.buffer, s.due)

\* nothing has happened to a stream that has not been written to
Fresh(s) ==
    (s.state = "pending" /\ ~s.stream_has_been_written_to) =>
        s.buffer = <<>> /\ s.delivered = <<>> /\ s.enqueued = 0

\* a stream with an idle consumer and nothing to give to it
Idle(s) ==
    (s.state \in {"streaming1", "streaming2"} /\ s.bound /\ ~s.consumer_is_running) =>
        s.buffer = <<>> /\ s.buffer_is_empty

\* what a member may hand to update_state(), and what it leaves
BeforeUpdate(s) ==
    /\ s \in StreamType
    /\ Behind(s) /\ Flag(s) /\ Queue(s) /\ Calls(s) /\ Due(s) /\ Fresh(s)

Obj(s) ==
    /\ BeforeUpdate(s)
    /\ Table(s)
    /\ s.state = "streaming2" => ~s.buffer_is_empty

\* the members that update_state() leaves alone are the same in s and t
SameData(s, t) ==
    /\ t.stream_has_been_written_to = s.stream_has_been_written_to
    /\ t.buffer_is_empty = s.buffer_is_empty
    /\ t.bound = s.bound
    /\ t.consumer_is_running = s.consumer_is_running
    /\ t.call = s.call
    /\ t.action = s.action
    /\ t.result = s.result
    /\ t.buffer = s.buffer
    /\ t.enqueued = s.enqueued
    /\ t.due = s.due
    /\ t.delivered = s.delivered
    /\ t.ended = s.ended

-----------------------------------------------------------------------------
(* The queue as a pair of sequences.                                        *)

\* Taking the first datum of the buffer keeps the data consecutive.
LEMMA TakeConsecutive ==
    ASSUME NEW d \in Seq(Nat), NEW b \in Seq(Nat), b # <<>>, Consecutive(d, b)
    PROVE  /\ Append(d, Head(b)) \in Seq(Nat) /\ Tail(b) \in Seq(Nat)
           /\ Consecutive(Append(d, Head(b)), Tail(b))
           /\ Len(Append(d, Head(b))) = Len(d) + 1
           /\ Len(Append(d, Head(b))) + Len(Tail(b)) = Len(d) + Len(b)
<1>1. /\ Head(b) = b[1] /\ 1 \in 1 .. Len(b) /\ Len(b) \in Nat \ {0} /\ Len(d) \in Nat
      /\ Tail(b) \in Seq(Nat) /\ Append(d, Head(b)) \in Seq(Nat)
      /\ Len(Tail(b)) = Len(b) - 1
      /\ Len(Append(d, Head(b))) = Len(d) + 1
      /\ \A i \in 1 .. Len(Tail(b)) : Tail(b)[i] = b[i + 1]
      /\ \A i \in 1 .. Len(d) : Append(d, Head(b))[i] = d[i]
      /\ Append(d, Head(b))[Len(d) + 1] = Head(b)
  OBVIOUS
<1>2. \A i \in 1 .. Len(Tail(b)) : i + 1 \in 1 .. Len(b)
  BY <1>1
<1> QED BY <1>1, <1>2 DEF Consecutive

\* Appending the next datum keeps them consecutive, and what is late stays late.
LEMMA AppendConsecutive ==
    ASSUME NEW d \in Seq(Nat), NEW b \in Seq(Nat), Consecutive(d, b),
           NEW n, n = Len(d) + Len(b), NEW m \in Nat, m <= n
    PROVE  /\ Append(b, n + 1) \in Seq(Nat)
           /\ Consecutive(d, Append(b, n + 1))
           /\ n + 1 = Len(d) + Len(Append(b, n + 1))
           /\ Later(b, m) => Later(Append(b, n + 1), m)
<1>1. /\ Len(b) \in Nat /\ Len(d) \in Nat /\ n \in Nat
      /\ Append(b, n + 1) \in Seq(Nat)
      /\ Len(Append(b, n + 1)) = Len(b) + 1
      /\ \A i \in 1 .. Len(b) : Append(b, n + 1)[i] = b[i]
      /\ Append(b, n + 1)[Len(b) + 1] = n + 1
  OBVIOUS
<1>2. \A i \in 1 .. Len(Append(b, n + 1)) : i \in 1 .. Len(b) \/ i = Len(b) + 1
  BY <1>1
<1>3. Consecutive(d, Append(b, n + 1))
  <2>1. /\ \A i \in 1 .. Len(d) : d[i] = i
        /\ \A i \in 1 .. Len(b) : b[i] = Len(d) + i
    BY DEF Consecutive
  <2>2. \A i \in 1 .. Len(Append(b, n + 1)) : Append(b, n + 1)[i] = Len(d) + i
    <3> TAKE i \in 1 .. Len(Append(b, n + 1))
    <3>1. CASE i \in 1 .. Len(b)
      BY <1>1, <2>1, <3>1
    <3>2. CASE i = Len(b) + 1
      <4>1. n + 1 = Len(d) + (Len(b) + 1)
        BY <1>1
      <4> QED BY <1>1, <3>2, <4>1
    <3> QED BY <1>2, <3>1, <3>2
  <2> QED BY <2>1, <2>2 DEF Consecutive
<1>4. ASSUME Later(b, m) PROVE Later(Append(b, n + 1), m)
  <2>1. \A i \in 1 .. Len(b) : b[i] > m
    BY <1>4 DEF Later
  <2>2. n + 1 > m
    BY <1>1
  <2>3. \A i \in 1 .. Len(Append(b, n + 1)) : Append(b, n + 1)[i] > m
    BY <1>1, <1>2, <2>1, <2>2
  <2> QED BY <2>3 DEF Later
<1> QED BY <1>1, <1>3, <1>4

-----------------------------------------------------------------------------
(* The members that update the state.                                       *)

\* update_state() brings the state up to the other members and changes nothing
\* else.
LEMMA UpdateStateEffect ==
    ASSUME NEW s \in StreamType, Behind(s)
    PROVE  /\ UpdateState(s) \in StreamType
           /\ SameData(s, UpdateState(s))
           /\ Table(UpdateState(s))
           /\ UpdateState(s).state = "completed" <=>
                 \/ s.state = "completed"
                 \/ /\ s.result # "pending"
                    /\ \/ s.state = "pending" /\ ~s.stream_has_been_written_to
                       \/ s.buffer_is_empty
           /\ UpdateState(s).state = "pending" <=>
                 s.state = "pending" /\ ~s.stream_has_been_written_to /\ s.result = "pending"
           /\ UpdateState(s).state = "streaming2" => ~s.buffer_is_empty
<1> DEFINE f == FurthestState(s)
           t == UpdateState(s)
<1>1. /\ f \in StreamStates \ {"streaming3"}
      /\ f = "completed" <=>
             \/ s.state = "completed"
             \/ /\ s.result # "pending"
                /\ \/ s.state = "pending" /\ ~s.stream_has_been_written_to
                   \/ s.buffer_is_empty
      /\ f = "pending" <=>
             s.state = "pending" /\ ~s.stream_has_been_written_to /\ s.result = "pending"
      /\ f = "streaming2" => ~s.buffer_is_empty
      /\ f \in {"streaming1", "streaming2"} => s.stream_has_been_written_to
      /\ f \in {"streaming2", "completed"} => s.result # "pending"
      /\ f \in {"pending", "streaming1"} => s.result = "pending"
  BY DEF StreamType, StreamStates, FurthestState, Behind
<1>2. /\ t \in StreamType
      /\ SameData(s, t)
      /\ t.state = f
      /\ t.proxy = IF f = "completed" THEN s.result ELSE "pending"
  <2>1. f \in StreamStates /\ (f # "completed" => s.proxy = "pending")
    BY <1>1 DEF Behind
  <2> HIDE DEF f
  <2> QED BY <2>1 DEF StreamType, StreamResults, UpdateState, Complete, SameData, f
<1> HIDE DEF f, t
<1>3. Behind(t)
  BY <1>1, <1>2 DEF Behind, SameData
<1>4. Table(t)
  BY <1>1, <1>2, <1>3 DEF Table, SameData
<1> QED BY <1>1, <1>2, <1>4 DEF t

\* update_state() establishes the invariant of the object.
LEMMA UpdateStateObj ==
    ASSUME NEW s, BeforeUpdate(s)
    PROVE  Obj(UpdateState(s))
<1> DEFINE t == UpdateState(s)
<1>1. s \in StreamType /\ Behind(s)
  BY DEF BeforeUpdate
<1>2. /\ t \in StreamType /\ SameData(s, t) /\ Table(t)
      /\ t.state = "completed" <=>
             \/ s.state = "completed"
             \/ /\ s.result # "pending"
                /\ \/ s.state = "pending" /\ ~s.stream_has_been_written_to
                   \/ s.buffer_is_empty
      /\ t.state = "pending" <=>
             s.state = "pending" /\ ~s.stream_has_been_written_to /\ s.result = "pending"
      /\ t.state = "streaming2" => ~s.buffer_is_empty
  BY <1>1, UpdateStateEffect
<1> HIDE DEF t
<1>3. t.state = "completed" /\ s.state # "completed" => s.buffer = <<>>
  BY <1>2 DEF BeforeUpdate, Flag, Fresh
<1>4. Flag(t)
  BY <1>2 DEF BeforeUpdate, Flag, SameData
<1>5. Queue(t)
  BY <1>2 DEF BeforeUpdate, Queue, SameData
<1>6. Calls(t)
  BY <1>2 DEF BeforeUpdate, Calls, SameData, Flag
<1>7. Due(t)
  BY <1>2, <1>3 DEF BeforeUpdate, Due, SameData, Later
<1>8. Fresh(t)
  BY <1>2 DEF BeforeUpdate, Fresh, SameData
<1> QED BY <1>2, <1>4, <1>5, <1>6, <1>7, <1>8 DEF Obj, BeforeUpdate, Table, SameData, t

\* set_stream_result() preserves the invariant of the object, and completes a
\* stream that has an idle consumer.
LEMMA SetStreamResultObj ==
    ASSUME NEW s, Obj(s), NEW r \in StreamResults \ {"pending"}
    PROVE  LET t == SetStreamResult(s, r) IN
           /\ Obj(t)
           /\ Idle(s) => Idle(t)
           /\ t.bound = s.bound /\ t.action = s.action /\ t.call = s.call
           /\ t.delivered = s.delivered
           /\ s.state = "completed" => t.state = "completed"
<1>1. CASE s.result # "pending"
  BY <1>1 DEF SetStreamResult
<1>2. CASE s.result = "pending"
  <2> DEFINE u == [s EXCEPT !.result = r, !.due = s.enqueued]
  <2>1. /\ u \in StreamType
        /\ u.result = r /\ u.due = s.enqueued
        /\ u.state = s.state /\ u.proxy = s.proxy
        /\ u.stream_has_been_written_to = s.stream_has_been_written_to
        /\ u.buffer_is_empty = s.buffer_is_empty /\ u.bound = s.bound
        /\ u.consumer_is_running = s.consumer_is_running /\ u.call = s.call
        /\ u.action = s.action /\ u.buffer = s.buffer /\ u.enqueued = s.enqueued
        /\ u.delivered = s.delivered /\ u.ended = s.ended
    BY DEF Obj, BeforeUpdate, StreamType
  <2> HIDE DEF u
  <2>2. s.state # "completed" /\ s.enqueued \in Nat
    BY <1>2 DEF Obj, Table, Behind, BeforeUpdate, StreamType
  <2>3. BeforeUpdate(u)
    <3>1. Behind(u)
      BY <2>1, <2>2 DEF Obj, BeforeUpdate, Behind
    <3>2. Flag(u) /\ Fresh(u) /\ Due(u)
      BY <2>1, <2>2 DEF Obj, BeforeUpdate, Flag, Fresh, Due
    <3>3. Queue(u)
      BY <2>1 DEF Obj, BeforeUpdate, Queue
    <3>4. Calls(u)
      BY <2>1 DEF Obj, BeforeUpdate, Calls
    <3> QED BY <2>1, <3>1, <3>2, <3>3, <3>4 DEF BeforeUpdate
  <2>4. /\ SameData(u, UpdateState(u))
        /\ u.state = "pending" /\ ~u.stream_has_been_written_to =>
              UpdateState(u).state = "completed"
    BY <2>1, <2>3, UpdateStateEffect DEF BeforeUpdate
  <2>5. Obj(UpdateState(u)) /\ SetStreamResult(s, r) = UpdateState(u)
    BY <1>2, <2>3, UpdateStateObj DEF SetStreamResult, u
  <2>6. ASSUME Idle(s) PROVE Idle(UpdateState(u))
    <3> DEFINE t == UpdateState(u)
    <3>1. t.state \in {"streaming1", "streaming2"} => t.state = "streaming2" /\ ~t.buffer_is_empty
      BY <2>1, <2>4, <2>5 DEF SameData, Obj, Table
    <3>2. s.state # "pending" \/ ~s.stream_has_been_written_to
      BY DEF Obj, Table
    <3>3. s.state \in {"pending", "streaming1", "streaming2"}
      BY <2>2 DEF Obj, BeforeUpdate, Behind, StreamType, StreamStates
    <3> HIDE DEF t
    <3> QED BY <2>1, <2>4, <2>6, <3>1, <3>2, <3>3 DEF Idle, SameData, t
  <2> QED BY <2>1, <2>2, <2>4, <2>5, <2>6 DEF SameData
<1> QED BY <1>1, <1>2

\* set_consumer_is_running(false), with the consumer's call over, preserves the
\* invariant of the object and changes no other data.
LEMMA ConsumerStopsObj ==
    ASSUME NEW s, Obj(s), s.call = "none"
    PROVE  LET t == SetConsumerIsRunning(s, FALSE) IN
           /\ Obj(t)
           /\ t.call = "none" /\ t.action = s.action /\ t.delivered = s.delivered
           /\ t.bound = s.bound /\ t.buffer = s.buffer
<1> DEFINE u == [s EXCEPT !.consumer_is_running = FALSE]
<1>1. /\ u \in StreamType
      /\ u.consumer_is_running = FALSE
      /\ u.result = s.result /\ u.due = s.due
      /\ u.state = s.state /\ u.proxy = s.proxy
      /\ u.stream_has_been_written_to = s.stream_has_been_written_to
      /\ u.buffer_is_empty = s.buffer_is_empty /\ u.bound = s.bound
      /\ u.call = s.call
      /\ u.action = s.action /\ u.buffer = s.buffer /\ u.enqueued = s.enqueued
      /\ u.delivered = s.delivered /\ u.ended = s.ended
  BY DEF Obj, BeforeUpdate, StreamType
<1>2. SetConsumerIsRunning(s, FALSE) = UpdateState(u)
  BY DEF SetConsumerIsRunning
<1> HIDE DEF u
<1>3. Behind(u)
  BY <1>1 DEF Obj, BeforeUpdate, Behind
<1>4. BeforeUpdate(u)
  <2>1. Flag(u) /\ Fresh(u) /\ Due(u)
    BY <1>1 DEF Obj, BeforeUpdate, Flag, Fresh, Due
  <2>2. Queue(u)
    BY <1>1 DEF Obj, BeforeUpdate, Queue
  <2>3. Calls(u)
    BY <1>1 DEF Obj, BeforeUpdate, Calls
  <2> QED BY <1>1, <1>3, <2>1, <2>2, <2>3 DEF BeforeUpdate
<1>5. SameData(u, UpdateState(u))
  BY <1>1, <1>3, UpdateStateEffect
<1> QED BY <1>1, <1>2, <1>4, <1>5, UpdateStateObj DEF SameData

\* set_action() to Stop preserves the invariant of the object at any time.
LEMMA StopObj ==
    ASSUME NEW s, Obj(s)
    PROVE  LET t == [s EXCEPT !.action = "Stop"] IN
           /\ Obj(t)
           /\ Idle(s) => Idle(t)
           /\ t.action = "Stop" /\ t.bound = s.bound /\ t.call = s.call
           /\ t.delivered = s.delivered /\ t.state = s.state
<1> DEFINE u == [s EXCEPT !.action = "Stop"]
<1>1. /\ u \in StreamType
      /\ u.action = "Stop"
      /\ u.result = s.result /\ u.due = s.due
      /\ u.state = s.state /\ u.proxy = s.proxy
      /\ u.stream_has_been_written_to = s.stream_has_been_written_to
      /\ u.buffer_is_empty = s.buffer_is_empty /\ u.bound = s.bound
      /\ u.consumer_is_running = s.consumer_is_running /\ u.call = s.call
      /\ u.buffer = s.buffer /\ u.enqueued = s.enqueued
      /\ u.delivered = s.delivered /\ u.ended = s.ended
  BY DEF Obj, BeforeUpdate, StreamType, StreamActions
<1> HIDE DEF u
<1>2. Table(u) /\ Behind(u)
  BY <1>1 DEF Obj, Table, Behind
<1>3. Flag(u) /\ Fresh(u) /\ Due(u) /\ Calls(u)
  BY <1>1 DEF Obj, BeforeUpdate, Flag, Fresh, Due, Calls
<1>4. Queue(u)
  BY <1>1 DEF Obj, BeforeUpdate, Queue
<1>5. Obj(u)
  BY <1>1, <1>2, <1>3, <1>4 DEF Obj, BeforeUpdate
<1> QED BY <1>1, <1>5 DEF u, Idle

\* The end of a call of the consumer, with the action it asks for, preserves the
\* invariant of the object, even when that overwrites a Stop.
LEMMA ConsumerEndsObj ==
    ASSUME NEW s, Obj(s), s.call # "none", NEW a \in StreamActions
    PROVE  LET t == [ConsumerEnds(s) EXCEPT !.action = a] IN
           /\ Obj(t)
           /\ t.call = "none" /\ t.action = a /\ t.delivered = s.delivered
           /\ t.bound = s.bound
<1> DEFINE v == ConsumerEnds(s)
           u == [v EXCEPT !.action = a]
<1>0. /\ v \in StreamType
      /\ v.call = "none" /\ v.ended = s.ended + 1
      /\ v.result = s.result /\ v.due = s.due
      /\ v.state = s.state /\ v.proxy = s.proxy
      /\ v.stream_has_been_written_to = s.stream_has_been_written_to
      /\ v.buffer_is_empty = s.buffer_is_empty /\ v.bound = s.bound
      /\ v.consumer_is_running = s.consumer_is_running
      /\ v.buffer = s.buffer /\ v.enqueued = s.enqueued
      /\ v.delivered = s.delivered
  <2>1. s \in StreamType /\ s.ended + 1 \in Nat
    BY DEF Obj, BeforeUpdate, StreamType
  <2>2. v = [[s EXCEPT !.call = "none"] EXCEPT !.ended = s.ended + 1]
    BY <2>1 DEF StreamType, ConsumerEnds
  <2>3. [s EXCEPT !.call = "none"] \in StreamType
    BY <2>1 DEF StreamType
  <2> QED BY <2>1, <2>2, <2>3 DEF StreamType
<1> HIDE DEF v
<1>1. /\ u \in StreamType
      /\ u.action = a /\ u.call = "none" /\ u.ended = s.ended + 1
      /\ u.result = s.result /\ u.due = s.due
      /\ u.state = s.state /\ u.proxy = s.proxy
      /\ u.stream_has_been_written_to = s.stream_has_been_written_to
      /\ u.buffer_is_empty = s.buffer_is_empty /\ u.bound = s.bound
      /\ u.consumer_is_running = s.consumer_is_running
      /\ u.buffer = s.buffer /\ u.enqueued = s.enqueued
      /\ u.delivered = s.delivered
  BY <1>0 DEF StreamType
<1> HIDE DEF u
<1>2. Table(u) /\ Behind(u)
  BY <1>1 DEF Obj, Table, Behind
<1>3. Flag(u) /\ Fresh(u) /\ Due(u)
  BY <1>1 DEF Obj, BeforeUpdate, Flag, Fresh, Due
<1>4. Calls(u)
  <2>1. s.ended \in Nat /\ Len(s.delivered) = s.ended + 1
    BY DEF Obj, BeforeUpdate, Calls, StreamType
  <2> QED BY <1>1, <2>1 DEF Obj, BeforeUpdate, Calls
<1>5. Queue(u)
  BY <1>1 DEF Obj, BeforeUpdate, Queue
<1>6. Obj(u)
  BY <1>1, <1>2, <1>3, <1>4, <1>5 DEF Obj, BeforeUpdate
<1> QED BY <1>1, <1>6 DEF u, v

\* The same without an action, before do_reject().
LEMMA ConsumerEndsPlainObj ==
    ASSUME NEW s, Obj(s), s.call # "none"
    PROVE  Obj(ConsumerEnds(s)) /\ ConsumerEnds(s).call = "none"
           /\ ConsumerEnds(s).delivered = s.delivered /\ ConsumerEnds(s).bound = s.bound
<1>1. s.action \in StreamActions /\ s \in StreamType
  BY DEF Obj, BeforeUpdate, StreamType
<1>2. [ConsumerEnds(s) EXCEPT !.action = s.action] = ConsumerEnds(s)
  BY <1>1 DEF StreamType, ConsumerEnds
<1> QED BY <1>1, <1>2, ConsumerEndsObj

\* on_data is set: binding preserves the invariant of the object.
LEMMA BindObj ==
    ASSUME NEW s, Obj(s)
    PROVE  LET t == [s EXCEPT !.bound = TRUE] IN
           /\ Obj(t) /\ t.bound = TRUE /\ t.delivered = s.delivered
           /\ t.action = s.action /\ t.call = s.call
<1> DEFINE u == [s EXCEPT !.bound = TRUE]
<1>1. /\ u \in StreamType
      /\ u.bound = TRUE
      /\ u.result = s.result /\ u.due = s.due
      /\ u.state = s.state /\ u.proxy = s.proxy
      /\ u.stream_has_been_written_to = s.stream_has_been_written_to
      /\ u.buffer_is_empty = s.buffer_is_empty /\ u.action = s.action
      /\ u.consumer_is_running = s.consumer_is_running /\ u.call = s.call
      /\ u.buffer = s.buffer /\ u.enqueued = s.enqueued
      /\ u.delivered = s.delivered /\ u.ended = s.ended
  BY DEF Obj, BeforeUpdate, StreamType
<1> HIDE DEF u
<1>2. Table(u) /\ Behind(u)
  BY <1>1 DEF Obj, Table, Behind
<1>3. Flag(u) /\ Fresh(u) /\ Due(u) /\ Calls(u)
  BY <1>1 DEF Obj, BeforeUpdate, Flag, Fresh, Due, Calls
<1>4. Queue(u)
  BY <1>1 DEF Obj, BeforeUpdate, Queue
<1>5. Obj(u)
  BY <1>1, <1>2, <1>3, <1>4 DEF Obj, BeforeUpdate
<1> QED BY <1>1, <1>5 DEF u

-----------------------------------------------------------------------------
(* The members that move data.                                              *)

\* set_buffer_is_empty() preserves the invariant of the object, and leaves an
\* idle consumer only with an empty buffer.
LEMMA SetBufferIsEmptyObj ==
    ASSUME NEW s, Obj(s), s.buffer = <<>>, ~s.consumer_is_running
    PROVE  LET t == SetBufferIsEmpty(s) IN
           /\ Obj(t) /\ Idle(t)
           /\ t.bound = s.bound /\ t.action = s.action /\ t.call = s.call
           /\ t.delivered = s.delivered
           /\ s.state = "completed" => t.state = "completed"
<1>1. CASE s.buffer_is_empty
  BY <1>1 DEF SetBufferIsEmpty, Idle
<1>2. CASE ~s.buffer_is_empty
  <2> DEFINE u == [s EXCEPT !.buffer_is_empty = TRUE]
  <2>1. /\ u \in StreamType
        /\ u.buffer_is_empty = TRUE
        /\ u.result = s.result /\ u.due = s.due
        /\ u.state = s.state /\ u.proxy = s.proxy
        /\ u.stream_has_been_written_to = s.stream_has_been_written_to
        /\ u.bound = s.bound /\ u.action = s.action
        /\ u.consumer_is_running = s.consumer_is_running /\ u.call = s.call
        /\ u.buffer = s.buffer /\ u.enqueued = s.enqueued
        /\ u.delivered = s.delivered /\ u.ended = s.ended
    BY DEF Obj, BeforeUpdate, StreamType
  <2>2. SetBufferIsEmpty(s) = UpdateState(u)
    BY <1>2 DEF SetBufferIsEmpty
  <2> HIDE DEF u
  <2>3. Behind(u)
    BY <2>1 DEF Obj, BeforeUpdate, Behind
  <2>4. BeforeUpdate(u)
    <3>1. Flag(u) /\ Fresh(u) /\ Due(u) /\ Calls(u)
      BY <2>1 DEF Obj, BeforeUpdate, Flag, Fresh, Due, Calls
    <3>2. Queue(u)
      BY <2>1 DEF Obj, BeforeUpdate, Queue
    <3> QED BY <2>1, <2>3, <3>1, <3>2 DEF BeforeUpdate
  <2>5. /\ SameData(u, UpdateState(u))
        /\ u.state = "completed" => UpdateState(u).state = "completed"
    BY <2>1, <2>3, UpdateStateEffect
  <2> QED BY <2>1, <2>2, <2>4, <2>5, UpdateStateObj DEF SameData, Idle
<1> QED BY <1>1, <1>2

\* take_data() with call_data_callback(): the first datum of the buffer goes to
\* the consumer, in order.
LEMMA CallDataCallbackObj ==
    ASSUME NEW s, Obj(s), MayTakeData(s), s.action = "Continue", s.buffer # <<>>
    PROVE  LET t == CallDataCallback([s EXCEPT !.buffer = Tail(s.buffer)], Head(s.buffer)) IN
           /\ Obj(t) /\ Idle(t)
           /\ t.bound = s.bound /\ t.action = s.action
<1> DEFINE u == [s EXCEPT !.buffer = Tail(s.buffer)]
           v == [u EXCEPT !.call = "sync", !.delivered = Append(u.delivered, Head(s.buffer))]
           w == [v EXCEPT !.consumer_is_running = TRUE]
<1>1. /\ s \in StreamType /\ s.buffer \in Seq(Nat) /\ s.delivered \in Seq(Nat)
      /\ s.state \in {"streaming1", "streaming2"} /\ s.bound /\ ~s.consumer_is_running
      /\ s.call = "none" /\ ~s.buffer_is_empty /\ s.stream_has_been_written_to
      /\ s.ended \in Nat /\ Len(s.delivered) = s.ended
  BY DEF Obj, BeforeUpdate, StreamType, MayTakeData, Calls, Flag, Behind
<1>2. /\ Tail(s.buffer) \in Seq(Nat)
      /\ Append(s.delivered, Head(s.buffer)) \in Seq(Nat)
      /\ Consecutive(Append(s.delivered, Head(s.buffer)), Tail(s.buffer))
      /\ Len(Append(s.delivered, Head(s.buffer))) = Len(s.delivered) + 1
      /\ Len(Append(s.delivered, Head(s.buffer))) + Len(Tail(s.buffer))
            = Len(s.delivered) + Len(s.buffer)
  BY <1>1, TakeConsecutive DEF Obj, BeforeUpdate, Queue
<1>3. /\ u \in StreamType
      /\ u.buffer = Tail(s.buffer)
      /\ u.result = s.result /\ u.due = s.due
      /\ u.state = s.state /\ u.proxy = s.proxy
      /\ u.stream_has_been_written_to = s.stream_has_been_written_to
      /\ u.buffer_is_empty = s.buffer_is_empty /\ u.bound = s.bound /\ u.action = s.action
      /\ u.consumer_is_running = s.consumer_is_running /\ u.call = s.call
      /\ u.enqueued = s.enqueued /\ u.delivered = s.delivered /\ u.ended = s.ended
  BY <1>1, <1>2 DEF StreamType
<1> HIDE DEF u
<1>4. /\ v \in StreamType
      /\ v.buffer = Tail(s.buffer) /\ v.call = "sync"
      /\ v.delivered = Append(s.delivered, Head(s.buffer))
      /\ v.result = s.result /\ v.due = s.due
      /\ v.state = s.state /\ v.proxy = s.proxy
      /\ v.stream_has_been_written_to = s.stream_has_been_written_to
      /\ v.buffer_is_empty = s.buffer_is_empty /\ v.bound = s.bound /\ v.action = s.action
      /\ v.consumer_is_running = s.consumer_is_running
      /\ v.enqueued = s.enqueued /\ v.ended = s.ended
  <2> DEFINE x == [u EXCEPT !.call = "sync"]
  <2>1. /\ x \in StreamType
        /\ x.buffer = Tail(s.buffer) /\ x.call = "sync" /\ x.delivered = u.delivered
        /\ x.result = s.result /\ x.due = s.due
        /\ x.state = s.state /\ x.proxy = s.proxy
        /\ x.stream_has_been_written_to = s.stream_has_been_written_to
        /\ x.buffer_is_empty = s.buffer_is_empty /\ x.bound = s.bound /\ x.action = s.action
        /\ x.consumer_is_running = s.consumer_is_running
        /\ x.enqueued = s.enqueued /\ x.ended = s.ended
    BY <1>3 DEF StreamType
  <2>2. v = [x EXCEPT !.delivered = Append(u.delivered, Head(s.buffer))]
    BY <1>3 DEF StreamType
  <2>3. Append(u.delivered, Head(s.buffer)) = Append(s.delivered, Head(s.buffer))
    BY <1>3
  <2> HIDE DEF x, v
  <2> QED BY <1>2, <2>1, <2>2, <2>3 DEF StreamType
<1> HIDE DEF v
<1>5. /\ w \in StreamType
      /\ w.buffer = Tail(s.buffer) /\ w.call = "sync" /\ w.consumer_is_running
      /\ w.delivered = Append(s.delivered, Head(s.buffer))
      /\ w.result = s.result /\ w.due = s.due
      /\ w.state = s.state /\ w.proxy = s.proxy
      /\ w.stream_has_been_written_to = s.stream_has_been_written_to
      /\ w.buffer_is_empty = s.buffer_is_empty /\ w.bound = s.bound /\ w.action = s.action
      /\ w.enqueued = s.enqueued /\ w.ended = s.ended
  BY <1>4 DEF StreamType
<1>6. CallDataCallback(u, Head(s.buffer)) = UpdateState(w)
  BY DEF CallDataCallback, SetConsumerIsRunning, v
<1> HIDE DEF w
<1>7. Behind(w)
  BY <1>1, <1>5 DEF Obj, BeforeUpdate, Behind
<1>8. Queue(w)
  <2>1. s.enqueued = Len(s.delivered) + Len(s.buffer)
    BY DEF Obj, BeforeUpdate, Queue
  <2>2. w.enqueued = Len(w.delivered) + Len(w.buffer)
    BY <1>2, <1>5, <2>1
  <2> QED BY <1>2, <1>5, <2>2 DEF Queue
<1>9. BeforeUpdate(w)
  <2>1. Flag(w) /\ Fresh(w)
    BY <1>1, <1>5 DEF Flag, Fresh
  <2>2. Due(w)
    BY <1>1, <1>5 DEF Due, Obj, BeforeUpdate
  <2>3. Calls(w)
    BY <1>1, <1>2, <1>5 DEF Calls
  <2> QED BY <1>5, <1>7, <1>8, <2>1, <2>2, <2>3 DEF BeforeUpdate
<1>10. SameData(w, UpdateState(w))
  BY <1>5, <1>7, UpdateStateEffect
<1> QED BY <1>5, <1>6, <1>9, <1>10, UpdateStateObj DEF SameData, Idle, u

\* process_data() preserves the invariant of the object, leaves an idle consumer
\* only with an empty buffer, and calls no consumer that has asked to stop.
LEMMA ProcessDataObj ==
    ASSUME NEW s, Obj(s)
    PROVE  LET t == ProcessData(s) IN
           /\ Obj(t) /\ Idle(t)
           /\ t.bound = s.bound /\ t.action = s.action
           /\ s.state = "completed" => t.state = "completed"
           /\ s.action # "Continue" => t.delivered = s.delivered /\ t.call = s.call
<1>1. CASE ~MayTakeData(s)
  BY <1>1 DEF ProcessData, MayTakeData, Idle
<1>2. CASE MayTakeData(s) /\ (s.action # "Continue" \/ s.buffer = <<>>)
  <2> DEFINE u == [s EXCEPT !.buffer = <<>>]
  <2>0. s \in StreamType /\ ~s.consumer_is_running /\ s.call = "none"
    BY <1>2 DEF MayTakeData, Obj, BeforeUpdate, Calls, StreamType
  <2>1. /\ u \in StreamType
        /\ u.buffer = <<>>
        /\ u.result = s.result /\ u.due = s.due
        /\ u.state = s.state /\ u.proxy = s.proxy
        /\ u.stream_has_been_written_to = s.stream_has_been_written_to
        /\ u.buffer_is_empty = s.buffer_is_empty /\ u.bound = s.bound /\ u.action = s.action
        /\ u.consumer_is_running = s.consumer_is_running /\ u.call = s.call
        /\ u.enqueued = s.enqueued /\ u.delivered = s.delivered /\ u.ended = s.ended
    <3>1. <<>> \in Seq(Nat)
      OBVIOUS
    <3> QED BY <2>0, <3>1 DEF StreamType
  <2>2. ProcessData(s) = SetBufferIsEmpty(u)
    BY <1>2 DEF ProcessData
  <2> HIDE DEF u
  <2>3. Table(u) /\ Behind(u)
    BY <2>1 DEF Obj, Table, Behind
  <2>4. Flag(u) /\ Fresh(u) /\ Calls(u)
    BY <2>1 DEF Obj, BeforeUpdate, Flag, Fresh, Calls
  <2>5. Due(u)
    BY <2>1 DEF Obj, BeforeUpdate, Due, Later
  <2>6. Queue(u)
    <3>1. /\ Consecutive(s.delivered, s.buffer) /\ Len(s.delivered) \in Nat
          /\ Len(s.delivered) + Len(<<>>) <= s.enqueued
          /\ s.enqueued = Len(s.delivered) + Len(s.buffer) \/ s.action # "Continue"
      BY <2>0 DEF Obj, BeforeUpdate, Queue, StreamType
    <3>2. Consecutive(s.delivered, <<>>)
      BY <3>1 DEF Consecutive
    <3>3. CASE s.action # "Continue"
      BY <2>0, <2>1, <3>1, <3>2, <3>3 DEF Queue
    <3>4. CASE s.action = "Continue"
      BY <1>2, <2>1, <3>1, <3>2, <3>4 DEF Queue
    <3> QED BY <3>3, <3>4
  <2>7. Obj(u)
    BY <2>1, <2>3, <2>4, <2>5, <2>6 DEF Obj, BeforeUpdate
  <2> QED BY <1>2, <2>0, <2>1, <2>2, <2>7, SetBufferIsEmptyObj
<1>3. CASE MayTakeData(s) /\ s.action = "Continue" /\ s.buffer # <<>>
  <2>1. ProcessData(s) = CallDataCallback([s EXCEPT !.buffer = Tail(s.buffer)], Head(s.buffer))
    BY <1>3 DEF ProcessData
  <2>2. s.state # "completed"
    BY <1>3 DEF MayTakeData
  <2> QED BY <1>3, <2>1, <2>2, CallDataCallbackObj
<1> QED BY <1>1, <1>2, <1>3

\* emplace_data() puts the next datum behind the others.
LEMMA EmplaceDataFields ==
    ASSUME NEW s, Obj(s), s.action = "Continue"
    PROVE  LET u == EmplaceData(s) IN
           /\ u \in StreamType
           /\ u.result = s.result /\ u.due = s.due
           /\ u.state = s.state /\ u.proxy = s.proxy
           /\ u.stream_has_been_written_to = s.stream_has_been_written_to
           /\ u.buffer_is_empty = s.buffer_is_empty /\ u.bound = s.bound /\ u.action = s.action
           /\ u.consumer_is_running = s.consumer_is_running /\ u.call = s.call
           /\ u.delivered = s.delivered /\ u.ended = s.ended
           /\ Queue(u) /\ Due(u)
<1> DEFINE n == s.enqueued
           m == s.due
           d == s.delivered
           c == s.buffer
           b == Append(c, n + 1)
           x == [s EXCEPT !.buffer = b]
           u == [x EXCEPT !.enqueued = n + 1]
<1>1. /\ s \in StreamType /\ c \in Seq(Nat) /\ d \in Seq(Nat)
      /\ n \in Nat /\ m \in Nat /\ m <= n
      /\ Consecutive(d, c)
      /\ n = Len(d) + Len(c)
      /\ s.state = "completed" => Later(c, m)
  BY DEF Obj, BeforeUpdate, Queue, Due, StreamType
<1>2. EmplaceData(s) = u
  BY <1>1 DEF EmplaceData, StreamType
<1> HIDE DEF n, m, d, c
<1>0. n \in Nat /\ m \in Nat /\ m <= n
  BY <1>1
<1>3. /\ b \in Seq(Nat) /\ Consecutive(d, b)
      /\ n + 1 = Len(d) + Len(b)
      /\ s.state = "completed" => Later(b, m)
  BY <1>1, AppendConsecutive
<1>4. n + 1 \in Nat /\ m <= n + 1
  BY <1>0
<1> HIDE DEF b
<1>5. /\ x \in StreamType /\ x.buffer = b
      /\ x.result = s.result /\ x.due = s.due
      /\ x.state = s.state /\ x.proxy = s.proxy
      /\ x.stream_has_been_written_to = s.stream_has_been_written_to
      /\ x.buffer_is_empty = s.buffer_is_empty /\ x.bound = s.bound /\ x.action = s.action
      /\ x.consumer_is_running = s.consumer_is_running /\ x.call = s.call
      /\ x.delivered = s.delivered /\ x.ended = s.ended
  BY <1>1, <1>3 DEF StreamType
<1> HIDE DEF x
<1>6. /\ u \in StreamType /\ u.buffer = b /\ u.enqueued = n + 1
      /\ u.result = s.result /\ u.due = s.due
      /\ u.state = s.state /\ u.proxy = s.proxy
      /\ u.stream_has_been_written_to = s.stream_has_been_written_to
      /\ u.buffer_is_empty = s.buffer_is_empty /\ u.bound = s.bound /\ u.action = s.action
      /\ u.consumer_is_running = s.consumer_is_running /\ u.call = s.call
      /\ u.delivered = s.delivered /\ u.ended = s.ended
  BY <1>4, <1>5 DEF StreamType
<1> HIDE DEF u
<1>7. Queue(u)
  BY <1>3, <1>6 DEF Queue, d
<1>8. Due(u)
  BY <1>3, <1>4, <1>6 DEF Due, m
<1> QED BY <1>2, <1>6, <1>7, <1>8

\* A write that is refused leaves its datum behind and does no other harm: the
\* flag of the empty buffer was down.
LEMMA RefusedWriteObj ==
    ASSUME NEW s, Obj(s), s.action = "Continue", RefusesResult(s)
    PROVE  Obj(EmplaceData(s))
<1> DEFINE u == EmplaceData(s)
<1>1. /\ u \in StreamType
      /\ u.result = s.result /\ u.due = s.due
      /\ u.state = s.state /\ u.proxy = s.proxy
      /\ u.stream_has_been_written_to = s.stream_has_been_written_to
      /\ u.buffer_is_empty = s.buffer_is_empty /\ u.bound = s.bound /\ u.action = s.action
      /\ u.consumer_is_running = s.consumer_is_running /\ u.call = s.call
      /\ u.delivered = s.delivered /\ u.ended = s.ended
      /\ Queue(u) /\ Due(u)
  BY EmplaceDataFields
<1> HIDE DEF u
<1>2. s.state \in {"streaming2", "completed"}
  BY DEF RefusesResult, Obj, BeforeUpdate, Table, Behind, StreamType, StreamStates
<1>3. Table(u) /\ Behind(u)
  BY <1>1 DEF Obj, Table, Behind
<1>4. Flag(u) /\ Fresh(u)
  BY <1>1, <1>2 DEF Obj, Flag, Fresh
<1>5. Calls(u)
  BY <1>1 DEF Obj, BeforeUpdate, Calls
<1>6. Obj(u)
  BY <1>1, <1>2, <1>3, <1>4, <1>5 DEF Obj, BeforeUpdate
<1> QED BY <1>6 DEF u

\* An accepted write preserves the invariant of the object.
LEMMA AcceptedWriteObj ==
    ASSUME NEW s, Obj(s), s.action = "Continue"
    PROVE  LET t == SetStreamHasBeenWrittenTo(EmplaceData(s)) IN
           /\ Obj(t)
           /\ t.bound = s.bound /\ t.action = s.action
           /\ s.state = "completed" => t.state = "completed"
<1> DEFINE v == EmplaceData(s)
           x == [v EXCEPT !.stream_has_been_written_to = TRUE]
           u == [x EXCEPT !.buffer_is_empty = FALSE]
<1>1. /\ v \in StreamType
      /\ v.result = s.result /\ v.due = s.due
      /\ v.state = s.state /\ v.proxy = s.proxy
      /\ v.bound = s.bound /\ v.action = s.action
      /\ v.consumer_is_running = s.consumer_is_running /\ v.call = s.call
      /\ v.delivered = s.delivered /\ v.ended = s.ended
      /\ Queue(v) /\ Due(v)
  BY EmplaceDataFields
<1> HIDE DEF v
<1>2. /\ x \in StreamType
      /\ x.stream_has_been_written_to = TRUE
      /\ x.result = v.result /\ x.due = v.due
      /\ x.state = v.state /\ x.proxy = v.proxy
      /\ x.bound = v.bound /\ x.action = v.action
      /\ x.consumer_is_running = v.consumer_is_running /\ x.call = v.call
      /\ x.delivered = v.delivered /\ x.ended = v.ended
      /\ x.buffer = v.buffer /\ x.enqueued = v.enqueued
  BY <1>1 DEF StreamType
<1>3. SetStreamHasBeenWrittenTo(v) = UpdateState(u)
  BY <1>1 DEF SetStreamHasBeenWrittenTo, StreamType
<1> HIDE DEF x
<1>4. /\ u \in StreamType
      /\ u.stream_has_been_written_to = TRUE /\ u.buffer_is_empty = FALSE
      /\ u.result = v.result /\ u.due = v.due
      /\ u.state = v.state /\ u.proxy = v.proxy
      /\ u.bound = v.bound /\ u.action = v.action
      /\ u.consumer_is_running = v.consumer_is_running /\ u.call = v.call
      /\ u.delivered = v.delivered /\ u.ended = v.ended
      /\ u.buffer = v.buffer /\ u.enqueued = v.enqueued
  BY <1>2 DEF StreamType
<1> HIDE DEF u
<1>5. Behind(u)
  BY <1>1, <1>4 DEF Obj, BeforeUpdate, Behind
<1>6. Flag(u) /\ Fresh(u)
  BY <1>4 DEF Flag, Fresh
<1>7. Queue(u)
  BY <1>1, <1>4 DEF Queue
<1>8. Due(u)
  BY <1>1, <1>4 DEF Due
<1>9. Calls(u)
  BY <1>1, <1>4 DEF Obj, BeforeUpdate, Calls
<1>10. BeforeUpdate(u)
  BY <1>4, <1>5, <1>6, <1>7, <1>8, <1>9 DEF BeforeUpdate
<1>11. /\ SameData(u, UpdateState(u))
       /\ u.state = "completed" => UpdateState(u).state = "completed"
  BY <1>4, <1>5, UpdateStateEffect
<1> QED BY <1>1, <1>3, <1>4, <1>10, <1>11, UpdateStateObj DEF SameData, v

\* reject() and the failure of a consumer: do_reject() preserves the invariant
\* of the object.
LEMMA DoRejectObj ==
    ASSUME NEW s, Obj(s), NEW r \in StreamResults \ {"pending"}
    PROVE  LET t == DoReject(s, r) IN
           /\ Obj(t)
           /\ Idle(s) => Idle(t)
           /\ t.bound = s.bound /\ t.action = "Stop" /\ t.call = s.call
           /\ t.delivered = s.delivered
           /\ s.state = "completed" => t.state = "completed"
<1> DEFINE u == [s EXCEPT !.action = "Stop"]
<1>1. /\ Obj(u) /\ (Idle(s) => Idle(u))
      /\ u.action = "Stop" /\ u.bound = s.bound /\ u.call = s.call
      /\ u.delivered = s.delivered /\ u.state = s.state
  BY StopObj
<1>2. DoReject(s, r) = SetStreamResult(u, r)
  BY DEF DoReject, SetAction
<1> HIDE DEF u
<1> QED BY <1>1, <1>2, SetStreamResultObj

\* The continuation of a consumer that returned: the invariant of the object
\* holds, and a consumer that asked to stop is not called again.
LEMMA AfterActionObj ==
    ASSUME NEW s, Obj(s), s.call # "none", NEW a \in StreamActions
    PROVE  LET t == AfterAction(s, a) IN
           /\ Obj(t) /\ Idle(t)
           /\ t.bound = s.bound /\ t.action = a
           /\ a # "Continue" => t.delivered = s.delivered /\ t.call = "none"
<1> DEFINE u == [ConsumerEnds(s) EXCEPT !.action = a]
           v == SetConsumerIsRunning(u, FALSE)
<1>1. Obj(u) /\ u.call = "none" /\ u.action = a /\ u.delivered = s.delivered /\ u.bound = s.bound
  BY ConsumerEndsObj
<1> HIDE DEF u
<1>2. Obj(v) /\ v.call = "none" /\ v.action = a /\ v.delivered = s.delivered /\ v.bound = s.bound
  BY <1>1, ConsumerStopsObj
<1> HIDE DEF v
<1>3. AfterAction(s, a) = ProcessData(v)
  BY DEF AfterAction, u, v, SetAction
<1> QED BY <1>2, <1>3, ProcessDataObj

\* The continuation of a consumer that failed, where the failure is stored.
LEMMA AfterFailureObj ==
    ASSUME NEW s, Obj(s), s.call # "none"
    PROVE  LET t == AfterFailure(s) IN
           /\ Obj(t) /\ t.bound = s.bound /\ t.action = "Stop" /\ t.call = "none"
           /\ t.delivered = s.delivered
<1> DEFINE u == ConsumerEnds(s)
           v == DoReject(u, "consumer_failed")
<1>1. Obj(u) /\ u.call = "none" /\ u.delivered = s.delivered /\ u.bound = s.bound
  BY ConsumerEndsPlainObj
<1> HIDE DEF u
<1>2. "consumer_failed" \in StreamResults \ {"pending"}
  BY DEF StreamResults
<1>3. /\ Obj(v) /\ v.call = "none" /\ v.action = "Stop" /\ v.delivered = s.delivered
      /\ v.bound = s.bound
  BY <1>1, <1>2, DoRejectObj
<1> HIDE DEF v
<1>4. AfterFailure(s) = SetConsumerIsRunning(v, FALSE)
  BY DEF AfterFailure, u, v
<1> QED BY <1>3, <1>4, ConsumerStopsObj

\* Going asynchronous changes how the running call was left, and nothing else.
LEMMA GoesAsyncObj ==
    ASSUME NEW s, Obj(s), s.call = "sync"
    PROVE  LET t == [s EXCEPT !.call = "async"] IN
           /\ Obj(t) /\ t.call = "async"
           /\ Idle(s) => Idle(t)
           /\ t.bound = s.bound /\ t.action = s.action
           /\ t.delivered = s.delivered /\ t.state = s.state
<1> DEFINE u == [s EXCEPT !.call = "async"]
<1>1. /\ u \in StreamType
      /\ u.action = s.action /\ u.call = "async"
      /\ u.result = s.result /\ u.due = s.due
      /\ u.state = s.state /\ u.proxy = s.proxy
      /\ u.stream_has_been_written_to = s.stream_has_been_written_to
      /\ u.buffer_is_empty = s.buffer_is_empty /\ u.bound = s.bound
      /\ u.consumer_is_running = s.consumer_is_running
      /\ u.buffer = s.buffer /\ u.enqueued = s.enqueued
      /\ u.delivered = s.delivered /\ u.ended = s.ended
  BY DEF Obj, BeforeUpdate, StreamType
<1> HIDE DEF u
<1>2. Table(u) /\ Behind(u)
  BY <1>1 DEF Obj, Table, Behind
<1>3. Flag(u) /\ Fresh(u) /\ Due(u) /\ Calls(u)
  BY <1>1 DEF Obj, BeforeUpdate, Flag, Fresh, Due, Calls
<1>4. Queue(u)
  BY <1>1 DEF Obj, BeforeUpdate, Queue
<1>5. Obj(u)
  BY <1>1, <1>2, <1>3, <1>4 DEF Obj, BeforeUpdate
<1> QED BY <1>1, <1>5 DEF u, Idle

\* The initial object satisfies its invariant.
LEMMA InitialObj == Obj(InitialStream) /\ Idle(InitialStream)
<1>1. <<>> \in Seq(Nat) /\ Len(<<>>) = 0
  OBVIOUS
<1>2. InitialStream \in StreamType
  BY <1>1 DEF InitialStream, StreamType, StreamStates, StreamActions, StreamResults
<1>3. Consecutive(<<>>, <<>>) /\ Later(<<>>, 0)
  BY <1>1 DEF Consecutive, Later
<1>4. Table(InitialStream) /\ Behind(InitialStream) /\ Flag(InitialStream) /\ Fresh(InitialStream)
  BY DEF InitialStream, Table, Behind, Flag, Fresh
<1>5. Queue(InitialStream) /\ Calls(InitialStream) /\ Due(InitialStream)
  BY <1>1, <1>3 DEF InitialStream, Queue, Calls, Due
<1> QED BY <1>2, <1>4, <1>5 DEF Obj, BeforeUpdate, InitialStream, Idle

-----------------------------------------------------------------------------
(* What the members leave alone.                                            *)

\* Everything that only a settlement, a write or the end of a call changes.
SameResult(s, t) ==
    t.result = s.result /\ t.due = s.due /\ t.enqueued = s.enqueued /\ t.action = s.action

\* A member has called the consumer with one more datum, or has not.
Gives(s, t) ==
    \/ t.call = s.call /\ t.delivered = s.delivered
    \/ /\ s.call = "none" /\ t.call = "sync"
       /\ Len(t.delivered) = Len(s.delivered) + 1

\* update_state() changes the state and the proxy at most.
LEMMA UpdateStateKeeps ==
    ASSUME NEW s \in StreamType PROVE SameData(s, UpdateState(s))
<1> DEFINE f == FurthestState(s)
<1>1. UpdateState(s) = [s EXCEPT !.state = "completed", !.proxy = s.result]
         \/ UpdateState(s) = [s EXCEPT !.state = f]
  BY DEF UpdateState, Complete
<1> HIDE DEF f
<1> QED BY <1>1 DEF StreamType, SameData

\* process_data() settles nothing, and calls the consumer once at most.
LEMMA ProcessDataGives ==
    ASSUME NEW s, Obj(s)
    PROVE  LET t == ProcessData(s) IN SameResult(s, t) /\ Gives(s, t)
<1>0. s \in StreamType /\ (MayTakeData(s) => s.call = "none")
  BY DEF Obj, BeforeUpdate, Calls, MayTakeData
<1>1. CASE ~MayTakeData(s)
  BY <1>1 DEF ProcessData, SameResult, Gives
<1> DEFINE kept == IF s.action = "Continue" THEN s.buffer ELSE <<>>
           u == [s EXCEPT !.buffer = <<>>]
           v == [u EXCEPT !.buffer_is_empty = TRUE]
<1>2. CASE MayTakeData(s) /\ kept = <<>>
  <2>1. ProcessData(s) = SetBufferIsEmpty(u)
    BY <1>2 DEF ProcessData
  <2>2. /\ u \in StreamType /\ SameResult(s, u) /\ u.call = s.call /\ u.delivered = s.delivered
        /\ v \in StreamType /\ SameResult(s, v) /\ v.call = s.call /\ v.delivered = s.delivered
    <3>1. <<>> \in Seq(Nat)
      OBVIOUS
    <3> QED BY <1>0, <3>1 DEF StreamType, SameResult
  <2> HIDE DEF u
  <2>3. SetBufferIsEmpty(u) \in {u, UpdateState(v)}
    BY DEF SetBufferIsEmpty
  <2> HIDE DEF v
  <2> QED BY <2>1, <2>2, <2>3, UpdateStateKeeps DEF SameResult, Gives, SameData
<1>3. CASE MayTakeData(s) /\ kept # <<>>
  <2> DEFINE w == [s EXCEPT !.buffer = Tail(s.buffer)]
             x == [w EXCEPT !.call = "sync", !.delivered = Append(w.delivered, Head(s.buffer))]
             y == [x EXCEPT !.consumer_is_running = TRUE]
  <2>1. ProcessData(s) = CallDataCallback(w, Head(s.buffer)) /\ s.buffer # <<>>
    BY <1>3 DEF ProcessData
  <2>2. /\ Tail(s.buffer) \in Seq(Nat) /\ Append(s.delivered, Head(s.buffer)) \in Seq(Nat)
        /\ Len(Append(s.delivered, Head(s.buffer))) = Len(s.delivered) + 1
    BY <1>0, <2>1 DEF StreamType
  <2>3. w \in StreamType /\ SameResult(s, w) /\ w.delivered = s.delivered
    BY <1>0, <2>2 DEF StreamType, SameResult
  <2>4. CallDataCallback(w, Head(s.buffer)) = UpdateState(y)
    BY <2>3 DEF CallDataCallback, SetConsumerIsRunning, StreamType
  <2> HIDE DEF w
  <2>5. /\ x \in StreamType /\ SameResult(s, x) /\ x.call = "sync"
        /\ x.delivered = Append(s.delivered, Head(s.buffer))
    BY <2>2, <2>3 DEF StreamType, SameResult
  <2> HIDE DEF x
  <2>6. /\ y \in StreamType /\ SameResult(s, y) /\ y.call = "sync" /\ y.delivered = x.delivered
    BY <2>5 DEF StreamType, SameResult
  <2> HIDE DEF y
  <2>7. SameData(y, UpdateState(y))
    BY <2>6, UpdateStateKeeps
  <2> QED BY <1>0, <1>3, <2>1, <2>2, <2>4, <2>5, <2>6, <2>7 DEF SameResult, Gives, SameData
<1> QED BY <1>1, <1>2, <1>3

\* An accepted write enqueues one datum, and gives one at most.
LEMMA WriteGives ==
    ASSUME NEW s, Obj(s), s.action = "Continue"
    PROVE  LET t == ProcessData(SetStreamHasBeenWrittenTo(EmplaceData(s))) IN
           /\ t.result = s.result /\ t.due = s.due /\ t.action = s.action
           /\ t.enqueued = s.enqueued + 1
           /\ Gives(s, t)
<1> DEFINE v == EmplaceData(s)
           u == [v EXCEPT !.stream_has_been_written_to = TRUE, !.buffer_is_empty = FALSE]
           w == SetStreamHasBeenWrittenTo(v)
<1>1. /\ v \in StreamType /\ v.result = s.result /\ v.due = s.due /\ v.action = s.action
      /\ v.call = s.call /\ v.delivered = s.delivered
  BY EmplaceDataFields
<1>2. v.enqueued = s.enqueued + 1
  BY DEF EmplaceData, Obj, BeforeUpdate, StreamType
<1>3. w = UpdateState(u)
  BY DEF SetStreamHasBeenWrittenTo
<1> HIDE DEF v
<1>4. /\ u \in StreamType /\ u.result = v.result /\ u.due = v.due /\ u.action = v.action
      /\ u.call = v.call /\ u.delivered = v.delivered /\ u.enqueued = v.enqueued
  BY <1>1 DEF StreamType
<1> HIDE DEF u
<1>5. SameData(u, w)
  BY <1>3, <1>4, UpdateStateKeeps
<1>6. Obj(w)
  BY AcceptedWriteObj DEF v
<1> HIDE DEF w
<1>7. SameResult(w, ProcessData(w)) /\ Gives(w, ProcessData(w))
  BY <1>6, ProcessDataGives
<1> QED BY <1>1, <1>2, <1>4, <1>5, <1>7 DEF SameResult, Gives, SameData, w, v

\* A settlement changes the result when there was none, and nothing but that.
LEMMA SetStreamResultSettles ==
    ASSUME NEW s, Obj(s), NEW r \in StreamResults \ {"pending"}
    PROVE  LET t == SetStreamResult(s, r) IN
           /\ t.result = IF s.result = "pending" THEN r ELSE s.result
           /\ t.due = IF s.result = "pending" THEN s.enqueued ELSE s.due
           /\ t.enqueued = s.enqueued
<1> DEFINE u == [s EXCEPT !.result = r, !.due = s.enqueued]
<1>1. CASE s.result # "pending"
  BY <1>1 DEF SetStreamResult
<1>2. CASE s.result = "pending"
  <2>1. u \in StreamType /\ u.result = r /\ u.due = s.enqueued /\ u.enqueued = s.enqueued
    BY DEF Obj, BeforeUpdate, StreamType
  <2>2. SetStreamResult(s, r) = UpdateState(u)
    BY <1>2 DEF SetStreamResult
  <2> HIDE DEF u
  <2> QED BY <1>2, <2>1, <2>2, UpdateStateKeeps DEF SameData
<1> QED BY <1>1, <1>2

LEMMA DoRejectSettles ==
    ASSUME NEW s, Obj(s), NEW r \in StreamResults \ {"pending"}
    PROVE  LET t == DoReject(s, r) IN
           /\ t.result = IF s.result = "pending" THEN r ELSE s.result
           /\ t.due = IF s.result = "pending" THEN s.enqueued ELSE s.due
           /\ t.enqueued = s.enqueued
<1> DEFINE u == [s EXCEPT !.action = "Stop"]
<1>1. Obj(u) /\ u.result = s.result /\ u.due = s.due /\ u.enqueued = s.enqueued
  BY StopObj DEF Obj, BeforeUpdate, StreamType
<1>2. DoReject(s, r) = SetStreamResult(u, r)
  BY DEF DoReject, SetAction
<1> HIDE DEF u
<1> QED BY <1>1, <1>2, SetStreamResultSettles

\* set_consumer_is_running() changes nothing else but the state.
LEMMA SetConsumerIsRunningKeeps ==
    ASSUME NEW s, Obj(s), NEW b \in BOOLEAN
    PROVE  SameResult(s, SetConsumerIsRunning(s, b))
<1> DEFINE u == [s EXCEPT !.consumer_is_running = b]
<1>1. u \in StreamType /\ SameResult(s, u)
  BY DEF Obj, BeforeUpdate, StreamType, SameResult
<1>2. SetConsumerIsRunning(s, b) = UpdateState(u)
  BY DEF SetConsumerIsRunning
<1> HIDE DEF u
<1> QED BY <1>1, <1>2, UpdateStateKeeps DEF SameData, SameResult

\* The end of a call settles nothing, and the next datum is given at once.
LEMMA AfterActionGives ==
    ASSUME NEW s, Obj(s), s.call # "none", NEW a \in StreamActions
    PROVE  LET t == AfterAction(s, a) IN
           /\ t.result = s.result /\ t.due = s.due /\ t.enqueued = s.enqueued
           /\ \/ t.call = "none" /\ t.delivered = s.delivered
              \/ t.call = "sync" /\ Len(t.delivered) = Len(s.delivered) + 1
<1> DEFINE u == [ConsumerEnds(s) EXCEPT !.action = a]
           v == SetConsumerIsRunning(u, FALSE)
<1>1. Obj(u) /\ u.call = "none" /\ u.action = a /\ u.delivered = s.delivered
  BY ConsumerEndsObj
<1>2. u.result = s.result /\ u.due = s.due /\ u.enqueued = s.enqueued
  BY DEF ConsumerEnds, Obj, BeforeUpdate, StreamType
<1> HIDE DEF u
<1>3. Obj(v) /\ v.call = "none" /\ v.delivered = u.delivered /\ SameResult(u, v)
  BY <1>1, ConsumerStopsObj, SetConsumerIsRunningKeeps
<1> HIDE DEF v
<1>4. AfterAction(s, a) = ProcessData(v)
  BY DEF AfterAction, u, v, SetAction
<1> QED BY <1>1, <1>2, <1>3, <1>4, ProcessDataGives DEF SameResult, Gives

\* The failure of a consumer is the result when there was none.
LEMMA AfterFailureSettles ==
    ASSUME NEW s, Obj(s), s.call # "none"
    PROVE  LET t == AfterFailure(s) IN
           /\ t.result = IF s.result = "pending" THEN "consumer_failed" ELSE s.result
           /\ t.enqueued = s.enqueued
<1> DEFINE u == ConsumerEnds(s)
           v == DoReject(u, "consumer_failed")
<1>1. Obj(u) /\ u.call = "none"
  BY ConsumerEndsPlainObj
<1>2. u.result = s.result /\ u.enqueued = s.enqueued
  BY DEF ConsumerEnds, Obj, BeforeUpdate, StreamType
<1> HIDE DEF u
<1>3. "consumer_failed" \in StreamResults \ {"pending"}
  BY DEF StreamResults
<1>4. /\ Obj(v)
      /\ v.result = IF u.result = "pending" THEN "consumer_failed" ELSE u.result
      /\ v.enqueued = u.enqueued
  BY <1>1, <1>3, DoRejectObj, DoRejectSettles
<1> HIDE DEF v
<1>5. AfterFailure(s) = SetConsumerIsRunning(v, FALSE)
  BY DEF AfterFailure, u, v
<1> QED BY <1>2, <1>4, <1>5, SetConsumerIsRunningKeeps DEF SameResult

-----------------------------------------------------------------------------
(* Along which edges of the graph of states the members move.               *)

\* the first datum is written
Writes(s, t) ==
    /\ s.state = "pending" /\ t.state = "streaming1"
    /\ ~s.stream_has_been_written_to /\ t.stream_has_been_written_to
    /\ t.result = "pending"

\* the result is set: before any data, while data are left, or when none are
Settles(s, t) ==
    /\ s.result = "pending" /\ t.result # "pending"
    /\ t.stream_has_been_written_to = s.stream_has_been_written_to
    /\ \/ /\ s.state = "pending" /\ t.state = "completed"
          /\ ~t.stream_has_been_written_to /\ t.buffer = <<>>
       \/ s.state = "streaming1" /\ t.state = "streaming2" /\ ~t.buffer_is_empty
       \/ s.state = "streaming1" /\ t.state = "completed" /\ s.buffer_is_empty /\ t.buffer = <<>>

\* the last datum has been consumed
Drains(s, t) ==
    /\ s.state = "streaming2" /\ t.state = "completed"
    /\ ~s.buffer_is_empty /\ t.buffer_is_empty /\ t.buffer = <<>>

Moves(s, t) ==
    /\ s.result # "pending" => t.result = s.result
    /\ s.state = "completed" => t.state = "completed"
    /\ t.state = s.state \/ Writes(s, t) \/ Settles(s, t) \/ Drains(s, t)

\* update_state() puts the state where the table says.
LEMMA UpdateStateTable ==
    ASSUME NEW s \in StreamType, Behind(s), s.state # "completed",
           NEW t, t = UpdateState(s)
    PROVE  /\ SameData(s, t)
           /\ s.result = "pending" =>
                 t.state = IF s.state = "pending" /\ ~s.stream_has_been_written_to
                           THEN "pending" ELSE "streaming1"
           /\ s.result # "pending" =>
                 t.state = IF s.buffer_is_empty \/ (s.state = "pending"
                                                    /\ ~s.stream_has_been_written_to)
                           THEN "completed" ELSE "streaming2"
<1>1. /\ t \in StreamType /\ SameData(s, t) /\ Table(t)
      /\ t.state = "completed" <=>
             \/ s.state = "completed"
             \/ /\ s.result # "pending"
                /\ \/ s.state = "pending" /\ ~s.stream_has_been_written_to
                   \/ s.buffer_is_empty
      /\ t.state = "pending" <=>
             s.state = "pending" /\ ~s.stream_has_been_written_to /\ s.result = "pending"
  BY UpdateStateEffect
<1>2. t.state \in StreamStates /\ t.result = s.result
  BY <1>1 DEF StreamType, SameData
<1>3. t.state # "streaming3" /\ (t.state \in {"streaming2", "completed"} => t.result # "pending")
      /\ (t.state \in {"pending", "streaming1"} => t.result = "pending")
  BY <1>1 DEF Table, Behind
<1> QED BY <1>1, <1>2, <1>3 DEF StreamStates

\* set_stream_result() moves along the edges of a settlement.
LEMMA SetStreamResultMoves ==
    ASSUME NEW s, Obj(s), NEW r \in StreamResults \ {"pending"}
    PROVE  LET t == SetStreamResult(s, r) IN
           /\ t.state = s.state \/ Settles(s, t)
           /\ s.result # "pending" => t = s
           /\ t.stream_has_been_written_to = s.stream_has_been_written_to
           /\ t.buffer_is_empty = s.buffer_is_empty /\ t.buffer = s.buffer
<1>1. CASE s.result # "pending"
  BY <1>1 DEF SetStreamResult
<1>2. CASE s.result = "pending"
  <2> DEFINE u == [s EXCEPT !.result = r, !.due = s.enqueued]
             t == SetStreamResult(s, r)
  <2>1. /\ u \in StreamType
        /\ u.result = r /\ u.state = s.state /\ u.proxy = s.proxy
        /\ u.stream_has_been_written_to = s.stream_has_been_written_to
        /\ u.buffer_is_empty = s.buffer_is_empty /\ u.buffer = s.buffer
        /\ u.consumer_is_running = s.consumer_is_running
    BY DEF Obj, BeforeUpdate, StreamType
  <2>2. t = UpdateState(u)
    BY <1>2 DEF SetStreamResult
  <2> HIDE DEF u, t
  <2>3. /\ s.state \in {"pending", "streaming1"} /\ s.proxy = "pending"
        /\ s.state = "pending" => ~s.stream_has_been_written_to /\ s.buffer = <<>>
        /\ s.buffer_is_empty => s.buffer = <<>> /\ ~s.consumer_is_running
    BY <1>2 DEF Obj, BeforeUpdate, Table, Behind, Flag, Fresh, StreamType, StreamStates
  <2>4. Behind(u)
    BY <2>1, <2>3 DEF Obj, Behind, BeforeUpdate
  <2>5. /\ SameData(u, t)
        /\ t.state = IF u.buffer_is_empty \/ (u.state = "pending" /\ ~u.stream_has_been_written_to)
                     THEN "completed" ELSE "streaming2"
    BY <2>1, <2>2, <2>3, <2>4, UpdateStateTable
  <2>6. /\ t.result # "pending"
        /\ t.stream_has_been_written_to = s.stream_has_been_written_to
        /\ t.buffer_is_empty = s.buffer_is_empty /\ t.buffer = s.buffer
    BY <2>1, <2>5 DEF SameData
  <2>7. Settles(s, t)
    BY <1>2, <2>1, <2>3, <2>5, <2>6 DEF Settles
  <2> QED BY <1>2, <2>6, <2>7 DEF t
<1> QED BY <1>1, <1>2

\* set_consumer_is_running(false) leaves the state alone.
LEMMA ConsumerStopsMoves ==
    ASSUME NEW s, Obj(s)
    PROVE  LET t == SetConsumerIsRunning(s, FALSE) IN
           /\ t.state = s.state /\ t.result = s.result
           /\ t.stream_has_been_written_to = s.stream_has_been_written_to
           /\ t.buffer_is_empty = s.buffer_is_empty /\ t.buffer = s.buffer
<1> DEFINE u == [s EXCEPT !.consumer_is_running = FALSE]
           t == SetConsumerIsRunning(s, FALSE)
<1>1. /\ u \in StreamType
      /\ u.result = s.result /\ u.state = s.state /\ u.proxy = s.proxy
      /\ u.stream_has_been_written_to = s.stream_has_been_written_to
      /\ u.buffer_is_empty = s.buffer_is_empty /\ u.buffer = s.buffer
      /\ ~u.consumer_is_running
  BY DEF Obj, BeforeUpdate, StreamType
<1>2. t = UpdateState(u)
  BY DEF SetConsumerIsRunning
<1> HIDE DEF u, t
<1>3. Behind(u)
  BY <1>1 DEF Obj, Behind, BeforeUpdate
<1>4. SameData(u, t)
  BY <1>1, <1>2, UpdateStateKeeps
<1>5. t.state = s.state
  <2>1. CASE s.state = "completed"
    BY <1>1, <1>2, <1>3, <2>1, UpdateStateEffect
  <2>2. CASE s.state # "completed"
    <3>1. /\ s.result = "pending" => s.state = IF s.state = "pending" /\ ~s.stream_has_been_written_to
                                               THEN "pending" ELSE "streaming1"
          /\ s.result # "pending" => s.state = "streaming2" /\ ~s.buffer_is_empty
      BY <2>2 DEF Obj, BeforeUpdate, Table, Behind, StreamType, StreamStates
    <3> QED BY <1>1, <1>2, <1>3, <2>2, <3>1, UpdateStateTable
  <2> QED BY <2>1, <2>2
<1> QED BY <1>1, <1>4, <1>5 DEF SameData, t

\* process_data() moves when the last datum has been consumed, and only then.
LEMMA ProcessDataMoves ==
    ASSUME NEW s, Obj(s)
    PROVE  LET t == ProcessData(s) IN
           /\ t.state = s.state \/ Drains(s, t)
           /\ t.result = s.result
           /\ t.stream_has_been_written_to = s.stream_has_been_written_to
<1>0. s \in StreamType
  BY DEF Obj, BeforeUpdate
<1>1. CASE ~MayTakeData(s)
  BY <1>1 DEF ProcessData
<1> DEFINE kept == IF s.action = "Continue" THEN s.buffer ELSE <<>>
           u == [s EXCEPT !.buffer = <<>>]
           v == [u EXCEPT !.buffer_is_empty = TRUE]
           t == ProcessData(s)
<1>2. CASE MayTakeData(s) /\ kept = <<>>
  <2>1. t = SetBufferIsEmpty(u)
    BY <1>2 DEF ProcessData
  <2>2. /\ u \in StreamType /\ u.state = s.state /\ u.result = s.result /\ u.proxy = s.proxy
        /\ u.stream_has_been_written_to = s.stream_has_been_written_to
        /\ u.buffer_is_empty = s.buffer_is_empty /\ u.consumer_is_running = s.consumer_is_running
        /\ u.buffer = <<>>
    <3>1. <<>> \in Seq(Nat)
      OBVIOUS
    <3> QED BY <1>0, <3>1 DEF StreamType
  <2> HIDE DEF u, t
  <2>3. /\ v \in StreamType /\ v.state = u.state /\ v.result = u.result /\ v.proxy = u.proxy
        /\ v.stream_has_been_written_to = u.stream_has_been_written_to
        /\ v.buffer_is_empty /\ v.consumer_is_running = u.consumer_is_running
        /\ v.buffer = u.buffer
    BY <2>2 DEF StreamType
  <2>4. CASE s.buffer_is_empty
    BY <2>1, <2>2, <2>4 DEF SetBufferIsEmpty, t
  <2>5. CASE ~s.buffer_is_empty
    <3>1. t = UpdateState(v)
      BY <2>1, <2>2, <2>5 DEF SetBufferIsEmpty
    <3> HIDE DEF v
    <3>2. /\ ~s.consumer_is_running /\ s.state \in {"streaming1", "streaming2"}
      BY <1>2 DEF MayTakeData
    <3>3. Behind(v)
      BY <2>2, <2>3, <3>2 DEF Obj, BeforeUpdate, Behind
    <3>4. /\ SameData(v, t)
          /\ v.result = "pending" => t.state = "streaming1"
          /\ v.result # "pending" => t.state = "completed"
      BY <2>2, <2>3, <3>1, <3>2, <3>3, UpdateStateTable
    <3>5. s.state = "streaming1" <=> s.result = "pending"
      BY <3>2 DEF Obj, Table, Behind
    <3> QED BY <2>2, <2>3, <2>5, <3>2, <3>4, <3>5 DEF SameData, Drains, t
  <2> QED BY <2>4, <2>5
<1>3. CASE MayTakeData(s) /\ kept # <<>>
  <2> DEFINE w == [s EXCEPT !.buffer = Tail(s.buffer)]
             x == [w EXCEPT !.call = "sync", !.delivered = Append(w.delivered, Head(s.buffer))]
             y == [x EXCEPT !.consumer_is_running = TRUE]
  <2>1. t = CallDataCallback(w, Head(s.buffer)) /\ s.buffer # <<>>
    BY <1>3 DEF ProcessData
  <2>2. Tail(s.buffer) \in Seq(Nat) /\ Append(s.delivered, Head(s.buffer)) \in Seq(Nat)
    BY <1>0, <2>1 DEF StreamType
  <2>3. /\ w \in StreamType /\ w.delivered = s.delivered
        /\ w.state = s.state /\ w.result = s.result /\ w.proxy = s.proxy
        /\ w.stream_has_been_written_to = s.stream_has_been_written_to
        /\ w.buffer_is_empty = s.buffer_is_empty
    BY <1>0, <2>2 DEF StreamType
  <2>4. CallDataCallback(w, Head(s.buffer)) = UpdateState(y)
    BY <2>3 DEF CallDataCallback, SetConsumerIsRunning, StreamType
  <2> HIDE DEF w, t
  <2>5. /\ x \in StreamType
        /\ x.state = w.state /\ x.result = w.result /\ x.proxy = w.proxy
        /\ x.stream_has_been_written_to = w.stream_has_been_written_to
        /\ x.buffer_is_empty = w.buffer_is_empty
    BY <2>2, <2>3 DEF StreamType
  <2> HIDE DEF x
  <2>6. /\ y \in StreamType
        /\ y.state = x.state /\ y.result = x.result /\ y.proxy = x.proxy
        /\ y.stream_has_been_written_to = x.stream_has_been_written_to
        /\ y.buffer_is_empty = x.buffer_is_empty
    BY <2>5 DEF StreamType
  <2> HIDE DEF y
  <2>7. s.state \in {"streaming1", "streaming2"} /\ ~s.consumer_is_running
    BY <1>3 DEF MayTakeData
  <2>8. ~s.buffer_is_empty
    BY <2>1, <2>7 DEF Obj, BeforeUpdate, Flag
  <2>9. Behind(y)
    BY <2>3, <2>5, <2>6, <2>7, <2>8 DEF Obj, BeforeUpdate, Behind
  <2>10. /\ SameData(y, t)
         /\ y.result = "pending" => t.state = "streaming1"
         /\ y.result # "pending" => t.state = "streaming2"
    BY <2>1, <2>3, <2>4, <2>5, <2>6, <2>7, <2>8, <2>9, UpdateStateTable
  <2>11. s.state = "streaming1" <=> s.result = "pending"
    BY <2>7 DEF Obj, Table, Behind
  <2> QED BY <2>3, <2>5, <2>6, <2>7, <2>10, <2>11 DEF SameData, t
<1> QED BY <1>1, <1>2, <1>3

\* An accepted write moves a pending stream to streaming1, and no other.
LEMMA WriteMoves ==
    ASSUME NEW s, Obj(s), s.action = "Continue"
    PROVE  LET t == ProcessData(SetStreamHasBeenWrittenTo(EmplaceData(s))) IN Moves(s, t)
<1> DEFINE v == EmplaceData(s)
           u == [v EXCEPT !.stream_has_been_written_to = TRUE, !.buffer_is_empty = FALSE]
           w == SetStreamHasBeenWrittenTo(v)
           t == ProcessData(w)
<1>1. /\ v \in StreamType /\ v.result = s.result /\ v.state = s.state /\ v.proxy = s.proxy
  BY EmplaceDataFields
<1>2. w = UpdateState(u)
  BY DEF SetStreamHasBeenWrittenTo
<1> HIDE DEF v
<1>3. /\ u \in StreamType /\ u.result = s.result /\ u.state = s.state /\ u.proxy = s.proxy
      /\ u.stream_has_been_written_to /\ ~u.buffer_is_empty
  BY <1>1 DEF StreamType
<1> HIDE DEF u
<1>4. Obj(w) /\ (s.state = "completed" => w.state = "completed")
  BY AcceptedWriteObj DEF v
<1> HIDE DEF w
<1>5. /\ t.state = w.state \/ Drains(w, t)
      /\ t.result = w.result
      /\ t.stream_has_been_written_to = w.stream_has_been_written_to
      /\ w.state = "completed" => t.state = "completed"
  BY <1>4, ProcessDataMoves, ProcessDataObj
<1>6. SameData(u, w)
  BY <1>2, <1>3, UpdateStateKeeps
<1>7. w.state = s.state \/ Writes(s, w)
  <2>1. CASE s.state = "completed"
    BY <1>4, <2>1
  <2>2. CASE s.state # "completed"
    <3>1. Behind(u)
      BY <1>3 DEF Obj, BeforeUpdate, Behind
    <3>2. /\ u.result = "pending" => w.state = "streaming1"
          /\ u.result # "pending" => w.state = "streaming2"
      BY <1>2, <1>3, <2>2, <3>1, UpdateStateTable
    <3>3. /\ s.result = "pending" <=> s.state \in {"pending", "streaming1"}
          /\ s.state \in {"pending", "streaming1", "streaming2"}
          /\ s.state = "pending" => ~s.stream_has_been_written_to
      BY <2>2 DEF Obj, BeforeUpdate, Table, Behind, StreamType, StreamStates
    <3> QED BY <1>3, <1>6, <3>2, <3>3 DEF SameData, Writes
  <2> QED BY <2>1, <2>2
<1>8. s.state = "streaming2" => ~s.buffer_is_empty
  BY DEF Obj
<1> HIDE DEF t
<1>9. t.result = s.result
  BY <1>3, <1>5, <1>6 DEF SameData
<1>10. t.state = s.state \/ Writes(s, t) \/ Drains(s, t)
  BY <1>3, <1>5, <1>6, <1>7, <1>8, <1>9 DEF Writes, Drains, SameData
<1> QED BY <1>4, <1>5, <1>9, <1>10 DEF Moves, t, w, v

\* do_reject() moves along the edges of a settlement.
LEMMA DoRejectMoves ==
    ASSUME NEW s, Obj(s), NEW r \in StreamResults \ {"pending"}
    PROVE  LET t == DoReject(s, r) IN
           /\ t.state = s.state \/ Settles(s, t)
           /\ s.result # "pending" => t.result = s.result
           /\ t.stream_has_been_written_to = s.stream_has_been_written_to
           /\ t.buffer_is_empty = s.buffer_is_empty /\ t.buffer = s.buffer
<1> DEFINE u == [s EXCEPT !.action = "Stop"]
<1>1. /\ Obj(u) /\ u.result = s.result /\ u.state = s.state
      /\ u.stream_has_been_written_to = s.stream_has_been_written_to
      /\ u.buffer_is_empty = s.buffer_is_empty /\ u.buffer = s.buffer
  BY StopObj DEF Obj, BeforeUpdate, StreamType
<1>2. DoReject(s, r) = SetStreamResult(u, r)
  BY DEF DoReject, SetAction
<1> HIDE DEF u
<1> QED BY <1>1, <1>2, SetStreamResultMoves DEF Settles

\* The continuation of a consumer that returned moves when it was the last datum.
LEMMA AfterActionMoves ==
    ASSUME NEW s, Obj(s), s.call # "none", NEW a \in StreamActions
    PROVE  LET t == AfterAction(s, a) IN
           t.result = s.result /\ (t.state = s.state \/ Drains(s, t))
<1> DEFINE u == [ConsumerEnds(s) EXCEPT !.action = a]
           v == SetConsumerIsRunning(u, FALSE)
<1>1. Obj(u) /\ u.call = "none"
  BY ConsumerEndsObj
<1>2. u.result = s.result /\ u.state = s.state /\ u.buffer_is_empty = s.buffer_is_empty
  BY DEF ConsumerEnds, Obj, BeforeUpdate, StreamType
<1> HIDE DEF u
<1>3. /\ Obj(v) /\ v.result = u.result /\ v.state = u.state
      /\ v.buffer_is_empty = u.buffer_is_empty
  BY <1>1, ConsumerStopsObj, ConsumerStopsMoves
<1> HIDE DEF v
<1>4. AfterAction(s, a) = ProcessData(v)
  BY DEF AfterAction, u, v, SetAction
<1> QED BY <1>2, <1>3, <1>4, ProcessDataMoves DEF Drains

\* The continuation of a consumer that failed moves as a rejection does.
LEMMA AfterFailureMoves ==
    ASSUME NEW s, Obj(s), s.call # "none"
    PROVE  LET t == AfterFailure(s) IN
           /\ t.state = s.state \/ Settles(s, t)
           /\ s.result # "pending" => t.result = s.result
<1> DEFINE u == ConsumerEnds(s)
           v == DoReject(u, "consumer_failed")
<1>1. Obj(u)
  BY ConsumerEndsPlainObj
<1>2. /\ u.result = s.result /\ u.state = s.state /\ u.buffer_is_empty = s.buffer_is_empty
      /\ u.stream_has_been_written_to = s.stream_has_been_written_to
  BY DEF ConsumerEnds, Obj, BeforeUpdate, StreamType
<1> HIDE DEF u
<1>3. "consumer_failed" \in StreamResults \ {"pending"}
  BY DEF StreamResults
<1>4. /\ Obj(v)
      /\ v.state = u.state \/ Settles(u, v)
      /\ u.result # "pending" => v.result = u.result
  BY <1>1, <1>3, DoRejectObj, DoRejectMoves
<1> HIDE DEF v
<1>5. AfterFailure(s) = SetConsumerIsRunning(v, FALSE)
  BY DEF AfterFailure, u, v
<1> DEFINE t == AfterFailure(s)
<1>6. /\ t.state = v.state /\ t.result = v.result
      /\ t.stream_has_been_written_to = v.stream_has_been_written_to
      /\ t.buffer_is_empty = v.buffer_is_empty /\ t.buffer = v.buffer
  BY <1>4, <1>5, ConsumerStopsMoves
<1> HIDE DEF t
<1>7. /\ t.state = s.state \/ Settles(s, t)
      /\ s.result # "pending" => t.result = s.result
  BY <1>2, <1>4, <1>6 DEF Settles
<1> QED BY <1>7 DEF t
=============================================================================
