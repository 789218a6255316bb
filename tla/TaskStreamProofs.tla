-------------------------- MODULE TaskStreamProofs --------------------------
(***************************************************************************)
(* Proofs about TaskStream, for every number of data and any pools, equal  *)
(* or not: the caller of a task receives the data in order, the result     *)
(* after the data, and at most one datum after asking to stop.             *)
(*                                                                         *)
(* The argument: both streams keep the invariant of their objects, and one *)
(* event at a time lies between them.  Datum n of inner, the last one that *)
(* was given to the proxy consumer, has an event that is not over exactly  *)
(* while the consumer's promise is unsettled (Between); everything before  *)
(* it has been passed on or has come too late (Passing); and what outer    *)
(* answered has reached inner or is on its way there (Stopping).           *)
(***************************************************************************)
EXTENDS TaskStream, StreamObjectProofs

-----------------------------------------------------------------------------
(* The executor's variables: each event is in one place.                    *)

Queued(e) == \E i \in DOMAIN queue[PoolOf(e)] : queue[PoolOf(e)][i] = e
Runs(e) == e \in running[PoolOf(e)]

ExecTypes ==
    /\ fresh \subseteq Events
    /\ queue \in [Pools -> Seq(Events)]
    /\ running \in [Pools -> SUBSET Events]
    /\ exceptions \in Seq({Produce})

\* each event waits once in its own pool, or runs there, or was not pushed
OnePlace ==
    /\ \A p \in Pools : \A i, j \in 1 .. Len(queue[p]) :
          queue[p][i] = queue[p][j] => i = j
    /\ \A p \in Pools : \A i \in 1 .. Len(queue[p]) :
          PoolOf(queue[p][i]) = p /\ queue[p][i] \notin fresh \cup running[p]
    /\ \A p \in Pools : \A e \in running[p] : PoolOf(e) = p /\ e \notin fresh

Placed == ExecTypes /\ OnePlace

\* an event that has not started has done nothing
Parts ==
    /\ part \in [Events -> 0 .. 3]
    /\ \A e \in Events : e \in fresh \/ Queued(e) => part[e] = 0

\* The events and their pools.
LEMMA Names ==
    /\ Produce \in Events /\ React \in Events /\ Produce # React
    /\ \A d \in 1 .. MaxData :
          Consume(d) \in Events /\ Consume(d) # Produce /\ Consume(d) # React
          /\ PoolOf(Consume(d)) = ConsumerPool
    /\ \A d, c : Consume(d) = Consume(c) => d = c
    /\ \A e \in Events : PoolOf(e) \in Pools
BY DEF Produce, React, Consume, Consumes, Events, PoolOf, Pools

\* What each step of the executor does to the places of the events.
LEMMA PushPlaces ==
    ASSUME Placed, NEW e \in Events, Push(e)
    PROVE  /\ Placed' /\ fresh' = fresh \ {e} /\ exceptions' = exceptions
           /\ \A x \in Events : Queued(x)' => Queued(x) \/ x = e
           /\ \A x \in Events : Runs(x)' <=> Runs(x)
<1> DEFINE p == PoolOf(e)
           q == queue[p]
<1>1. /\ p \in Pools /\ e \in fresh
      /\ fresh' = fresh \ {e} /\ queue' = [queue EXCEPT ![p] = Append(q, e)]
      /\ UNCHANGED <<running, exceptions>>
  BY Names DEF Push, Executor!Push
<1>2. /\ queue \in [Pools -> Seq(Events)] /\ q \in Seq(Events)
      /\ queue'[p] = Append(q, e)
      /\ \A r \in Pools : r # p => queue'[r] = queue[r]
      /\ queue' \in [Pools -> Seq(Events)]
  BY <1>1 DEF Placed, ExecTypes
<1>3. /\ Len(Append(q, e)) = Len(q) + 1 /\ Len(q) \in Nat
      /\ \A i \in 1 .. Len(q) : Append(q, e)[i] = q[i]
      /\ Append(q, e)[Len(q) + 1] = e
      /\ \A i \in 1 .. Len(Append(q, e)) : i \in 1 .. Len(q) \/ i = Len(q) + 1
  BY <1>2
<1>4. ExecTypes'
  BY <1>1, <1>2 DEF Placed, ExecTypes
<1>5. \A i \in 1 .. Len(q) : q[i] # e
  BY <1>1 DEF Placed, OnePlace
<1> HIDE DEF q
<1>6. OnePlace'
  <2>1. \A r \in Pools : \A i, j \in 1 .. Len(queue'[r]) :
            queue'[r][i] = queue'[r][j] => i = j
    <3> TAKE r \in Pools
    <3> TAKE i, j \in 1 .. Len(queue'[r])
    <3>1. CASE r # p
      BY <1>2, <3>1 DEF Placed, OnePlace
    <3>2. CASE r = p
      <4>1. \A k, l \in 1 .. Len(q) : q[k] = q[l] => k = l
        BY <1>1 DEF Placed, OnePlace, q
      <4>2. i \in 1 .. Len(Append(q, e)) /\ j \in 1 .. Len(Append(q, e)) /\ queue'[r] = Append(q, e)
        BY <1>2, <3>2
      <4>3. Append(q, e)[i] = Append(q, e)[j] => i = j
        <5>1. CASE i \in 1 .. Len(q) /\ j \in 1 .. Len(q)
          BY <1>3, <4>1, <5>1
        <5>2. CASE i = Len(q) + 1 /\ j \in 1 .. Len(q)
          BY <1>3, <1>5, <5>2
        <5>3. CASE j = Len(q) + 1 /\ i \in 1 .. Len(q)
          BY <1>3, <1>5, <5>3
        <5>4. CASE i = Len(q) + 1 /\ j = Len(q) + 1
          BY <5>4
        <5> QED BY <1>3, <4>2, <5>1, <5>2, <5>3, <5>4
      <4> QED BY <4>2, <4>3
    <3> QED BY <3>1, <3>2
  <2>2. ASSUME NEW r \in Pools, NEW i \in 1 .. Len(queue'[r])
        PROVE  PoolOf(queue'[r][i]) = r /\ queue'[r][i] \notin fresh' \cup running'[r]
    <3>1. CASE r # p
      BY <1>1, <1>2, <2>2, <3>1 DEF Placed, OnePlace
    <3>2. CASE r = p /\ i \in 1 .. Len(q)
      BY <1>1, <1>2, <1>3, <3>2 DEF Placed, OnePlace, q
    <3>3. CASE r = p /\ i = Len(q) + 1
      BY <1>1, <1>2, <1>3, <3>3 DEF Placed, OnePlace
    <3> QED BY <1>2, <1>3, <2>2, <3>1, <3>2, <3>3
  <2>3. \A r \in Pools : \A x \in running'[r] : PoolOf(x) = r /\ x \notin fresh'
    BY <1>1 DEF Placed, OnePlace
  <2> QED BY <2>1, <2>2, <2>3 DEF OnePlace
<1>7. ASSUME NEW x \in Events, Queued(x)' PROVE Queued(x) \/ x = e
  <2>1. PICK i \in DOMAIN queue'[PoolOf(x)] : queue'[PoolOf(x)][i] = x
    BY <1>7 DEF Queued
  <2>2. CASE PoolOf(x) # p
    BY <1>2, <2>1, <2>2, Names DEF Queued
  <2>3. CASE PoolOf(x) = p
    <3>1. i \in 1 .. Len(Append(q, e)) /\ DOMAIN q = 1 .. Len(q)
      BY <1>2, <2>1, <2>3 DEF q
    <3> QED BY <1>2, <1>3, <2>1, <2>3, <3>1 DEF Queued, q
  <2> QED BY <2>2, <2>3
<1>8. \A x \in Events : Runs(x)' <=> Runs(x)
  BY <1>1 DEF Runs
<1> QED BY <1>1, <1>4, <1>6, <1>7, <1>8 DEF Placed

LEMMA StartPlaces ==
    ASSUME Placed, NEW p \in Pools, Executor!Start(p)
    PROVE  /\ Placed' /\ fresh' = fresh /\ exceptions' = exceptions
           /\ \A x \in Events : Queued(x)' => Queued(x)
           /\ \A x \in Events : Runs(x)' => Runs(x) \/ (Queued(x) /\ PoolOf(x) = p)
<1> DEFINE q == queue[p]
           h == Head(q)
<1>1. /\ q # <<>> /\ queue' = [queue EXCEPT ![p] = Tail(q)]
      /\ running' = [running EXCEPT ![p] = @ \cup {h}]
      /\ UNCHANGED <<fresh, exceptions>>
  BY DEF Executor!Start
<1>2. /\ queue \in [Pools -> Seq(Events)] /\ q \in Seq(Events) /\ running \in [Pools -> SUBSET Events]
      /\ \A i, j \in 1 .. Len(q) : q[i] = q[j] => i = j
      /\ \A i \in 1 .. Len(q) : PoolOf(q[i]) = p /\ q[i] \notin fresh \cup running[p]
  BY DEF Placed, ExecTypes, OnePlace
<1> HIDE DEF q
<1>3. /\ h = q[1] /\ 1 \in 1 .. Len(q) /\ h \in Events /\ Tail(q) \in Seq(Events)
      /\ DOMAIN q = 1 .. Len(q) /\ DOMAIN Tail(q) = 1 .. Len(Tail(q))
      /\ Len(Tail(q)) = Len(q) - 1 /\ Len(q) \in Nat
      /\ \A i \in 1 .. Len(Tail(q)) : Tail(q)[i] = q[i + 1] /\ i + 1 \in 1 .. Len(q) /\ i + 1 # 1
  BY <1>1, <1>2
<1> HIDE DEF h
<1>4. /\ queue'[p] = Tail(q) /\ running'[p] = running[p] \cup {h}
      /\ \A r \in Pools : r # p => queue'[r] = queue[r] /\ running'[r] = running[r]
      /\ queue' \in [Pools -> Seq(Events)] /\ running' \in [Pools -> SUBSET Events]
  BY <1>1, <1>2, <1>3
<1>5. \A i \in 1 .. Len(Tail(q)) :
          PoolOf(Tail(q)[i]) = p /\ Tail(q)[i] \notin fresh \cup running[p] /\ Tail(q)[i] # h
  BY <1>2, <1>3
<1>6. \A i, j \in 1 .. Len(Tail(q)) : Tail(q)[i] = Tail(q)[j] => i = j
  <2> TAKE i, j \in 1 .. Len(Tail(q))
  <2>1. q[i + 1] = q[j + 1] => i + 1 = j + 1
    BY <1>2, <1>3
  <2> QED BY <1>3, <2>1
<1>7. PoolOf(h) = p /\ h \notin fresh
  BY <1>2, <1>3
<1>8. ExecTypes'
  BY <1>1, <1>4 DEF Placed, ExecTypes
<1>9. OnePlace'
  <2>1. ASSUME NEW r \in Pools
        PROVE  /\ \A i, j \in 1 .. Len(queue'[r]) : queue'[r][i] = queue'[r][j] => i = j
               /\ \A i \in 1 .. Len(queue'[r]) :
                     PoolOf(queue'[r][i]) = r /\ queue'[r][i] \notin fresh' \cup running'[r]
               /\ \A e \in running'[r] : PoolOf(e) = r /\ e \notin fresh'
    <3>1. CASE r # p
      BY <1>1, <1>4, <3>1 DEF Placed, OnePlace
    <3>2. CASE r = p
      <4>1. \A e \in running[p] : PoolOf(e) = p /\ e \notin fresh
        BY DEF Placed, OnePlace
      <4> QED BY <1>1, <1>4, <1>5, <1>6, <1>7, <3>2, <4>1
    <3> QED BY <3>1, <3>2
  <2> QED BY <2>1 DEF OnePlace
<1>10. ASSUME NEW x \in Events, Queued(x)' PROVE Queued(x)
  <2>1. PICK i \in DOMAIN queue'[PoolOf(x)] : queue'[PoolOf(x)][i] = x
    BY <1>10 DEF Queued
  <2>2. CASE PoolOf(x) # p
    BY <1>4, <2>1, <2>2, Names DEF Queued
  <2>3. CASE PoolOf(x) = p
    <3>1. i \in 1 .. Len(Tail(q)) /\ Tail(q)[i] = x
      BY <1>3, <1>4, <2>1, <2>3
    <3>2. i + 1 \in DOMAIN q /\ q[i + 1] = x
      BY <1>3, <3>1
    <3> QED BY <2>3, <3>2 DEF Queued, q
  <2> QED BY <2>2, <2>3
<1>11. ASSUME NEW x \in Events, Runs(x)', ~Runs(x) PROVE Queued(x) /\ PoolOf(x) = p
  <2>1. PoolOf(x) = p /\ x = h
    BY <1>4, <1>11, Names DEF Runs
  <2> QED BY <1>3, <2>1 DEF Queued, q
<1> QED BY <1>1, <1>8, <1>9, <1>10, <1>11 DEF Placed

LEMMA EndPlaces ==
    ASSUME Placed, NEW e \in Events,
           Executor!Return(PoolOf(e), e) \/ (e = Produce /\ Executor!Throw(PoolOf(e), e))
    PROVE  /\ Placed' /\ fresh' = fresh
           /\ \A x \in Events : Queued(x)' <=> Queued(x)
           /\ \A x \in Events : Runs(x)' <=> Runs(x) /\ x # e
<1> DEFINE p == PoolOf(e)
<1>1. /\ p \in Pools /\ running' = [running EXCEPT ![p] = @ \ {e}]
      /\ UNCHANGED <<fresh, queue>>
      /\ exceptions' = exceptions \/ (e = Produce /\ exceptions' = Append(exceptions, e))
  BY Names DEF Executor!Return, Executor!Throw
<1>2. /\ running \in [Pools -> SUBSET Events] /\ running' \in [Pools -> SUBSET Events]
      /\ running'[p] = running[p] \ {e} /\ \A r \in Pools : r # p => running'[r] = running[r]
  BY <1>1 DEF Placed, ExecTypes
<1>3. exceptions' \in Seq({Produce})
  <2>1. exceptions \in Seq({Produce}) /\ Produce \in {Produce}
    BY DEF Placed, ExecTypes
  <2> HIDE DEF Produce
  <2>2. Append(exceptions, Produce) \in Seq({Produce})
    BY <2>1
  <2> QED BY <1>1, <2>1, <2>2
<1>4. Placed'
  <2>1. \A r \in Pools : running'[r] \subseteq running[r]
    BY <1>2
  <2> QED BY <1>1, <1>2, <1>3, <2>1 DEF Placed, ExecTypes, OnePlace
<1>5. ASSUME NEW x \in Events PROVE Runs(x)' <=> Runs(x) /\ x # e
  <2>1. PoolOf(x) \in Pools /\ (x = e => PoolOf(x) = p)
    BY Names
  <2> QED BY <1>2, <2>1 DEF Runs
<1> QED BY <1>1, <1>4, <1>5 DEF Queued

\* An event that runs or waits was pushed, and does not do both.
LEMMA RunsAlone ==
    ASSUME Placed, NEW e \in Events
    PROVE  (Runs(e) => e \notin fresh /\ ~Queued(e)) /\ (Queued(e) => e \notin fresh)
<1>1. PoolOf(e) \in Pools /\ DOMAIN queue[PoolOf(e)] = 1 .. Len(queue[PoolOf(e)])
  BY Names DEF Placed, ExecTypes
<1> QED BY <1>1 DEF Placed, OnePlace, Runs, Queued

-----------------------------------------------------------------------------
(* The invariant.                                                           *)

\* the data that inner has given to the proxy consumer
Given == Len(inner.delivered)

\* One event lies between the streams: that of the last datum, while inner
\* waits for the promise that the proxy consumer returned.
Between ==
    /\ Obj(inner)
    /\ inner.call # "sync"
    /\ inner.result # "consumer_failed"
    /\ inner.enqueued <= MaxData
    /\ inner.result # "pending" => inner.due = inner.enqueued
    /\ \A d \in 1 .. MaxData : Consume(d) \in fresh <=> d > Given
    /\ \A d \in 1 .. Given : (d < Given \/ inner.call = "none") => part[Consume(d)] = 2
    /\ inner.call = "async" => part[Consume(Given)] \in {0, 1}

\* the result is passed on once, and is that of inner
Reaction ==
    /\ React \notin fresh => Settled(inner)
    /\ outer.result \in {"resolved", "rejected"} =>
          /\ part[React] = 1
          /\ outer.result = IF inner.proxy = "resolved" THEN "resolved" ELSE "rejected"

\* Outer keeps to Stop or Discard, and inner was told so at the latest by the event
\* of the datum that came too late.
Stopping ==
    /\ (inner.action # "Continue" /\ inner.result # "rejected") => outer.action # "Continue"
    /\ (outer.action # "Continue" /\ outer.result # "rejected") => outer.call = "none"
    /\ outer.result = "consumer_failed" => outer.action # "Continue"
    /\ late \in {0, 1}
    /\ late = 1 =>
          \/ inner.call = "none" /\ inner.action # "Continue"
          \/ inner.call = "async" /\ part[Consume(Given)] = 1 /\ outer.action # "Continue"

\* the data passed on are the first ones, and all but the one in between
Passing ==
    /\ forwarded \in Seq(Nat)
    /\ \A i \in 1 .. Len(forwarded) : forwarded[i] = i
    /\ outer.enqueued = Len(forwarded)
    /\ Len(forwarded) + late =
          IF inner.call = "async" /\ part[Consume(Given)] = 0 THEN Given - 1 ELSE Given

IInv ==
    /\ {failed, factory_threw, streaming} \subseteq BOOLEAN
    /\ Placed
    /\ Parts
    /\ Obj(outer)
    /\ Between
    /\ Reaction
    /\ Stopping
    /\ Passing

\* The numbers in the object of inner.
LEMMA InnerNumbers ==
    ASSUME NEW s, Obj(s)
    PROVE  /\ s \in StreamType
           /\ Len(s.delivered) \in Nat /\ s.enqueued \in Nat /\ Len(s.delivered) <= s.enqueued
           /\ s.call # "none" => Len(s.delivered) >= 1
           /\ \A i \in 1 .. Len(s.delivered) : s.delivered[i] = i
           /\ s.proxy = IF s.state = "completed" THEN s.result ELSE "pending"
           /\ s.state = "completed" => s.result # "pending" /\ s.call = "none"
<1>1. s \in StreamType /\ Queue(s) /\ Calls(s) /\ Behind(s)
  BY DEF Obj, BeforeUpdate
<1>2. Len(s.delivered) \in Nat /\ Len(s.buffer) \in Nat /\ s.enqueued \in Nat /\ s.ended \in Nat
  BY <1>1 DEF StreamType
<1>3. Len(s.delivered) + Len(s.buffer) <= s.enqueued
  BY <1>1 DEF Queue
<1>4. s.call # "none" => Len(s.delivered) = s.ended + 1
  BY <1>1 DEF Calls
<1>5. Len(s.delivered) <= s.enqueued /\ (s.call # "none" => Len(s.delivered) >= 1)
  <2> DEFINE n == Len(s.delivered)
             b == Len(s.buffer)
             m == s.enqueued
             e == s.ended
  <2>1. n \in Nat /\ b \in Nat /\ m \in Nat /\ e \in Nat /\ n + b <= m
    BY <1>2, <1>3
  <2>2. s.call # "none" => n = e + 1
    BY <1>4
  <2> HIDE DEF n, b, m, e
  <2>3. n <= m /\ (s.call # "none" => n >= 1)
    BY <2>1, <2>2
  <2> QED BY <2>3 DEF n, m
<1> QED BY <1>1, <1>2, <1>5 DEF Queue, Consecutive, Calls, Behind

\* Once outer has a result, inner is done with, and has it too.
LEMMA ResultIsInners ==
    ASSUME IInv
    PROVE  /\ React \notin fresh =>
                 /\ inner.state = "completed" /\ inner.call = "none"
                 /\ inner.proxy = inner.result /\ inner.result \in {"resolved", "rejected"}
           /\ outer.result \in {"resolved", "rejected"} =>
                 React \notin fresh /\ outer.result = inner.result
<1>1. React \in Events /\ (React \in fresh => part[React] = 0)
  BY Names DEF IInv, Parts
<1>2. outer.result \in {"resolved", "rejected"} => React \notin fresh
  BY <1>1 DEF IInv, Reaction
<1>3. /\ inner \in StreamType /\ inner.result # "consumer_failed"
      /\ inner.proxy = IF inner.state = "completed" THEN inner.result ELSE "pending"
      /\ inner.state = "completed" => inner.result # "pending" /\ inner.call = "none"
  BY InnerNumbers DEF IInv, Between
<1>4. React \notin fresh =>
          /\ inner.state = "completed" /\ inner.call = "none"
          /\ inner.proxy = inner.result /\ inner.result \in {"resolved", "rejected"}
  BY <1>3 DEF IInv, Reaction, Settled, StreamType, StreamResults
<1> QED BY <1>2, <1>4 DEF IInv, Reaction

\* A call on inner leaves it as s, the proxy consumer's call going asynchronous,
\* and pushes one event at most.
LEMMA InnerBecomesPlaces ==
    ASSUME Placed, Obj(inner), NEW s, Obj(s), NEW b, InnerBecomes(s, b), s.enqueued <= MaxData
    PROVE  LET m == Len(s.delivered) IN
           /\ Placed' /\ exceptions' = exceptions
           /\ Obj(inner')
           /\ inner'.call = IF s.call = "sync" THEN "async" ELSE s.call
           /\ inner'.delivered = s.delivered /\ inner'.result = s.result /\ inner'.due = s.due
           /\ inner'.enqueued = s.enqueued /\ inner'.action = s.action /\ inner'.proxy = s.proxy
           /\ inner'.state = s.state
           /\ fresh' = IF s.call = "sync" THEN fresh \ {Consume(m)}
                       ELSE IF Settled(s) /\ b THEN fresh \ {React} ELSE fresh
           /\ s.call = "sync" => m \in 1 .. MaxData
           /\ \A x \in Events : Queued(x)' => Queued(x) \/ x \in fresh
<1>1. /\ s \in StreamType /\ Len(s.delivered) \in Nat /\ s.enqueued \in Nat
      /\ Len(s.delivered) <= s.enqueued
      /\ s.call # "none" => Len(s.delivered) >= 1
      /\ \A i \in 1 .. Len(s.delivered) : s.delivered[i] = i
  BY InnerNumbers
<1>2. CASE s.call = "sync"
  <2> DEFINE m == Len(s.delivered)
             u == [s EXCEPT !.call = "async"]
  <2>1. m \in 1 .. MaxData /\ s.delivered[m] = m
    BY <1>1, <1>2, MaxDataAssumption
  <2>2. inner' = u /\ Push(Consume(m))
    BY <1>2, <2>1 DEF InnerBecomes
  <2>3. Obj(u)
    BY <1>2, GoesAsyncObj
  <2>4. /\ u.call = "async" /\ u.delivered = s.delivered /\ u.result = s.result /\ u.due = s.due
        /\ u.enqueued = s.enqueued /\ u.action = s.action /\ u.proxy = s.proxy /\ u.state = s.state
    BY <1>1 DEF StreamType
  <2> HIDE DEF m, u
  <2>5. /\ Placed' /\ fresh' = fresh \ {Consume(m)} /\ exceptions' = exceptions
        /\ \A x \in Events : Queued(x)' => Queued(x) \/ x = Consume(m)
    BY <2>1, <2>2, PushPlaces, Names
  <2>6. Consume(m) \in fresh
    BY <2>2 DEF Push, Executor!Push
  <2> QED BY <1>2, <2>1, <2>2, <2>3, <2>4, <2>5, <2>6 DEF m
<1>3. CASE s.call # "sync"
  <2>1. inner' = s /\ (IF b /\ Settled(s) /\ React \in fresh THEN Push(React) ELSE UNCHANGED execVars)
    BY <1>3 DEF InnerBecomes
  <2>2. CASE b /\ Settled(s) /\ React \in fresh
    <3>1. /\ Placed' /\ fresh' = fresh \ {React} /\ exceptions' = exceptions
          /\ \A x \in Events : Queued(x)' => Queued(x) \/ x = React
      BY <2>1, <2>2, PushPlaces, Names
    <3> QED BY <1>3, <2>1, <2>2, <3>1
  <2>3. CASE ~(b /\ Settled(s) /\ React \in fresh)
    <3>1. UNCHANGED execVars
      BY <2>1, <2>3
    <3>2. Placed' /\ \A x \in Events : Queued(x)' <=> Queued(x)
      BY <3>1 DEF execVars, Placed, ExecTypes, OnePlace, Queued
    <3>3. fresh' = fresh /\ exceptions' = exceptions
      BY <3>1 DEF execVars
    <3>4. b /\ Settled(s) => fresh \ {React} = fresh
      BY <2>3
    <3> QED BY <1>3, <2>1, <2>3, <3>2, <3>3, <3>4
  <2> QED BY <2>2, <2>3
<1> QED BY <1>2, <1>3

\* A call on inner, of the source (c = inner.call) or of the event that answers
\* for the last datum (c = "none"), keeps the invariant.
LEMMA InnerStep ==
    ASSUME IInv, NEW s, NEW b, NEW c, Obj(s), InnerBecomes(s, b),
           UNCHANGED <<streaming, outer, history>>,
           s.result # "consumer_failed", s.enqueued <= MaxData,
           s.result # "pending" => s.due = s.enqueued,
           inner.state = "completed" => s.state = "completed",
           inner.result # "pending" => s.result = inner.result,
           part' \in [Events -> 0 .. 3], part'[React] = part[React],
           \A e \in Events : e \in fresh \/ Queued(e) => part'[e] = 0,
           \A d \in 1 .. MaxData :
               part'[Consume(d)] = IF d = Given /\ c # inner.call THEN 2 ELSE part[Consume(d)],
           c = inner.call \/ (c = "none" /\ inner.call = "async" /\ part[Consume(Given)] = 1),
           \/ s.call = c /\ s.delivered = inner.delivered
           \/ c = "none" /\ s.call = "sync" /\ Len(s.delivered) = Given + 1,
           (s.action # "Continue" /\ s.result # "rejected") => outer.action # "Continue",
           late = 1 => s.call # "sync" /\ (s.call = "none" => s.action # "Continue")
    PROVE  IInv'
<1> DEFINE m == Len(s.delivered)
<1>1. /\ Placed' /\ exceptions' = exceptions
      /\ Obj(inner')
      /\ inner'.call = IF s.call = "sync" THEN "async" ELSE s.call
      /\ inner'.delivered = s.delivered /\ inner'.result = s.result /\ inner'.due = s.due
      /\ inner'.enqueued = s.enqueued /\ inner'.action = s.action /\ inner'.proxy = s.proxy
      /\ inner'.state = s.state
      /\ fresh' = IF s.call = "sync" THEN fresh \ {Consume(m)}
                  ELSE IF Settled(s) /\ b THEN fresh \ {React} ELSE fresh
      /\ s.call = "sync" => m \in 1 .. MaxData
      /\ \A x \in Events : Queued(x)' => Queued(x) \/ x \in fresh
  BY InnerBecomesPlaces DEF IInv, Between
<1>2. /\ Given' = m /\ m \in Nat /\ Given \in Nat /\ m <= MaxData /\ Given <= MaxData
      /\ MaxData \in Nat /\ (m = Given \/ m = Given + 1)
      /\ (inner.call # "none" => Given >= 1) /\ (s.call # "none" => m >= 1)
  <2>1. /\ m \in Nat /\ m <= s.enqueued /\ s.enqueued \in Nat /\ Given \in Nat
        /\ Given <= inner.enqueued /\ inner.enqueued \in Nat /\ inner.enqueued <= MaxData
        /\ (inner.call # "none" => Given >= 1) /\ (s.call # "none" => m >= 1)
    BY InnerNumbers DEF IInv, Between, Given
  <2>2. Given' = m
    BY <1>1 DEF Given
  <2>3. m = Given \/ m = Given + 1
    BY DEF Given
  <2> HIDE DEF m
  <2> QED BY <2>1, <2>2, <2>3, MaxDataAssumption
<1>3. /\ outer' = outer /\ forwarded' = forwarded /\ late' = late
      /\ UNCHANGED <<streaming, failed, factory_threw>>
  BY DEF history
<1> HIDE DEF m
<1>4. Parts'
  <2>1. fresh' \subseteq fresh
    BY <1>1
  <2> QED BY <1>1, <2>1 DEF Parts
<1>5. \A d \in 1 .. MaxData : Consume(d) \in fresh <=> d > Given
  BY DEF IInv, Between
<1>6. /\ \A d \in 1 .. Given : d < Given => part'[Consume(d)] = 2
      /\ c = "none" /\ Given >= 1 => part'[Consume(Given)] = 2
      /\ s.call = c => (c = "async" => part'[Consume(Given)] = part[Consume(Given)]
                                        /\ part[Consume(Given)] \in {0, 1})
  <2>1. \A d \in 1 .. Given : d \in 1 .. MaxData
    BY <1>2
  <2>2. \A d \in 1 .. Given : (d < Given \/ inner.call = "none") => part[Consume(d)] = 2
    BY DEF IInv, Between
  <2>3. inner.call = "async" => part[Consume(Given)] \in {0, 1}
    BY DEF IInv, Between
  <2>4. inner.call \in {"none", "async"}
    BY InnerNumbers DEF IInv, Between, StreamType
  <2>5. Given >= 1 => Given \in 1 .. Given /\ Given \in 1 .. MaxData
    BY <1>2
  <2>6. ASSUME NEW d \in 1 .. Given, d < Given PROVE part'[Consume(d)] = 2
    BY <1>2, <2>1, <2>2, <2>6
  <2>7. ASSUME c = "none", Given >= 1 PROVE part'[Consume(Given)] = 2
    BY <2>2, <2>4, <2>5, <2>7
  <2>8. ASSUME c = "async" PROVE part'[Consume(Given)] = part[Consume(Given)] /\ part[Consume(Given)] \in {0, 1}
    BY <1>2, <2>3, <2>5, <2>8
  <2> QED BY <2>6, <2>7, <2>8
<1>7. s.call = "sync" => c = "none" /\ m = Given + 1
  <2>1. inner.call # "sync"
    BY DEF IInv, Between
  <2> QED BY <2>1 DEF m
<1>8. s.call = "sync" => part'[Consume(m)] = 0
  BY <1>1, <1>2, <1>5, <1>7, Names
<1>9. s.call # "sync" => s.call = c /\ m = Given
  BY DEF m, Given
<1>10. Between'
  <2>1. \A d \in 1 .. MaxData : Consume(d) \in fresh' <=> d > m
    <3>1. CASE s.call = "sync"
      <4>1. \A d \in 1 .. MaxData : Consume(d) = Consume(m) <=> d = m
        BY Names
      <4>2. \A d \in 1 .. MaxData : d > m <=> d > Given /\ d # m
        BY <1>2, <1>7, <3>1
      <4> QED BY <1>1, <1>5, <3>1, <4>1, <4>2
    <3>2. CASE s.call # "sync"
      <4>1. \A d \in 1 .. MaxData : Consume(d) # React
        BY Names
      <4> QED BY <1>1, <1>5, <1>9, <3>2, <4>1
    <3> QED BY <3>1, <3>2
  <2>2. \A d \in 1 .. m : (d < m \/ inner'.call = "none") => part'[Consume(d)] = 2
    <3> SUFFICES ASSUME NEW d \in 1 .. m, d < m \/ inner'.call = "none" PROVE part'[Consume(d)] = 2
      OBVIOUS
    <3>1. CASE s.call = "sync"
      <4>1. d < m /\ m = Given + 1 /\ c = "none"
        BY <1>1, <1>7, <3>1
      <4>2. d \in 1 .. Given /\ (d < Given \/ d = Given) /\ (d = Given => Given >= 1)
        BY <1>2, <4>1
      <4> QED BY <1>6, <4>1, <4>2
    <3>2. CASE s.call # "sync"
      <4>1. m = Given /\ s.call = c /\ inner'.call = c
        BY <1>1, <1>9, <3>2
      <4>2. d \in 1 .. Given /\ (d < Given \/ d = Given) /\ (d = Given => Given >= 1)
        BY <1>2, <4>1
      <4>3. CASE d < Given
        BY <1>6, <4>2, <4>3
      <4>4. CASE d = Given
        <5>1. c = "none"
          BY <1>2, <4>1, <4>4
        <5> QED BY <1>6, <4>2, <4>4, <5>1
      <4> QED BY <4>2, <4>3, <4>4
    <3> QED BY <3>1, <3>2
  <2>3. inner'.call = "async" => part'[Consume(m)] \in {0, 1}
    BY <1>1, <1>6, <1>8, <1>9
  <2> QED BY <1>1, <1>2, <2>1, <2>2, <2>3 DEF Between
<1>11. Reaction'
  <2>1. inner.proxy # "pending" => inner.state = "completed" /\ inner.proxy = inner.result
    BY InnerNumbers DEF IInv, Between
  <2>2. s.proxy = IF s.state = "completed" THEN s.result ELSE "pending"
    BY InnerNumbers
  <2>3. inner.proxy # "pending" => s.proxy = inner.proxy
    BY <2>1, <2>2
  <2>4. React \notin fresh' => s.proxy # "pending"
    <3>1. CASE React \notin fresh
      BY <2>3, <3>1 DEF IInv, Reaction, Settled
    <3>2. CASE React \in fresh
      <4>1. m \in 1 .. MaxData => React # Consume(m)
        BY Names
      <4> QED BY <1>1, <3>2, <4>1 DEF Settled
    <3> QED BY <3>1, <3>2
  <2>5. outer.result \in {"resolved", "rejected"} => inner.proxy # "pending"
    BY ResultIsInners
  <2> QED BY <1>1, <1>3, <2>3, <2>4, <2>5 DEF IInv, Reaction, Settled
<1>12. Stopping'
  <2>1. late = 1 =>
          \/ inner'.call = "none" /\ inner'.action # "Continue"
          \/ inner'.call = "async" /\ part'[Consume(Given')] = 1 /\ outer'.action # "Continue"
    <3> SUFFICES ASSUME late = 1, s.call # "none"
                 PROVE  inner'.call = "async" /\ part'[Consume(Given')] = 1 /\ outer'.action # "Continue"
      BY <1>1
    <3>1. s.call = c /\ m = Given /\ inner'.call = s.call
      BY <1>1, <1>9
    <3>2. c = inner.call /\ c = "async"
      BY <3>1 DEF IInv, Stopping
    <3> QED BY <1>2, <1>3, <1>6, <3>1, <3>2 DEF IInv, Stopping
  <2> QED BY <1>1, <1>3, <2>1 DEF IInv, Stopping
<1>13. Passing'
  <2> DEFINE f == Len(forwarded) + late
  <2>1. f = IF inner.call = "async" /\ part[Consume(Given)] = 0 THEN Given - 1 ELSE Given
    BY DEF IInv, Passing
  <2> HIDE DEF f
  <2>2. f = IF inner'.call = "async" /\ part'[Consume(m)] = 0 THEN m - 1 ELSE m
    <3>1. CASE s.call = "sync"
      <4>1. f = Given
        BY <1>7, <2>1, <3>1
      <4>2. m - 1 = Given
        BY <1>2, <1>7, <3>1
      <4> QED BY <1>1, <1>8, <3>1, <4>1, <4>2
    <3>2. CASE s.call # "sync" /\ c = inner.call
      BY <1>1, <1>6, <1>9, <2>1, <3>2
    <3>3. CASE s.call # "sync" /\ c # inner.call
      BY <1>1, <1>9, <2>1, <3>3
    <3> QED BY <3>1, <3>2, <3>3
  <2> QED BY <1>2, <1>3, <2>2 DEF IInv, Passing, f
<1> QED BY <1>1, <1>3, <1>4, <1>10, <1>11, <1>12, <1>13 DEF IInv

\* A step that touches neither stream, nor the parts of the events between them.
LEMMA ExecutorStep ==
    ASSUME IInv, Placed', fresh' = fresh, UNCHANGED <<inner, outer, forwarded, late>>,
           {failed, factory_threw, streaming}' \subseteq BOOLEAN,
           part' \in [Events -> 0 .. 3],
           \A e \in Events : e # Produce => part'[e] = part[e],
           \A e \in Events : e \in fresh \/ Queued(e)' => part'[e] = 0
    PROVE  IInv'
<1>1. \A d \in 1 .. MaxData : part'[Consume(d)] = part[Consume(d)]
  BY Names
<1>2. part'[React] = part[React]
  BY Names
<1>3. /\ Given' = Given /\ Given \in Nat /\ Given <= MaxData
      /\ (inner.call = "async" => Given \in 1 .. MaxData)
  <2>1. Given \in Nat /\ Given <= inner.enqueued /\ inner.enqueued \in Nat
        /\ (inner.call # "none" => Given >= 1)
    BY InnerNumbers DEF IInv, Between, Given
  <2>2. inner.enqueued <= MaxData
    BY DEF IInv, Between
  <2> QED BY <2>1, <2>2, MaxDataAssumption DEF Given
<1>4. \A d \in 1 .. Given : d \in 1 .. MaxData
  BY <1>3, MaxDataAssumption
<1>5. Between' /\ Passing' /\ Stopping'
  <2>1. inner.call = "async" => part'[Consume(Given)] = part[Consume(Given)]
    BY <1>1, <1>3
  <2> QED BY <1>1, <1>3, <1>4, <2>1 DEF IInv, Between, Passing, Stopping
<1>6. Parts' /\ Reaction'
  BY <1>2 DEF IInv, Parts, Reaction, Settled
<1> QED BY <1>5, <1>6 DEF IInv

\* A step of the user on outer, which may settle it only with a failure.
LEMMA OuterStep ==
    ASSUME IInv, UNCHANGED <<inner, part, forwarded, late, streaming, factory_threw, execVars>>,
           failed' \in BOOLEAN, Obj(outer'), outer'.enqueued = outer.enqueued,
           \/ outer'.result = outer.result
           \/ outer.result = "pending" /\ outer'.result = "consumer_failed",
           (outer.call = "none" /\ outer.action # "Continue") => outer'.action # "Continue",
           (outer'.action # "Continue" /\ outer'.result # "rejected") => outer'.call = "none",
           outer'.result = "consumer_failed" => outer'.action # "Continue"
    PROVE  IInv'
<1>1. Placed' /\ Parts' /\ fresh' = fresh
  BY DEF execVars, IInv, Placed, ExecTypes, OnePlace, Parts, Queued
<1>2. Between' /\ Given' = Given
  BY <1>1 DEF IInv, Between, Given
<1>3. Reaction'
  BY <1>1 DEF IInv, Reaction, Settled
<1>4. Passing'
  BY <1>2 DEF IInv, Passing
<1>5. Stopping'
  <2>1. outer.result = "rejected" => inner.result = "rejected" /\ inner.call = "none"
    BY ResultIsInners
  <2>2. (outer.action # "Continue" /\ inner.result # "rejected") => outer'.action # "Continue"
    BY <2>1 DEF IInv, Stopping
  <2>3. (outer.action # "Continue" /\ inner.call = "async") => outer'.action # "Continue"
    BY <2>1 DEF IInv, Stopping
  <2> QED BY <1>2, <2>2, <2>3 DEF IInv, Stopping
<1> QED BY <1>1, <1>2, <1>3, <1>4, <1>5 DEF IInv

-----------------------------------------------------------------------------
(* The actions.                                                             *)

\* The initial state satisfies it.
LEMMA InitIInv == Init => IInv
<1> SUFFICES ASSUME Init PROVE IInv
  OBVIOUS
<1>1. /\ inner = InitialStream /\ outer = InitialStream /\ forwarded = <<>> /\ late = 0
      /\ part = [e \in Events |-> 0] /\ fresh = Events \ {Produce} /\ exceptions = <<>>
      /\ queue = [p \in Pools |-> IF p = ProducerPool THEN <<Produce>> ELSE <<>>]
      /\ running = [p \in Pools |-> {}] /\ {failed, factory_threw, streaming} \subseteq BOOLEAN
  BY DEF Init
<1>2. Obj(inner) /\ Obj(outer)
  BY <1>1, InitialObj
<1>3. /\ inner.call = "none" /\ inner.result = "pending" /\ inner.enqueued = 0
      /\ inner.action = "Continue" /\ outer.action = "Continue" /\ outer.result = "pending"
      /\ outer.enqueued = 0 /\ inner.delivered = <<>>
  BY <1>1 DEF InitialStream
<1>4. Given = 0 /\ Len(forwarded) = 0 /\ forwarded \in Seq(Nat)
  BY <1>1, <1>3 DEF Given
<1>5. Placed
  <2>1. ExecTypes
    <3>1. <<Produce>> \in Seq(Events) /\ <<>> \in Seq(Events) /\ <<>> \in Seq({Produce})
      BY Names
    <3> QED BY <1>1, <3>1 DEF ExecTypes
  <2>2. OnePlace
    <3>1. /\ Len(<<Produce>>) = 1 /\ <<Produce>>[1] = Produce /\ Len(<<>>) = 0
          /\ PoolOf(Produce) = ProducerPool
      BY DEF PoolOf
    <3> HIDE DEF Produce
    <3>2. \A p \in Pools : queue[p] = <<>> \/ (p = ProducerPool /\ queue[p] = <<Produce>>)
      BY <1>1
    <3> QED BY <1>1, <3>1, <3>2 DEF OnePlace
  <2> QED BY <2>1, <2>2 DEF Placed
<1>6. Parts
  BY <1>1 DEF Parts
<1>7. Between
  <2>1. \A d \in 1 .. MaxData : Consume(d) \in fresh
    BY <1>1, Names
  <2> QED BY <1>2, <1>3, <1>4, <2>1, MaxDataAssumption DEF Between
<1>8. Reaction
  BY <1>1, <1>3, Names DEF Reaction
<1>9. Stopping
  BY <1>1, <1>3 DEF Stopping
<1>10. Passing
  BY <1>1, <1>3, <1>4 DEF Passing
<1> QED BY <1>1, <1>2, <1>5, <1>6, <1>7, <1>8, <1>9, <1>10 DEF IInv

\* An event that goes on: it neither waits nor is new.
LEMMA DoneParts ==
    ASSUME IInv, NEW e \in Events, NEW k \in 0 .. 2, At(e, k), Done(e)
    PROVE  /\ part' \in [Events -> 0 .. 3] /\ part'[e] = k + 1
           /\ \A x \in Events : x # e => part'[x] = part[x]
           /\ \A x \in Events : x \in fresh \/ Queued(x) => part'[x] = 0
           /\ e \notin fresh
<1>1. Runs(e) /\ part[e] = k
  BY DEF At, Runs
<1>2. e \notin fresh /\ ~Queued(e)
  BY <1>1, RunsAlone DEF IInv
<1>3. part \in [Events -> 0 .. 3] /\ k + 1 \in 0 .. 3
  BY DEF IInv, Parts
<1>4. part' = [part EXCEPT ![e] = k + 1]
  BY <1>1, <1>3 DEF Done
<1> QED BY <1>2, <1>3, <1>4 DEF IInv, Parts

LEMMA ExecutorIInv ==
    ASSUME IInv, FactoryReturns \/ FactoryThrows \/ Handles
                 \/ (\E p \in Pools : Starts(p)) \/ (\E e \in Events : Returns(e))
    PROVE  IInv'
<1>0. {failed, factory_threw, streaming} \subseteq BOOLEAN /\ Placed /\ Parts /\ Produce \in Events
  BY Names DEF IInv
<1>1. CASE FactoryReturns
  <2>1. At(Produce, 0) /\ Done(Produce)
        /\ UNCHANGED <<streaming, inner, outer, history, execVars>>
    BY <1>1 DEF FactoryReturns
  <2>2. /\ part' \in [Events -> 0 .. 3]
        /\ \A x \in Events : x # Produce => part'[x] = part[x]
        /\ \A x \in Events : x \in fresh \/ Queued(x) => part'[x] = 0
    BY <1>0, <2>1, DoneParts
  <2>3. Placed' /\ fresh' = fresh /\ \A x \in Events : Queued(x)' <=> Queued(x)
    BY <1>0, <2>1 DEF execVars, Placed, ExecTypes, OnePlace, Queued
  <2> QED BY <1>0, <2>1, <2>2, <2>3, ExecutorStep DEF history
<1>2. CASE FactoryThrows
  <2>1. /\ Executor!Throw(PoolOf(Produce), Produce) /\ factory_threw' = TRUE
        /\ UNCHANGED <<streaming, inner, outer, part, forwarded, failed, late>>
    BY <1>2 DEF FactoryThrows, PoolOf
  <2>2. Placed' /\ fresh' = fresh /\ \A x \in Events : Queued(x)' <=> Queued(x)
    BY <1>0, <2>1, EndPlaces
  <2> QED BY <1>0, <2>1, <2>2, ExecutorStep DEF Parts
<1>3. CASE Handles
  <2>1. /\ exceptions # <<>> /\ exceptions' = Tail(exceptions) /\ UNCHANGED <<fresh, queue, running>>
        /\ UNCHANGED <<streaming, inner, outer, part, history>>
    BY <1>3 DEF Handles, Executor!Handle
  <2>2. exceptions' \in Seq({Produce})
    BY <1>0, <2>1 DEF Placed, ExecTypes
  <2>3. Placed' /\ \A x \in Events : Queued(x)' <=> Queued(x)
    BY <1>0, <2>1, <2>2 DEF Placed, ExecTypes, OnePlace, Queued
  <2> QED BY <1>0, <2>1, <2>3, ExecutorStep DEF Parts, history
<1>4. ASSUME NEW p \in Pools, Starts(p) PROVE IInv'
  <2>1. Executor!Start(p) /\ UNCHANGED <<streaming, inner, outer, part, history>>
    BY <1>4 DEF Starts
  <2>2. Placed' /\ fresh' = fresh /\ \A x \in Events : Queued(x)' => Queued(x)
    BY <1>0, <2>1, StartPlaces
  <2> QED BY <1>0, <2>1, <2>2, ExecutorStep DEF Parts, history
<1>5. ASSUME NEW e \in Events, Returns(e) PROVE IInv'
  <2>1. Executor!Return(PoolOf(e), e) /\ UNCHANGED <<streaming, inner, outer, part, history>>
    BY <1>5 DEF Returns
  <2>2. Placed' /\ fresh' = fresh /\ \A x \in Events : Queued(x)' <=> Queued(x)
    BY <1>0, <2>1, EndPlaces
  <2> QED BY <1>0, <2>1, <2>2, ExecutorStep DEF Parts, history
<1> QED BY <1>1, <1>2, <1>3, <1>4, <1>5

LEMMA UserIInv ==
    ASSUME IInv, UserBinds \/ UserEnds \/ UserGoesAsync
    PROVE  IInv'
<1>0. /\ Obj(outer) /\ outer \in StreamType
      /\ (outer.action # "Continue" /\ outer.result # "rejected") => outer.call = "none"
      /\ outer.result = "consumer_failed" => outer.action # "Continue"
      /\ {failed, factory_threw, streaming} \subseteq BOOLEAN
  BY InnerNumbers DEF IInv, Stopping
<1>1. CASE UserBinds
  <2> DEFINE b == [outer EXCEPT !.bound = TRUE]
  <2>1. /\ outer' = ProcessData(b) /\ UNCHANGED <<streaming, inner, part, history, execVars>>
    BY <1>1 DEF UserBinds, SetDataCallbackAssigned
  <2>2. Obj(b) /\ SameResult(outer, b) /\ b.call = outer.call
    BY <1>0, BindObj DEF SameResult, StreamType
  <2> HIDE DEF b
  <2>3. /\ Obj(outer') /\ SameResult(b, outer')
        /\ b.action # "Continue" => outer'.call = b.call
    BY <2>1, <2>2, ProcessDataObj, ProcessDataGives
  <2> QED BY <1>0, <2>1, <2>2, <2>3, OuterStep DEF SameResult, history
<1>2. ASSUME NEW a \in StreamActions, UserAnswers(a) PROVE IInv'
  <2>1. /\ outer.call # "none" /\ outer' = AfterAction(outer, a)
        /\ UNCHANGED <<streaming, inner, part, history, execVars>>
    BY <1>2 DEF UserAnswers
  <2>2. /\ Obj(outer') /\ outer'.action = a /\ (a # "Continue" => outer'.call = "none")
        /\ outer'.result = outer.result /\ outer'.enqueued = outer.enqueued
    BY <1>0, <2>1, AfterActionObj, AfterActionGives
  <2>3. outer.result # "consumer_failed"
    BY <1>0, <2>1
  <2> QED BY <1>0, <2>1, <2>2, <2>3, OuterStep DEF history
<1>3. CASE UserFails
  <2> DEFINE x == [ConsumerEnds(outer) EXCEPT !.action = "Stop"]
  <2>1. /\ outer.call # "none" /\ outer' \in {x, AfterFailure(outer)} /\ failed' = TRUE
        /\ UNCHANGED <<streaming, inner, part, forwarded, late, factory_threw, execVars>>
    BY <1>3 DEF UserFails, SetAction
  <2>2. /\ Obj(x) /\ x.action = "Stop" /\ x.call = "none"
    BY <1>0, <2>1, ConsumerEndsObj DEF StreamActions
  <2>3. x.result = outer.result /\ x.enqueued = outer.enqueued
    BY <1>0 DEF ConsumerEnds, StreamType
  <2> HIDE DEF x
  <2>4. /\ Obj(outer') /\ outer'.action = "Stop" /\ outer'.call = "none"
        /\ outer'.enqueued = outer.enqueued
        /\ \/ outer'.result = outer.result
           \/ outer.result = "pending" /\ outer'.result = "consumer_failed"
    <3>1. CASE outer' = x
      BY <2>2, <2>3, <3>1
    <3>2. CASE outer' = AfterFailure(outer)
      BY <1>0, <2>1, <3>2, AfterFailureObj, AfterFailureSettles
    <3> QED BY <2>1, <3>1, <3>2
  <2> QED BY <1>0, <2>1, <2>4, OuterStep
<1>4. CASE UserGoesAsync
  <2>1. /\ outer.call = "sync" /\ outer' = [outer EXCEPT !.call = "async"]
        /\ UNCHANGED <<streaming, inner, part, history, execVars>>
    BY <1>4 DEF UserGoesAsync
  <2>2. Obj(outer')
    BY <1>0, <2>1, GoesAsyncObj
  <2>3. SameResult(outer, outer')
    BY <1>0, <2>1 DEF StreamType, SameResult
  <2> QED BY <1>0, <2>1, <2>2, <2>3, OuterStep DEF SameResult, history
<1> QED BY <1>1, <1>2, <1>3, <1>4 DEF UserEnds

\* A call on inner outside of the events that consume: the facts that InnerStep asks for.
LEMMA SourceStep ==
    ASSUME IInv, NEW s, NEW b, Obj(s), InnerBecomes(s, b),
           UNCHANGED <<streaming, outer, history>>,
           part' \in [Events -> 0 .. 3],
           \A e \in Events : e # Produce => part'[e] = part[e],
           \A e \in Events : e \in fresh \/ Queued(e) => part'[e] = 0,
           s.result # "consumer_failed", s.enqueued <= MaxData,
           s.result # "pending" => s.due = s.enqueued,
           inner.state = "completed" => s.state = "completed",
           inner.result # "pending" => s.result = inner.result,
           Gives(inner, s),
           inner.action # "Continue" => s.call = inner.call,
           \/ s.action = inner.action
           \/ s.result = "rejected" /\ s.action = "Stop" /\ s.call = inner.call,
           inner.result = "rejected" => s.result = "rejected"
    PROVE  IInv'
<1>1. /\ part'[React] = part[React]
      /\ \A d \in 1 .. MaxData : part'[Consume(d)] = part[Consume(d)]
  BY Names
<1>2. \/ s.call = inner.call /\ s.delivered = inner.delivered
      \/ inner.call = "none" /\ s.call = "sync" /\ Len(s.delivered) = Given + 1
  BY DEF Gives, Given
<1>3. (s.action # "Continue" /\ s.result # "rejected") => outer.action # "Continue"
  BY DEF IInv, Stopping
<1>4. late = 1 => s.call # "sync" /\ (s.call = "none" => s.action # "Continue")
  <2>1. inner.call # "sync"
    BY DEF IInv, Between
  <2>2. late = 1 => inner.call = "async" \/ (inner.call = "none" /\ inner.action # "Continue")
    BY DEF IInv, Stopping
  <2> QED BY <1>2, <2>1, <2>2
<1> DEFINE c == inner.call
<1>5. \A d \in 1 .. MaxData :
          part'[Consume(d)] = IF d = Given /\ c # inner.call THEN 2 ELSE part[Consume(d)]
  BY <1>1
<1>6. \/ s.call = c /\ s.delivered = inner.delivered
      \/ c = "none" /\ s.call = "sync" /\ Len(s.delivered) = Given + 1
  BY <1>2
<1>7. c = inner.call
  OBVIOUS
<1> HIDE DEF c
<1> QED BY <1>1, <1>3, <1>4, <1>5, <1>6, <1>7, InnerStep

\* The source writes to what the factory returned, and settles it.
LEMMA SourceIInv ==
    ASSUME IInv, SourceWrites \/ SourceSettles
    PROVE  IInv'
<1>0. /\ Obj(inner) /\ inner \in StreamType /\ inner.result # "consumer_failed"
      /\ inner.enqueued <= MaxData /\ inner.enqueued \in Nat
      /\ (inner.result # "pending" => inner.due = inner.enqueued)
      /\ (inner.state = "completed" => inner.result # "pending")
      /\ Parts
  BY InnerNumbers DEF IInv, Between
<1>1. CASE SourceWrites
  <2> DEFINE v == SetStreamHasBeenWrittenTo(EmplaceData(inner))
             s == ProcessData(v)
  <2>1. /\ inner.result = "pending" /\ inner.action = "Continue" /\ inner.enqueued < MaxData
        /\ InnerBecomes(s, ThenBound) /\ UNCHANGED <<streaming, outer, part, history>>
    BY <1>1 DEF SourceWrites
  <2>2. Obj(v)
    BY <1>0, <2>1, AcceptedWriteObj
  <2>3. /\ Obj(s) /\ s.result = inner.result /\ s.action = inner.action
        /\ s.enqueued = inner.enqueued + 1 /\ Gives(inner, s)
    BY <1>0, <2>1, <2>2, ProcessDataObj, WriteGives
  <2> HIDE DEF s
  <2>4. s.enqueued <= MaxData
    BY <1>0, <2>1, <2>3, MaxDataAssumption
  <2> QED BY <1>0, <2>1, <2>3, <2>4, SourceStep DEF Parts
<1>2. CASE SourceResolves
  <2> DEFINE s == SetStreamResult(inner, "resolved")
  <2>1. /\ InnerBecomes(s, ThenBound) /\ UNCHANGED <<streaming, outer, part, history>>
        /\ "resolved" \in StreamResults \ {"pending"}
    BY <1>2 DEF SourceResolves, StreamResults
  <2>2. /\ Obj(s) /\ s.action = inner.action /\ s.call = inner.call /\ s.delivered = inner.delivered
        /\ (inner.state = "completed" => s.state = "completed")
        /\ s.result = (IF inner.result = "pending" THEN "resolved" ELSE inner.result)
        /\ s.due = (IF inner.result = "pending" THEN inner.enqueued ELSE inner.due)
        /\ s.enqueued = inner.enqueued
    BY <1>0, <2>1, SetStreamResultObj, SetStreamResultSettles
  <2> HIDE DEF s
  <2> QED BY <1>0, <2>1, <2>2, SourceStep DEF Parts, Gives
<1>3. CASE SourceRejects
  <2> DEFINE s == DoReject(inner, "rejected")
  <2>1. /\ InnerBecomes(s, ThenBound) /\ UNCHANGED <<streaming, outer, part, history>>
        /\ "rejected" \in StreamResults \ {"pending"} /\ ~RefusesResult(inner)
    BY <1>3 DEF SourceRejects, StreamResults
  <2>2. /\ Obj(s) /\ s.action = "Stop" /\ s.call = inner.call /\ s.delivered = inner.delivered
        /\ (inner.state = "completed" => s.state = "completed")
        /\ s.result = (IF inner.result = "pending" THEN "rejected" ELSE inner.result)
        /\ s.due = (IF inner.result = "pending" THEN inner.enqueued ELSE inner.due)
        /\ s.enqueued = inner.enqueued
    BY <1>0, <2>1, DoRejectObj, DoRejectSettles
  <2>3. inner.result = "pending"
    BY <1>0, <2>1 DEF RefusesResult, StreamType, StreamResults
  <2> HIDE DEF s
  <2> QED BY <1>0, <2>1, <2>2, <2>3, SourceStep DEF Parts, Gives
<1> QED BY <1>1, <1>2, <1>3 DEF SourceSettles

\* The producer event binds the proxy consumer and the reactions.
LEMMA BindIInv ==
    ASSUME IInv, BindConsumer \/ BindReactions
    PROVE  IInv'
<1>0. /\ Obj(inner) /\ inner \in StreamType /\ inner.result # "consumer_failed"
      /\ inner.enqueued <= MaxData
      /\ (inner.result # "pending" => inner.due = inner.enqueued)
      /\ Produce \in Events
  BY InnerNumbers, Names DEF IInv, Between
<1>1. PICK k \in {1, 2} : At(Produce, k) /\ Done(Produce) /\ UNCHANGED <<streaming, outer, history>>
  BY DEF BindConsumer, BindReactions
<1>2. /\ part' \in [Events -> 0 .. 3]
      /\ \A x \in Events : x # Produce => part'[x] = part[x]
      /\ \A x \in Events : x \in fresh \/ Queued(x) => part'[x] = 0
  BY <1>0, <1>1, DoneParts
<1>3. ASSUME NEW s, NEW b, InnerBecomes(s, b), Obj(s), SameResult(inner, s), Gives(inner, s),
             inner.state = "completed" => s.state = "completed",
             inner.action # "Continue" => s.call = inner.call
      PROVE  IInv'
  BY <1>0, <1>1, <1>2, <1>3, SourceStep DEF SameResult
<1>4. CASE BindConsumer /\ streaming
  <2> DEFINE x == [inner EXCEPT !.bound = TRUE]
  <2>1. InnerBecomes(ProcessData(x), FALSE)
    BY <1>4 DEF BindConsumer, SetDataCallbackAssigned
  <2>2. /\ Obj(x) /\ SameResult(inner, x) /\ x.call = inner.call /\ x.delivered = inner.delivered
        /\ x.state = inner.state
    BY <1>0, BindObj DEF SameResult, StreamType
  <2> HIDE DEF x
  <2>3. /\ Obj(ProcessData(x)) /\ SameResult(x, ProcessData(x)) /\ Gives(x, ProcessData(x))
        /\ (x.state = "completed" => ProcessData(x).state = "completed")
        /\ (x.action # "Continue" => ProcessData(x).call = x.call)
    BY <2>2, ProcessDataObj, ProcessDataGives
  <2> QED BY <1>3, <2>1, <2>2, <2>3 DEF SameResult, Gives
<1>5. CASE BindReactions
  <2>1. InnerBecomes(inner, TRUE)
    BY <1>5 DEF BindReactions
  <2> QED BY <1>0, <1>3, <2>1 DEF SameResult, Gives
<1>6. CASE BindConsumer /\ ~streaming
  <2>1. UNCHANGED <<inner, execVars>>
    BY <1>6 DEF BindConsumer
  <2>2. Placed' /\ fresh' = fresh /\ \A x \in Events : Queued(x)' <=> Queued(x)
    BY <2>1 DEF IInv, execVars, Placed, ExecTypes, OnePlace, Queued
  <2> QED BY <1>1, <1>2, <2>1, <2>2, ExecutorStep DEF IInv, history
<1> QED BY <1>4, <1>5, <1>6

\* The event of a datum that is not over is that of the last one.
LEMMA InBetween ==
    ASSUME IInv, NEW d \in 1 .. MaxData, NEW k \in {0, 1}, At(Consume(d), k)
    PROVE  /\ d = Given /\ inner.call = "async" /\ part[Consume(d)] = k
           /\ React \in fresh /\ outer.result \notin {"resolved", "rejected"}
           /\ Given \in 1 .. MaxData
<1>1. Consume(d) \in Events /\ Runs(Consume(d)) /\ part[Consume(d)] = k
  BY Names DEF At, Runs
<1>2. Consume(d) \notin fresh
  BY <1>1, RunsAlone DEF IInv
<1>3. Given \in Nat
  BY InnerNumbers DEF IInv, Between, Given
<1>4. d \in 1 .. Given
  BY <1>2, <1>3 DEF IInv, Between
<1>5. ~(d < Given) /\ inner.call # "none"
  BY <1>1, <1>4 DEF IInv, Between
<1>6. inner.call = "async" /\ d = Given
  <2>1. inner.call \in {"none", "sync", "async"} /\ inner.call # "sync"
    BY InnerNumbers DEF IInv, Between, StreamType
  <2> QED BY <1>3, <1>4, <1>5, <2>1
<1> QED BY <1>1, <1>6, ResultIsInners

\* The event of a datum writes it to outer.
LEMMA ForwardIInv ==
    ASSUME IInv, NEW d \in 1 .. MaxData, Forward(d)
    PROVE  IInv'
<1> DEFINE taken == outer.action = "Continue"
           v == SetStreamHasBeenWrittenTo(EmplaceData(outer))
<1>1. /\ At(Consume(d), 0) /\ outer' = Written(outer)
      /\ forwarded' = (IF taken THEN Append(forwarded, d) ELSE forwarded)
      /\ late' = (IF taken THEN late ELSE late + 1)
      /\ UNCHANGED <<streaming, failed, factory_threw>>
  BY DEF Forward
<1>2. /\ d = Given /\ inner.call = "async" /\ part[Consume(d)] = 0
      /\ React \in fresh /\ outer.result \notin {"resolved", "rejected"}
      /\ Consume(d) \in Events
  BY <1>1, InBetween, Names
<1>3. Done(Consume(d)) /\ UNCHANGED <<inner, execVars>>
  BY <1>2 DEF Forward, RefusesResult
<1>4. /\ part' \in [Events -> 0 .. 3] /\ part'[Consume(d)] = 1
      /\ \A x \in Events : x # Consume(d) => part'[x] = part[x]
      /\ \A x \in Events : x \in fresh \/ Queued(x) => part'[x] = 0
  BY <1>1, <1>2, <1>3, DoneParts
<1>5. Placed' /\ fresh' = fresh /\ (\A x \in Events : Queued(x)' <=> Queued(x)) /\ Given' = Given
  BY <1>3 DEF IInv, execVars, Placed, ExecTypes, OnePlace, Queued, Given
<1>6. /\ Obj(outer') /\ outer'.result = outer.result /\ outer'.action = outer.action
      /\ outer'.enqueued = (IF taken THEN outer.enqueued + 1 ELSE outer.enqueued)
      /\ (~taken => outer'.call = outer.call)
  <2>1. CASE taken
    <3>1. outer' = ProcessData(v)
      BY <1>1, <1>2, <2>1 DEF Written, RefusesResult
    <3>2. Obj(v)
      BY <2>1, AcceptedWriteObj DEF IInv
    <3>3. /\ ProcessData(v).result = outer.result /\ ProcessData(v).action = outer.action
          /\ ProcessData(v).enqueued = outer.enqueued + 1
      BY <2>1, WriteGives DEF IInv
    <3> HIDE DEF v
    <3> QED BY <2>1, <3>1, <3>2, <3>3, ProcessDataObj
  <2>2. CASE ~taken
    <3>1. outer' = ProcessData(outer)
      BY <1>1, <2>2 DEF Written
    <3> QED BY <2>2, <3>1, ProcessDataObj, ProcessDataGives DEF IInv, SameResult
  <2> QED BY <2>1, <2>2
<1>7. Parts' /\ Reaction'
  BY <1>2, <1>3, <1>4, <1>5, <1>6, Names DEF Parts, Reaction, IInv, Settled
<1>8. Given \in Nat /\ late = 0
  <2>1. Given \in Nat
    BY InnerNumbers DEF IInv, Between, Given
  <2> QED BY <1>2, <2>1 DEF IInv, Stopping
<1>9. Between'
  <2>1. \A c \in 1 .. Given : c \in 1 .. MaxData /\ (c # d => part'[Consume(c)] = part[Consume(c)])
    <3>1. \A c \in 1 .. Given : c \in 1 .. MaxData
      BY <1>2, <1>8, MaxDataAssumption
    <3> QED BY <1>4, <3>1, Names
  <2> QED BY <1>2, <1>3, <1>4, <1>5, <1>8, <2>1 DEF IInv, Between
<1>10. Stopping'
  <2>1. late' \in {0, 1} /\ (late' = 1 => ~taken)
    BY <1>1, <1>8
  <2>2. late' = 1 => inner'.call = "async" /\ part'[Consume(Given')] = 1 /\ outer'.action # "Continue"
    BY <1>2, <1>3, <1>4, <1>5, <1>6, <2>1
  <2>3. inner' = inner /\ outer'.result = outer.result /\ outer'.action = outer.action
    BY <1>3, <1>6
  <2>4. outer'.action # "Continue" => outer'.call = outer.call
    BY <1>6
  <2> QED BY <2>1, <2>2, <2>3, <2>4 DEF IInv, Stopping
<1>11. Passing'
  <2> DEFINE f == Len(forwarded)
  <2>1. /\ forwarded \in Seq(Nat) /\ (\A i \in 1 .. f : forwarded[i] = i) /\ outer.enqueued = f
        /\ f + 0 = Given - 1 /\ d \in Nat
    BY <1>2, <1>8 DEF IInv, Passing
  <2>2. f \in Nat
    BY <2>1
  <2>3. CASE taken
    <3>1. forwarded' = Append(forwarded, d) /\ late' = 0 /\ outer'.enqueued = f + 1
      BY <1>1, <1>6, <1>8, <2>1, <2>3
    <3>2. /\ forwarded' \in Seq(Nat) /\ Len(forwarded') = f + 1
          /\ (\A i \in 1 .. f : forwarded'[i] = forwarded[i]) /\ forwarded'[f + 1] = d
      BY <2>1, <3>1
    <3> HIDE DEF f
    <3>3. d = f + 1 /\ f + 1 = Given
      BY <1>2, <1>8, <2>1, <2>2
    <3>4. \A i \in 1 .. f + 1 : forwarded'[i] = i
      <4>1. \A i \in 1 .. f + 1 : i \in 1 .. f \/ i = f + 1
        BY <2>2
      <4> QED BY <2>1, <3>2, <3>3, <4>1
    <3>5. Len(forwarded') + late' = Given
      BY <1>8, <3>1, <3>2, <3>3
    <3> QED BY <1>2, <1>4, <1>5, <3>1, <3>2, <3>4, <3>5 DEF Passing
  <2>4. CASE ~taken
    <3>1. forwarded' = forwarded /\ late' = 1 /\ outer'.enqueued = f
      BY <1>1, <1>6, <1>8, <2>1, <2>4
    <3> HIDE DEF f
    <3>2. f + late' = Given
      BY <1>8, <2>1, <2>2, <3>1
    <3> QED BY <1>2, <1>4, <1>5, <2>1, <3>1, <3>2 DEF Passing, f
  <2> QED BY <2>3, <2>4
<1> QED BY <1>1, <1>5, <1>6, <1>7, <1>9, <1>10, <1>11 DEF IInv

\* The event of a datum tells inner what outer answers.
LEMMA AnswerIInv ==
    ASSUME IInv, NEW d \in 1 .. MaxData, Answer(d)
    PROVE  IInv'
<1> DEFINE s == AfterAction(inner, outer.action)
<1>1. /\ At(Consume(d), 1) /\ InnerBecomes(s, ThenBound) /\ Done(Consume(d))
      /\ UNCHANGED <<streaming, outer, history>>
  BY DEF Answer, DataAction, GetAction
<1>2. /\ d = Given /\ inner.call = "async" /\ part[Consume(d)] = 1
      /\ React \in fresh /\ outer.result \notin {"resolved", "rejected"}
      /\ Consume(d) \in Events /\ Consume(d) # React
  BY <1>1, InBetween, Names
<1>3. /\ part' \in [Events -> 0 .. 3] /\ part'[Consume(d)] = 2
      /\ \A x \in Events : x # Consume(d) => part'[x] = part[x]
      /\ \A x \in Events : x \in fresh \/ Queued(x) => part'[x] = 0
  BY <1>1, <1>2, DoneParts
<1>4. /\ Obj(inner) /\ inner \in StreamType /\ outer.action \in StreamActions
      /\ inner.result # "consumer_failed" /\ inner.enqueued <= MaxData
      /\ (inner.result # "pending" => inner.due = inner.enqueued)
      /\ (inner.state = "completed" => inner.call = "none")
  <2>1. Obj(outer) /\ Obj(inner)
    BY DEF IInv, Between
  <2> QED BY <2>1, InnerNumbers DEF IInv, Between, StreamType
<1>5. /\ Obj(s) /\ s.action = outer.action
      /\ (outer.action # "Continue" => s.delivered = inner.delivered /\ s.call = "none")
      /\ s.result = inner.result /\ s.due = inner.due /\ s.enqueued = inner.enqueued
      /\ \/ s.call = "none" /\ s.delivered = inner.delivered
         \/ s.call = "sync" /\ Len(s.delivered) = Given + 1
  BY <1>2, <1>4, AfterActionObj, AfterActionGives DEF Given
<1> HIDE DEF s
<1> DEFINE c == "none"
<1>6. \A e \in 1 .. MaxData :
          part'[Consume(e)] = IF e = Given /\ c # inner.call THEN 2 ELSE part[Consume(e)]
  BY <1>2, <1>3, Names
<1>7. /\ c = inner.call \/ (c = "none" /\ inner.call = "async" /\ part[Consume(Given)] = 1)
      /\ \/ s.call = c /\ s.delivered = inner.delivered
         \/ c = "none" /\ s.call = "sync" /\ Len(s.delivered) = Given + 1
  BY <1>2, <1>5
<1>8. late = 1 => outer.action # "Continue"
  BY <1>2 DEF IInv, Stopping
<1>9. part'[React] = part[React]
  BY <1>2, <1>3, Names
<1>10. /\ (late = 1 => s.call # "sync" /\ (s.call = "none" => s.action # "Continue"))
       /\ ((s.action # "Continue" /\ s.result # "rejected") => outer.action # "Continue")
       /\ (inner.state = "completed" => s.state = "completed")
       /\ (inner.result # "pending" => s.result = inner.result)
       /\ s.result # "consumer_failed" /\ s.enqueued <= MaxData
       /\ (s.result # "pending" => s.due = s.enqueued)
  BY <1>2, <1>4, <1>5, <1>8
<1> HIDE DEF c
<1> QED BY <1>1, <1>3, <1>5, <1>6, <1>7, <1>9, <1>10, InnerStep

\* The event of the result settles outer.
LEMMA DeliverIInv ==
    ASSUME IInv, Deliver
    PROVE  IInv'
<1>1. /\ At(React, 0) /\ UNCHANGED <<streaming, inner, history>>
      /\ outer' = IF inner.proxy = "resolved" THEN SetStreamResult(outer, "resolved")
                  ELSE DoReject(outer, "rejected")
  BY DEF Deliver
<1>2. /\ part[React] = 0 /\ React \notin fresh /\ React \in Events
  <2>1. React \in Events /\ Runs(React) /\ part[React] = 0
    BY <1>1, Names DEF At, Runs
  <2> QED BY <2>1, RunsAlone DEF IInv
<1>3. outer.result \in {"pending", "consumer_failed"}
  <2>1. outer.result \notin {"resolved", "rejected"}
    BY <1>2 DEF IInv, Reaction
  <2>2. outer \in StreamType
    BY InnerNumbers DEF IInv
  <2> QED BY <2>1, <2>2 DEF StreamType, StreamResults
<1>4. Done(React) /\ UNCHANGED execVars
  BY <1>3 DEF Deliver, RefusesResult
<1>5. /\ part' \in [Events -> 0 .. 3] /\ part'[React] = 1
      /\ \A x \in Events : x # React => part'[x] = part[x]
      /\ \A x \in Events : x \in fresh \/ Queued(x) => part'[x] = 0
  BY <1>1, <1>2, <1>4, DoneParts
<1>6. Placed' /\ fresh' = fresh /\ (\A x \in Events : Queued(x)' <=> Queued(x)) /\ Given' = Given
  BY <1>1, <1>4 DEF IInv, execVars, Placed, ExecTypes, OnePlace, Queued, Given
<1>7. /\ inner.call = "none" /\ inner.proxy = inner.result
      /\ inner.result \in {"resolved", "rejected"}
  BY <1>2, ResultIsInners
<1> DEFINE r == IF inner.proxy = "resolved" THEN "resolved" ELSE "rejected"
<1>8. /\ Obj(outer') /\ outer'.enqueued = outer.enqueued /\ outer'.call = outer.call
      /\ outer'.action = (IF r = "resolved" THEN outer.action ELSE "Stop")
      /\ outer'.result = (IF outer.result = "pending" THEN r ELSE outer.result)
  <2>1. "resolved" \in StreamResults \ {"pending"} /\ "rejected" \in StreamResults \ {"pending"}
    BY DEF StreamResults
  <2>2. Obj(outer)
    BY DEF IInv
  <2>3. CASE r = "resolved"
    BY <1>1, <2>1, <2>2, <2>3, SetStreamResultObj, SetStreamResultSettles
  <2>4. CASE r # "resolved"
    BY <1>1, <2>1, <2>2, <2>4, DoRejectObj, DoRejectSettles
  <2> QED BY <2>3, <2>4
<1>9. Parts' /\ Reaction'
  BY <1>1, <1>3, <1>5, <1>6, <1>8 DEF Parts, Reaction, IInv, Settled
<1>10. /\ Given \in Nat
       /\ \A d \in 1 .. Given : part'[Consume(d)] = part[Consume(d)]
  <2>1. Given \in Nat /\ Given <= inner.enqueued /\ inner.enqueued \in Nat /\ inner.enqueued <= MaxData
    BY InnerNumbers DEF IInv, Between, Given
  <2>2. \A d \in 1 .. Given : d \in 1 .. MaxData
    BY <2>1, MaxDataAssumption
  <2> QED BY <1>5, <2>1, <2>2, Names
<1>11. Between' /\ Passing'
  BY <1>1, <1>6, <1>7, <1>8, <1>10 DEF IInv, Between, Passing, history
<1>12. Stopping'
  <2>1. (inner.action # "Continue" /\ inner.result # "rejected") => outer'.action # "Continue"
    BY <1>8 DEF IInv, Stopping
  <2>2. (outer'.action # "Continue" /\ outer'.result # "rejected") => outer'.call = "none"
    <3> SUFFICES ASSUME outer'.action # "Continue", outer'.result # "rejected" PROVE outer.call = "none"
      BY <1>8
    <3>1. outer.action # "Continue" \/ outer.result = "consumer_failed"
      BY <1>3, <1>8
    <3> QED BY <1>3, <3>1 DEF IInv, Stopping
  <2>3. outer'.result = "consumer_failed" => outer'.action # "Continue"
    <3>1. outer'.result = "consumer_failed" => outer.result = "consumer_failed"
      BY <1>8
    <3> QED BY <1>8, <3>1 DEF IInv, Stopping
  <2>4. late' = late /\ inner' = inner
    BY <1>1 DEF history
  <2> QED BY <1>7, <2>1, <2>2, <2>3, <2>4 DEF IInv, Stopping
<1> QED BY <1>1, <1>6, <1>8, <1>9, <1>11, <1>12 DEF IInv, history

\* Every step preserves it.
LEMMA NextIInv == IInv /\ [Next]_vars => IInv'
<1> SUFFICES ASSUME IInv, [Next]_vars PROVE IInv'
  OBVIOUS
<1>1. CASE UNCHANGED vars
  <2>1. UNCHANGED <<streaming, inner, outer, part, history, execVars>>
    BY <1>1 DEF vars
  <2>2. Placed' /\ fresh' = fresh /\ \A x \in Events : Queued(x)' <=> Queued(x)
    BY <2>1 DEF IInv, execVars, Placed, ExecTypes, OnePlace, Queued
  <2> QED BY <2>1, <2>2, ExecutorStep DEF IInv, Parts, history
<1>2. CASE EventNext
  BY <1>2, ExecutorIInv, BindIInv, ForwardIInv, AnswerIInv, DeliverIInv DEF EventNext, ConsumeNext
<1>3. CASE Handles
  BY <1>3, ExecutorIInv
<1>4. CASE SourceWrites \/ SourceSettles
  BY <1>4, SourceIInv
<1>5. CASE UserBinds \/ UserEnds \/ UserGoesAsync
  BY <1>5, UserIInv
<1> QED BY <1>1, <1>2, <1>3, <1>4, <1>5 DEF Next

-----------------------------------------------------------------------------
(* Theorems.                                                                *)

\* The inductive invariant holds in every reachable state.
THEOREM Inductive == Spec => []IInv
<1>1. Init => IInv
  BY InitIInv
<1>2. IInv /\ [Next]_vars => IInv'
  BY NextIInv
<1> QED BY <1>1, <1>2, PTL DEF Spec

\* Both streams and the executor's variables keep their types, for any number of
\* data.
THEOREM Typing == Spec => []TypeOK
<1>1. IInv => TypeOK
  BY InnerNumbers DEF IInv, Between, Placed, ExecTypes, Parts, Stopping, TypeOK
<1> QED BY <1>1, Inductive, PTL

\* The user's consumer is given the data of the factory's stream in order, for any
\* number of data and any pools (task_stream.tcc: one event for each datum).
THEOREM DataForwardedInOrder == Spec => []ForwardsInOrder
<1>1. IInv => ForwardsInOrder
  <2> SUFFICES ASSUME IInv, NEW i \in DOMAIN outer.delivered
               PROVE  forwarded[outer.delivered[i]] = i
    BY DEF ForwardsInOrder
  <2>1. /\ outer \in StreamType /\ Len(outer.delivered) \in Nat /\ outer.enqueued \in Nat
        /\ Len(outer.delivered) <= outer.enqueued
        /\ \A j \in 1 .. Len(outer.delivered) : outer.delivered[j] = j
    BY InnerNumbers DEF IInv
  <2>2. i \in 1 .. Len(outer.delivered) /\ outer.delivered[i] = i
    BY <2>1 DEF StreamType
  <2>3. outer.enqueued = Len(forwarded) /\ \A j \in 1 .. Len(forwarded) : forwarded[j] = j
    BY DEF IInv, Passing
  <2>4. i \in 1 .. Len(forwarded)
    BY <2>1, <2>2, <2>3
  <2> QED BY <2>2, <2>3, <2>4
<1> QED BY <1>1, Inductive, PTL

\* A consumer that asks the caller's stream to stop gets one datum more at most,
\* although the request crosses the pools.
THEOREM StopIsPassedOn == Spec => []StopPassedOn
<1>1. IInv => StopPassedOn
  BY DEF IInv, Stopping, StopPassedOn
<1> QED BY <1>1, Inductive, PTL

\* The result of a task is that of its factory and comes after all the data, and
\* no event but the factory's throws.
THEOREM ResultComesLast == Spec => []ResultAfterData
<1>1. IInv => ResultAfterData
  <2> SUFFICES ASSUME IInv PROVE ResultAfterData
    OBVIOUS
  <2>1. /\ Given \in Nat /\ inner.enqueued \in Nat /\ Given <= inner.enqueued
        /\ inner.enqueued <= MaxData /\ inner \in StreamType /\ Obj(inner)
    BY InnerNumbers DEF IInv, Between, Given
  <2>2. ASSUME NEW e \in Consumes \cup {React}, NEW i \in DOMAIN exceptions PROVE exceptions[i] # e
    <3>1. e # Produce
      BY Names DEF Consumes
    <3>2. exceptions[i] \in {Produce}
      BY DEF IInv, Placed, ExecTypes
    <3> QED BY <3>1, <3>2
  <2>3. ASSUME outer.result \in {"resolved", "rejected"}
        PROVE  /\ inner.state = "completed"
               /\ outer.result = (IF inner.proxy = "resolved" THEN "resolved" ELSE "rejected")
               /\ \A i \in DOMAIN queue[ConsumerPool] : queue[ConsumerPool][i] \notin Consumes
               /\ \A e \in running[ConsumerPool] \cap Consumes : part[e] = 2
               /\ (late = 0 /\ outer.result = "resolved" /\ outer.action = "Continue") =>
                      Len(forwarded) = inner.enqueued
    <3>1. /\ inner.state = "completed" /\ inner.call = "none" /\ React \notin fresh
          /\ outer.result = inner.result
      BY <2>3, ResultIsInners
    <3>2. ASSUME NEW e \in Consumes, Queued(e) \/ Runs(e) PROVE part[e] = 2 /\ ~Queued(e)
      <4>1. PICK d \in 1 .. MaxData : e = Consume(d)
        BY DEF Consumes
      <4>2. e \in Events /\ e \notin fresh
        BY <3>2, <4>1, Names, RunsAlone DEF IInv
      <4>3. d \in 1 .. Given
        BY <2>1, <4>1, <4>2 DEF IInv, Between
      <4>4. part[e] = 2
        BY <3>1, <4>1, <4>3 DEF IInv, Between
      <4> QED BY <4>2, <4>4 DEF IInv, Parts
    <3>3. \A e \in Consumes : PoolOf(e) = ConsumerPool
      BY Names DEF Consumes
    <3>4. \A i \in DOMAIN queue[ConsumerPool] : queue[ConsumerPool][i] \notin Consumes
      BY <3>2, <3>3 DEF Queued
    <3>5. \A e \in running[ConsumerPool] \cap Consumes : part[e] = 2
      BY <3>2, <3>3 DEF Runs
    <3>6. ASSUME late = 0, outer.result = "resolved", outer.action = "Continue"
          PROVE  Len(forwarded) = inner.enqueued
      <4>1. Len(forwarded) \in Nat /\ Len(forwarded) = Given
        BY <2>1, <3>1, <3>6 DEF IInv, Passing
      <4>2. inner.action = "Continue"
        BY <3>1, <3>6 DEF IInv, Stopping
      <4> DEFINE b == inner.buffer
                 k == inner.enqueued
      <4>3. /\ b \in Seq(Nat) /\ k = Given + Len(b)
            /\ \A i \in 1 .. Len(b) : b[i] = Given + i /\ b[i] > k
        BY <2>1, <3>1, <3>6, <4>2
           DEF IInv, Between, Obj, BeforeUpdate, Queue, Due, Later, Consecutive, StreamType, Given
      <4> HIDE DEF b, k
      <4>4. Len(b) \in Nat
        BY <4>3
      <4>5. CASE Len(b) = 0
        BY <2>1, <4>1, <4>3, <4>5 DEF k
      <4>6. CASE Len(b) # 0
        <5>1. Len(b) \in 1 .. Len(b)
          BY <4>4, <4>6
        <5>2. b[Len(b)] = Given + Len(b) /\ b[Len(b)] > k
          BY <4>3, <5>1
        <5>3. k > k /\ k \in Nat
          BY <2>1, <4>3, <4>4, <5>2
        <5> QED BY <5>3
      <4> QED BY <4>5, <4>6
    <3> QED BY <2>3, <3>1, <3>4, <3>5, <3>6 DEF IInv, Reaction
  <2> QED BY <2>2, <2>3 DEF ResultAfterData
<1> QED BY <1>1, Inductive, PTL
=============================================================================
