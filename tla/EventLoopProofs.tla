-------------------------- MODULE EventLoopProofs --------------------------
(***************************************************************************)
(* Proofs about EventLoop for every number of pools, workers and events:   *)
(* join() returns only when the loop is quiet and every exception has been *)
(* handled.                                                                *)
(*                                                                         *)
(* The argument: the counter is the number of busy workers (StepCounter),  *)
(* no worker is missing from it because the starter pistol lets nobody     *)
(* past before all are counted (StepPistol), and while join holds every    *)
(* queue mutex (StepLocking) no event can be pushed between its look at    *)
(* the queues and its look at the counter.  So at that second look the     *)
(* queues are empty and every worker is idle, and as only a running event  *)
(* or the main thread pushes, it stays so (StepQuiet).                     *)
(***************************************************************************)
EXTENDS EventLoop, FiniteSetTheorems, TLAPS

NotReady == {w \in Workers : pc[w] \in {"created", "counted"}}

RunningHasEvent == \A w \in Workers : pc[w] = "running" => current[w] \in Events

Typed == TypeOK /\ RunningHasEvent

Pistol ==
    /\ racers = Cardinality(NotReady) + (IF mpc = "construct" THEN 1 ELSE 0)
    /\ NobodyEarly

Locking ==
    /\ \A w \in Workers : pc[w] \in {"guard", "check", "block"} => qmx[PoolOf[w]] = w
    /\ \A p \in Pools : qmx[p] = Main => mpc \in {"lock", "zero"}
    /\ mpc = "zero" => \A p \in Pools : qmx[p] = Main /\ queue[p] = <<>>

Quiet ==
    mpc \in JoinedPcs =>
        /\ \A p \in Pools : queue[p] = <<>>
        /\ \A w \in Workers : pc[w] \in IdlePcs \cup {"leaving", "exited"}

Exceptions ==
    /\ thrown \subseteq handled \cup Range(exceptions)
    /\ mpc \in JoinedPcs \ {"final"} => exceptions = <<>>

IInv == Typed /\ CounterIsBusy /\ Pistol /\ Locking /\ Quiet /\ Exceptions

-----------------------------------------------------------------------------
(* Data.                                                                    *)

\* There is a first queue, and going round the queues stays among them.
LEMMA FollowingTyped ==
    /\ 1 \in 1 .. Size
    /\ \A i \in 1 .. Size : Following(i) \in 1 .. Size
<1>1. Size \in Nat \ {0}
  BY PoolsAssumption DEF Size
<1> QED BY <1>1 DEF Following

\* The range of a sequence after Append and Tail.
LEMMA RangeAppend ==
    ASSUME NEW S, NEW s \in Seq(S), NEW x \in S
    PROVE  Range(Append(s, x)) = Range(s) \cup {x}
<1> DEFINE t == Append(s, x)
<1>1. /\ t \in Seq(S)
      /\ DOMAIN t = 1 .. Len(s) + 1 /\ DOMAIN s = 1 .. Len(s)
      /\ Len(s) \in Nat
  OBVIOUS
<1>2. \A i \in 1 .. Len(s) : t[i] = s[i]
  OBVIOUS
<1>3. t[Len(s) + 1] = x
  OBVIOUS
<1>4. Range(t) = {t[i] : i \in 1 .. Len(s) + 1} /\ Range(s) = {s[i] : i \in 1 .. Len(s)}
  BY <1>1 DEF Range
<1> HIDE DEF t
<1>5. 1 .. Len(s) + 1 = (1 .. Len(s)) \cup {Len(s) + 1}
  BY <1>1
<1>6. Range(t) = Range(s) \cup {x}
  BY <1>2, <1>3, <1>4, <1>5
<1> QED BY <1>6 DEF t

LEMMA RangeTail ==
    ASSUME NEW S, NEW s \in Seq(S), s # <<>>
    PROVE  Range(s) \subseteq {Head(s)} \cup Range(Tail(s))
<1> SUFFICES ASSUME NEW i \in 1 .. Len(s), s[i] # Head(s) PROVE s[i] \in Range(Tail(s))
  BY DEF Range
<1>1. i - 1 \in DOMAIN Tail(s) /\ Tail(s)[i - 1] = s[i]
  OBVIOUS
<1> QED BY <1>1 DEF Range

\* The sets the counters count are finite.
LEMMA BusyFinite == IsFiniteSet(Busy)
BY WorkersAssumption, FS_Subset DEF Busy

LEMMA NotReadyFinite == IsFiniteSet(NotReady)
BY WorkersAssumption, FS_Subset DEF NotReady

\* The end of pop() hands over a typed event.
LEMMA TakeTyped ==
    ASSUME Typed, NEW w \in Workers, Take(w, PoolOf[w])
    PROVE  /\ current' \in [Workers -> Events \cup {NoEvent}]
           /\ queue' \in [Pools -> Seq(Events)]
           /\ pc' \in [Workers -> PcValues]
           /\ RunningHasEvent'
<1>1. PoolOf[w] \in Pools /\ queue[PoolOf[w]] \in Seq(Events)
  BY PoolsAssumption DEF Typed, TypeOK
<1>2. CASE queue[PoolOf[w]] # <<>>
  <2>1. Head(queue[PoolOf[w]]) \in Events /\ Tail(queue[PoolOf[w]]) \in Seq(Events)
    BY <1>1, <1>2
  <2> QED BY <1>1, <1>2, <2>1 DEF Typed, TypeOK, RunningHasEvent, PcValues, Take
<1>3. CASE queue[PoolOf[w]] = <<>>
  BY <1>1, <1>3 DEF Typed, TypeOK, RunningHasEvent, PcValues, Take
<1> QED BY <1>2, <1>3

\* A push adds an event to one queue and wakes at most one waiting worker.
LEMMA EmplaceTyped ==
    ASSUME TypeOK, NEW p \in Pools, NEW e \in Events, Emplace(p, e)
    PROVE  /\ queue' \in [Pools -> Seq(Events)]
           /\ pushed' \in [Pools -> Seq(Events)]
           /\ pc' \in [Workers -> PcValues]
           /\ \A v \in Workers : pc'[v] = pc[v] \/ (pc[v] = "waiting" /\ pc'[v] = "woken")
<1>1. Append(queue[p], e) \in Seq(Events) /\ Append(pushed[p], e) \in Seq(Events)
  BY DEF TypeOK
<1>2. queue' \in [Pools -> Seq(Events)] /\ pushed' \in [Pools -> Seq(Events)]
  BY <1>1 DEF TypeOK, Emplace
<1>3. CASE Waiting(p) = {}
  BY <1>2, <1>3 DEF TypeOK, Emplace
<1>4. CASE Waiting(p) # {}
  <2>1. PICK w \in Waiting(p) : pc' = [pc EXCEPT ![w] = "woken"]
    BY <1>4 DEF Emplace
  <2> QED BY <1>2, <2>1 DEF TypeOK, PcValues, Waiting, InPool
<1> QED BY <1>3, <1>4

-----------------------------------------------------------------------------
(* The inductive invariant.                                                 *)

\* It holds initially.
LEMMA InitIInv == Init => IInv
<1> SUFFICES ASSUME Init PROVE IInv
    OBVIOUS
<1>1. Typed
  <2>1. Cardinality(Workers) \in Nat
    BY WorkersAssumption, FS_CardinalityType
  <2>2. RunningHasEvent
    BY DEF Init, RunningHasEvent
  <2>3. racers \in Int /\ counter \in Int /\ joins \in Nat /\ cursor \in 1 .. Size
    BY <2>1, FollowingTyped DEF Init, AfterReset, InitialRacers
  <2>6. mpc \in MpcValues /\ destroying \in BOOLEAN
    BY DEF Init, MpcValues
  <2>4. /\ queue \in [Pools -> Seq(Events)] /\ pushed \in [Pools -> Seq(Events)]
        /\ nowaiting \in [Pools -> BOOLEAN]
        /\ qmx \in [Pools -> Workers \cup {Main, Free}]
        /\ exceptions \in Seq(Events) /\ thrown \subseteq Events /\ handled \subseteq Events
    BY DEF Init
  <2>5. pc \in [Workers -> PcValues] /\ current \in [Workers -> Events \cup {NoEvent}]
    BY DEF Init, PcValues
  <2> QED BY <2>2, <2>3, <2>4, <2>5, <2>6 DEF Typed, TypeOK
<1>2. CounterIsBusy
  <2>1. Busy = {}
    BY DEF Init, Busy, OutsidePcs
  <2> QED BY <2>1, FS_EmptySet DEF Init, CounterIsBusy
<1>3. Pistol
  <2>1. NotReady = Workers
    BY DEF Init, NotReady
  <2> QED BY <2>1 DEF Init, AfterReset, InitialRacers, Pistol, NobodyEarly
<1>4. Locking /\ Quiet
  BY NamesAssumption, PoolsAssumption DEF Init, Locking, Quiet, JoinedPcs
<1>5. Exceptions
  BY DEF Init, Exceptions, JoinedPcs
<1> QED BY <1>1, <1>2, <1>3, <1>4, <1>5 DEF IInv

\* Every step preserves the types.
LEMMA StepTypeOK == IInv /\ [Next]_vars => TypeOK'
<1> SUFFICES ASSUME IInv, [Next]_vars PROVE TypeOK'
    OBVIOUS
<1> USE PoolsAssumption, NamesAssumption
    DEF IInv, Typed, TypeOK, queueVars, workerVars, mainVars, historyVars
<1>1. ASSUME NEW w \in Workers, CountIn(w) \/ Ready(w) \/ Go(w)
      PROVE  TypeOK'
  <2>1. CASE CountIn(w)
    BY <2>1 DEF PcValues, MpcValues, CountIn
  <2>2. CASE Ready(w)
    BY <2>2 DEF PcValues, MpcValues, Ready
  <2>3. CASE Go(w)
    BY <2>3 DEF PcValues, MpcValues, Go
  <2> QED BY <1>1, <2>1, <2>2, <2>3
<1>2. ASSUME NEW w \in Workers, PopAtOnce(w)
      PROVE  TypeOK'
  <2>1. Take(w, PoolOf[w])
    BY <1>2 DEF PopAtOnce
  <2>2. /\ current' \in [Workers -> Events \cup {NoEvent}]
        /\ queue' \in [Pools -> Seq(Events)]
        /\ pc' \in [Workers -> PcValues]
    BY <2>1, TakeTyped
  <2> QED BY <1>2, <2>2 DEF PopAtOnce
<1>3. ASSUME NEW w \in Workers, PopMustWait(w) \/ CountIdle(w)
      PROVE  TypeOK'
  <2>1. CASE PopMustWait(w)
    BY <2>1 DEF PcValues, MpcValues, PopMustWait, EndWait
  <2>2. CASE CountIdle(w)
    BY <2>2 DEF PcValues, MpcValues, CountIdle
  <2> QED BY <1>3, <2>1, <2>2
<1>4. ASSUME NEW w \in Workers, EndOfWait(w)
      PROVE  TypeOK'
  <2>1. Take(w, PoolOf[w])
    BY <1>4 DEF EndOfWait
  <2>2. /\ current' \in [Workers -> Events \cup {NoEvent}]
        /\ queue' \in [Pools -> Seq(Events)]
        /\ pc' \in [Workers -> PcValues]
    BY <2>1, TakeTyped
  <2>3. qmx' \in [Pools -> Workers \cup {Main, Free}] /\ counter' \in Int
    BY <1>4 DEF EndOfWait
  <2> QED BY <1>4, <2>2, <2>3 DEF EndOfWait
<1>5. ASSUME NEW w \in Workers, KeepWaiting(w) \/ Block(w) \/ WakeSpuriously(w) \/ Reacquire(w)
      PROVE  TypeOK'
  <2>1. CASE KeepWaiting(w)
    BY <2>1 DEF PcValues, MpcValues, KeepWaiting, EndWait
  <2>2. CASE Block(w)
    BY <2>2 DEF PcValues, MpcValues, Block
  <2>3. CASE WakeSpuriously(w)
    BY <2>3 DEF PcValues, MpcValues, WakeSpuriously
  <2>4. CASE Reacquire(w)
    BY <2>4 DEF PcValues, MpcValues, Reacquire
  <2> QED BY <1>5, <2>1, <2>2, <2>3, <2>4
<1>6. ASSUME NEW w \in Workers, EventPushes(w)
      PROVE  TypeOK'
  <2>1. PICK p \in Pools, e \in Events : Emplace(p, e)
    BY <1>6 DEF EventPushes, Push
  <2> QED BY <1>6, <2>1, EmplaceTyped DEF EventPushes, Push, Emplace
<1>7. ASSUME NEW w \in Workers, EventReturns(w)
      PROVE  TypeOK'
  BY <1>7 DEF PcValues, MpcValues, EventReturns
<1>8. ASSUME NEW w \in Workers, EventThrows(w)
      PROVE  TypeOK'
  <2>1. current[w] \in Events
    BY <1>8 DEF RunningHasEvent, EventThrows
  <2>2. exceptions' \in Seq(Events) /\ thrown' \subseteq Events
    BY <1>8, <2>1 DEF EventThrows
  <2> QED BY <1>8, <2>2 DEF PcValues, EventThrows
<1>9. ASSUME NEW w \in Workers, Leave(w)
      PROVE  TypeOK'
  BY <1>9 DEF PcValues, MpcValues, Leave
<1>10. ASSUME MainReady \/ MainGo \/ CallProcessExceptions \/ CallJoin \/ CallDestructor
      PROVE  TypeOK'
  <2>1. CASE MainReady
    BY <2>1 DEF PcValues, MpcValues, MainReady
  <2>2. CASE MainGo
    BY <2>2 DEF PcValues, MpcValues, MainGo, MainGoes
  <2>3. CASE CallProcessExceptions
    BY <2>3 DEF PcValues, MpcValues, CallProcessExceptions, AtRest, MainGoes
  <2>4. CASE CallJoin
    BY <2>4 DEF PcValues, MpcValues, CallJoin, AtRest, MainGoes
  <2>5. CASE CallDestructor
    BY <2>5 DEF PcValues, MpcValues, CallDestructor, AtRest, MainGoes
  <2> QED BY <1>10, <2>1, <2>2, <2>3, <2>4, <2>5
<1>11. ASSUME MainPushes
      PROVE  TypeOK'
  <2>1. PICK p \in Pools, e \in Events : Emplace(p, e)
    BY <1>11 DEF MainPushes, Push
  <2> QED BY <1>11, <2>1, EmplaceTyped DEF MpcValues, MainPushes, Push, Emplace
<1>12. ASSUME ProcessException \/ HandlerThrows
      PROVE  TypeOK'
  <2>1. CASE ProcessException
    BY <2>1 DEF PcValues, MpcValues, ProcessException
  <2>2. CASE HandlerThrows
    BY <2>2 DEF PcValues, MpcValues, HandlerThrows
  <2> QED BY <1>12, <2>1, <2>2
<1>13. ASSUME ExceptionsProcessed
      PROVE  TypeOK'
  BY <1>13, FollowingTyped DEF MpcValues, ExceptionsProcessed, MainGoes
<1>14. ASSUME ZeroReached
      PROVE  TypeOK'
  BY <1>14, FollowingTyped DEF MpcValues, ZeroReached, MainGoes
<1>15. ASSUME LockNext \/ BackOff
      PROVE  TypeOK'
  <2>0. Following(cursor) \in 1 .. Size
    BY FollowingTyped
  <2>1. CASE LockNext
    BY <2>0, <2>1 DEF LockNext
  <2>2. CASE BackOff
    BY <2>2 DEF BackOff, UnlockAll
  <2> QED BY <1>15, <2>1, <2>2
<1>16. ASSUME CheckEmpty
      PROVE  TypeOK'
  BY <1>16 DEF PcValues, MpcValues, CheckEmpty, UnlockAll, Held
<1>17. ASSUME CheckZero
      PROVE  TypeOK'
  BY <1>17 DEF PcValues, MpcValues, CheckZero, UnlockAll
<1>18. ASSUME StoreNoWaiting \/ NotifyAll \/ JoinThreads
      PROVE  TypeOK'
  <2>0. Following(cursor) \in 1 .. Size
    BY FollowingTyped
  <2>1. CASE StoreNoWaiting
    BY <2>1 DEF MpcValues, StoreNoWaiting
  <2>2. CASE NotifyAll
    BY <2>0, <2>2 DEF PcValues, MpcValues, NotifyAll
  <2>3. CASE JoinThreads
    BY <2>3 DEF MpcValues, JoinThreads, MainGoes
  <2> QED BY <1>18, <2>1, <2>2, <2>3
<1>19. ASSUME UNCHANGED vars
      PROVE  TypeOK'
  BY <1>19 DEF PcValues, MpcValues, vars
<1> QED BY <1>1, <1>2, <1>3, <1>4, <1>5, <1>6, <1>7, <1>8, <1>9, <1>10, <1>11, <1>12, <1>13, <1>14,
   <1>15, <1>16, <1>17, <1>18, <1>19 DEF Next, WorkerStep, MainStep, MainCalls, Destroyed

\* A worker only ever runs an event.
LEMMA StepRunning == IInv /\ [Next]_vars => RunningHasEvent'
<1> SUFFICES ASSUME IInv, [Next]_vars PROVE RunningHasEvent'
    OBVIOUS
<1> USE PoolsAssumption, NamesAssumption
    DEF IInv, Typed, TypeOK, queueVars, workerVars, mainVars, historyVars
<1>1. ASSUME NEW w \in Workers, CountIn(w) \/ Ready(w) \/ Go(w)
      PROVE  RunningHasEvent'
  BY <1>1 DEF RunningHasEvent, CountIn, Ready, Go
<1>2. ASSUME NEW w \in Workers, PopAtOnce(w)
      PROVE  RunningHasEvent'
  <2>1. Take(w, PoolOf[w])
    BY <1>2 DEF PopAtOnce
  <2> QED BY <2>1, TakeTyped
<1>3. ASSUME NEW w \in Workers, PopMustWait(w) \/ CountIdle(w)
      PROVE  RunningHasEvent'
  BY <1>3 DEF RunningHasEvent, PopMustWait, EndWait, CountIdle
<1>4. ASSUME NEW w \in Workers, EndOfWait(w)
      PROVE  RunningHasEvent'
  <2>1. Take(w, PoolOf[w])
    BY <1>4 DEF EndOfWait
  <2> QED BY <2>1, TakeTyped
<1>5. ASSUME NEW w \in Workers, KeepWaiting(w) \/ Block(w) \/ WakeSpuriously(w) \/ Reacquire(w)
      PROVE  RunningHasEvent'
  BY <1>5 DEF RunningHasEvent, KeepWaiting, EndWait, Block, WakeSpuriously, Reacquire
<1>6. ASSUME NEW w \in Workers, EventPushes(w)
      PROVE  RunningHasEvent'
  BY <1>6 DEF RunningHasEvent, EventPushes, Push, Emplace, Waiting, InPool, Unpushed
<1>7. ASSUME NEW w \in Workers, EventReturns(w)
      PROVE  RunningHasEvent'
  BY <1>7 DEF RunningHasEvent, EventReturns
<1>8. ASSUME NEW w \in Workers, EventThrows(w)
      PROVE  RunningHasEvent'
  BY <1>8 DEF RunningHasEvent, EventThrows
<1>9. ASSUME NEW w \in Workers, Leave(w)
      PROVE  RunningHasEvent'
  BY <1>9 DEF RunningHasEvent, Leave
<1>10. ASSUME MainReady \/ MainGo \/ CallProcessExceptions \/ CallJoin \/ CallDestructor
      PROVE  RunningHasEvent'
  BY <1>10 DEF RunningHasEvent, MainReady, MainGo, MainGoes, CallProcessExceptions, AtRest,
     CallJoin, CallDestructor
<1>11. ASSUME MainPushes
      PROVE  RunningHasEvent'
  BY <1>11 DEF RunningHasEvent, MainPushes, Push, Emplace, Waiting, InPool, Unpushed, AtRest
<1>12. ASSUME ProcessException \/ HandlerThrows
      PROVE  RunningHasEvent'
  BY <1>12 DEF RunningHasEvent, ProcessException, HandlerThrows
<1>13. ASSUME ExceptionsProcessed
      PROVE  RunningHasEvent'
  BY <1>13 DEF RunningHasEvent, ExceptionsProcessed, MainGoes
<1>14. ASSUME ZeroReached
      PROVE  RunningHasEvent'
  BY <1>14 DEF RunningHasEvent, ZeroReached, MainGoes
<1>15. ASSUME LockNext \/ BackOff
      PROVE  RunningHasEvent'
  BY <1>15 DEF RunningHasEvent, LockNext, Following, Held, BackOff, UnlockAll
<1>16. ASSUME CheckEmpty
      PROVE  RunningHasEvent'
  BY <1>16 DEF RunningHasEvent, CheckEmpty, UnlockAll, Held
<1>17. ASSUME CheckZero
      PROVE  RunningHasEvent'
  BY <1>17 DEF RunningHasEvent, CheckZero, UnlockAll
<1>18. ASSUME StoreNoWaiting \/ NotifyAll \/ JoinThreads
      PROVE  RunningHasEvent'
  BY <1>18 DEF RunningHasEvent, StoreNoWaiting, NotifyAll, Waiting, InPool, Following, JoinThreads,
     MainGoes
<1>19. ASSUME UNCHANGED vars
      PROVE  RunningHasEvent'
  BY <1>19 DEF RunningHasEvent, vars
<1> QED BY <1>1, <1>2, <1>3, <1>4, <1>5, <1>6, <1>7, <1>8, <1>9, <1>10, <1>11, <1>12, <1>13, <1>14,
   <1>15, <1>16, <1>17, <1>18, <1>19 DEF Next, WorkerStep, MainStep, MainCalls, Destroyed

\* Every step keeps the counter equal to the number of busy workers.
LEMMA StepCounter == IInv /\ [Next]_vars => CounterIsBusy'
<1> SUFFICES ASSUME IInv, [Next]_vars PROVE CounterIsBusy'
    OBVIOUS
<1> USE PoolsAssumption, NamesAssumption
    DEF IInv, Typed, TypeOK, queueVars, workerVars, mainVars, historyVars
<1>1. ASSUME NEW w \in Workers, CountIn(w)
      PROVE  CounterIsBusy'
  <2>1. Busy' = Busy \cup {w} /\ w \notin Busy
    BY <1>1 DEF Busy, IdlePcs, OutsidePcs, CountIn
  <2>2. IsFiniteSet(Busy)
    BY BusyFinite
  <2> QED BY <1>1, <2>1, <2>2, FS_AddElement, FS_CardinalityType DEF CounterIsBusy, CountIn
<1>2. ASSUME NEW w \in Workers, Ready(w) \/ Go(w)
      PROVE  CounterIsBusy'
  <2>1. Busy' = Busy /\ counter' = counter
    BY <1>2 DEF Busy, IdlePcs, OutsidePcs, Ready, Go
  <2> QED BY <2>1 DEF CounterIsBusy
<1>3. ASSUME NEW w \in Workers, PopAtOnce(w)
      PROVE  CounterIsBusy'
  <2>1. Busy' = Busy /\ counter' = counter
    BY <1>3 DEF Busy, IdlePcs, OutsidePcs, PopAtOnce, Take, EndWait
  <2> QED BY <2>1 DEF CounterIsBusy
<1>4. ASSUME NEW w \in Workers, PopMustWait(w)
      PROVE  CounterIsBusy'
  <2>1. Busy' = Busy /\ counter' = counter
    BY <1>4 DEF Busy, IdlePcs, OutsidePcs, PopMustWait, EndWait
  <2> QED BY <2>1 DEF CounterIsBusy
<1>5. ASSUME NEW w \in Workers, CountIdle(w)
      PROVE  CounterIsBusy'
  <2>1. Busy' = Busy \ {w} /\ w \in Busy
    BY <1>5 DEF Busy, IdlePcs, OutsidePcs, CountIdle
  <2>2. IsFiniteSet(Busy)
    BY BusyFinite
  <2> QED BY <1>5, <2>1, <2>2, FS_RemoveElement, FS_CardinalityType DEF CounterIsBusy, CountIdle
<1>6. ASSUME NEW w \in Workers, EndOfWait(w)
      PROVE  CounterIsBusy'
  <2>1. Busy' = Busy \cup {w} /\ w \notin Busy
    BY <1>6 DEF Busy, IdlePcs, OutsidePcs, EndOfWait, Take
  <2>2. IsFiniteSet(Busy)
    BY BusyFinite
  <2> QED BY <1>6, <2>1, <2>2, FS_AddElement, FS_CardinalityType DEF CounterIsBusy, EndOfWait
<1>7. ASSUME NEW w \in Workers, KeepWaiting(w) \/ Block(w) \/ WakeSpuriously(w) \/ Reacquire(w)
      PROVE  CounterIsBusy'
  <2>1. Busy' = Busy /\ counter' = counter
    BY <1>7 DEF Busy, IdlePcs, OutsidePcs, KeepWaiting, EndWait, Block, WakeSpuriously, Reacquire
  <2> QED BY <2>1 DEF CounterIsBusy
<1>8. ASSUME NEW w \in Workers, EventPushes(w)
      PROVE  CounterIsBusy'
  <2>1. Busy' = Busy /\ counter' = counter
    BY <1>8 DEF Busy, IdlePcs, OutsidePcs, EventPushes, Push, Emplace, Waiting, InPool, Unpushed
  <2> QED BY <2>1 DEF CounterIsBusy
<1>9. ASSUME NEW w \in Workers, EventReturns(w) \/ EventThrows(w)
      PROVE  CounterIsBusy'
  <2>1. Busy' = Busy /\ counter' = counter
    BY <1>9 DEF Busy, IdlePcs, OutsidePcs, EventReturns, EventThrows
  <2> QED BY <2>1 DEF CounterIsBusy
<1>10. ASSUME NEW w \in Workers, Leave(w)
      PROVE  CounterIsBusy'
  <2>1. Busy' = Busy \ {w} /\ w \in Busy
    BY <1>10 DEF Busy, IdlePcs, OutsidePcs, Leave
  <2>2. IsFiniteSet(Busy)
    BY BusyFinite
  <2> QED BY <1>10, <2>1, <2>2, FS_RemoveElement, FS_CardinalityType DEF CounterIsBusy, Leave
<1>11. ASSUME MainReady \/ MainGo \/ CallProcessExceptions \/ CallJoin \/ CallDestructor
      PROVE  CounterIsBusy'
  <2>1. Busy' = Busy /\ counter' = counter
    BY <1>11 DEF Busy, IdlePcs, OutsidePcs, MainReady, MainGo, MainGoes, CallProcessExceptions,
       AtRest, CallJoin, CallDestructor
  <2> QED BY <2>1 DEF CounterIsBusy
<1>12. ASSUME MainPushes
      PROVE  CounterIsBusy'
  <2>1. Busy' = Busy /\ counter' = counter
    BY <1>12 DEF Busy, IdlePcs, OutsidePcs, MainPushes, Push, Emplace, Waiting, InPool, Unpushed,
       AtRest
  <2> QED BY <2>1 DEF CounterIsBusy
<1>13. ASSUME ProcessException \/ HandlerThrows \/ ExceptionsProcessed \/ ZeroReached
      PROVE  CounterIsBusy'
  <2>1. Busy' = Busy /\ counter' = counter
    BY <1>13 DEF Busy, IdlePcs, OutsidePcs, ProcessException, HandlerThrows, ExceptionsProcessed,
       MainGoes, ZeroReached
  <2> QED BY <2>1 DEF CounterIsBusy
<1>14. ASSUME LockNext \/ BackOff \/ CheckEmpty \/ CheckZero
      PROVE  CounterIsBusy'
  <2>1. Busy' = Busy /\ counter' = counter
    BY <1>14 DEF Busy, IdlePcs, OutsidePcs, LockNext, Following, Held, BackOff, UnlockAll,
       CheckEmpty, CheckZero
  <2> QED BY <2>1 DEF CounterIsBusy
<1>15. ASSUME StoreNoWaiting \/ NotifyAll \/ JoinThreads
      PROVE  CounterIsBusy'
  <2>1. Busy' = Busy /\ counter' = counter
    BY <1>15 DEF Busy, IdlePcs, OutsidePcs, StoreNoWaiting, NotifyAll, Waiting, InPool, Following,
       JoinThreads, MainGoes
  <2> QED BY <2>1 DEF CounterIsBusy
<1>16. ASSUME UNCHANGED vars
      PROVE  CounterIsBusy'
  BY <1>16 DEF CounterIsBusy, Busy, vars
<1> QED BY <1>1, <1>2, <1>3, <1>4, <1>5, <1>6, <1>7, <1>8, <1>9, <1>10, <1>11, <1>12, <1>13, <1>14,
   <1>15, <1>16 DEF Next, WorkerStep, MainStep, MainCalls, Destroyed

\* Every step preserves what the starter pistol guarantees.
LEMMA StepPistol == IInv /\ [Next]_vars => Pistol'
<1> SUFFICES ASSUME IInv, [Next]_vars PROVE Pistol'
    OBVIOUS
<1> USE PoolsAssumption, NamesAssumption
    DEF IInv, Typed, TypeOK, queueVars, workerVars, mainVars, historyVars
<1>1. ASSUME NEW w \in Workers, CountIn(w)
      PROVE  Pistol'
  <2>1. NotReady' = NotReady
    BY <1>1 DEF NotReady, CountIn
  <2>2. NobodyEarly'
    BY <1>1 DEF Pistol, NobodyEarly, CountIn
  <2>3. racers' = racers /\ (mpc = "construct" <=> mpc' = "construct")
    BY <1>1 DEF CountIn, AtRest
  <2> QED BY <2>1, <2>2, <2>3 DEF Pistol
<1>2. ASSUME NEW w \in Workers, Ready(w)
      PROVE  Pistol'
  <2>1. NotReady' = NotReady \ {w} /\ w \in NotReady
    BY <1>2 DEF NotReady, Ready
  <2>2. Cardinality(NotReady') = Cardinality(NotReady) - 1
    BY <2>1, NotReadyFinite, FS_RemoveElement
  <2>3. NobodyEarly'
    BY <1>2 DEF Pistol, NobodyEarly, Ready
  <2>4. racers' = racers - 1 /\ mpc' = mpc
    BY <1>2 DEF Ready
  <2>5. Cardinality(NotReady) \in Nat
    BY NotReadyFinite, FS_CardinalityType
  <2>6. racers = Cardinality(NotReady) + (IF mpc = "construct" THEN 1 ELSE 0)
    BY DEF Pistol
  <2> HIDE DEF IInv, Typed, TypeOK
  <2>7. racers' = Cardinality(NotReady') + (IF mpc' = "construct" THEN 1 ELSE 0)
    BY <2>2, <2>4, <2>5, <2>6
  <2> QED BY <2>3, <2>7 DEF Pistol
<1>3. ASSUME NEW w \in Workers, Go(w)
      PROVE  Pistol'
  <2>1. NotReady = {} /\ mpc # "construct"
    BY <1>3, NotReadyFinite, FS_CardinalityType, FS_EmptySet DEF Pistol, Go
  <2>2. NotReady' = NotReady
    BY <1>3 DEF NotReady, Go
  <2> QED BY <1>3, <2>1, <2>2 DEF Pistol, NobodyEarly, NotReady, Go
<1>4. ASSUME NEW w \in Workers, PopAtOnce(w) \/ EndOfWait(w)
      PROVE  Pistol'
  <2>1. NotReady' = NotReady
    BY <1>4 DEF NotReady, PopAtOnce, Take, EndWait, EndOfWait
  <2>2. NobodyEarly'
    BY <1>4 DEF Pistol, NobodyEarly, PopAtOnce, Take, EndWait, EndOfWait
  <2>3. racers' = racers /\ (mpc = "construct" <=> mpc' = "construct")
    BY <1>4 DEF PopAtOnce, Take, EndWait, EndOfWait, AtRest
  <2> QED BY <2>1, <2>2, <2>3 DEF Pistol
<1>5. ASSUME NEW w \in Workers, PopMustWait(w) \/ CountIdle(w)
      PROVE  Pistol'
  <2>1. NotReady' = NotReady
    BY <1>5 DEF NotReady, PopMustWait, EndWait, CountIdle
  <2>2. NobodyEarly'
    BY <1>5 DEF Pistol, NobodyEarly, PopMustWait, EndWait, CountIdle
  <2>3. racers' = racers /\ (mpc = "construct" <=> mpc' = "construct")
    BY <1>5 DEF PopMustWait, EndWait, CountIdle, AtRest
  <2> QED BY <2>1, <2>2, <2>3 DEF Pistol
<1>6. ASSUME NEW w \in Workers, KeepWaiting(w) \/ Block(w) \/ WakeSpuriously(w) \/ Reacquire(w)
      PROVE  Pistol'
  <2>1. NotReady' = NotReady
    BY <1>6 DEF NotReady, KeepWaiting, EndWait, Block, WakeSpuriously, Reacquire
  <2>2. NobodyEarly'
    BY <1>6 DEF Pistol, NobodyEarly, KeepWaiting, EndWait, Block, WakeSpuriously, Reacquire
  <2>3. racers' = racers /\ (mpc = "construct" <=> mpc' = "construct")
    BY <1>6 DEF KeepWaiting, EndWait, Block, WakeSpuriously, Reacquire, AtRest
  <2> QED BY <2>1, <2>2, <2>3 DEF Pistol
<1>7. ASSUME NEW w \in Workers, EventPushes(w)
      PROVE  Pistol'
  <2>1. PICK p \in Pools, e \in Events : Emplace(p, e)
    BY <1>7 DEF EventPushes, Push
  <2>2. \A v \in Workers : pc'[v] = pc[v] \/ (pc[v] = "waiting" /\ pc'[v] = "woken")
    BY <2>1, EmplaceTyped
  <2>3. NotReady' = NotReady
    BY <2>2 DEF NotReady
  <2>4. NobodyEarly'
    BY <1>7, <2>2 DEF Pistol, NobodyEarly, EventPushes, Push
  <2> QED BY <1>7, <2>1, <2>3, <2>4 DEF Pistol, EventPushes, Push, Emplace
<1>8. ASSUME NEW w \in Workers, EventReturns(w) \/ EventThrows(w) \/ Leave(w)
      PROVE  Pistol'
  <2>1. NotReady' = NotReady
    BY <1>8 DEF NotReady, EventReturns, EventThrows, Leave
  <2>2. NobodyEarly'
    BY <1>8 DEF Pistol, NobodyEarly, EventReturns, EventThrows, Leave
  <2>3. racers' = racers /\ (mpc = "construct" <=> mpc' = "construct")
    BY <1>8 DEF EventReturns, EventThrows, Leave, AtRest
  <2> QED BY <2>1, <2>2, <2>3 DEF Pistol
<1>9. ASSUME MainReady
      PROVE  Pistol'
  <2>1. NotReady' = NotReady
    BY <1>9 DEF NotReady, MainReady
  <2>2. NobodyEarly'
    BY <1>9 DEF Pistol, NobodyEarly, MainReady
  <2> QED BY <1>9, <2>1, <2>2, NotReadyFinite, FS_CardinalityType DEF Pistol, MainReady
<1>10. ASSUME MainGo
      PROVE  Pistol'
  <2>1. NotReady = {}
    BY <1>10, NotReadyFinite, FS_CardinalityType, FS_EmptySet DEF Pistol, MainGo
  <2>2. NotReady' = NotReady
    BY <1>10 DEF NotReady, MainGo, MainGoes
  <2> QED BY <1>10, <2>1, <2>2 DEF Pistol, NobodyEarly, NotReady, MainGo, MainGoes
<1>11. ASSUME CallProcessExceptions \/ CallJoin \/ CallDestructor
      PROVE  Pistol'
  <2>1. NotReady' = NotReady
    BY <1>11 DEF NotReady, CallProcessExceptions, AtRest, MainGoes, CallJoin, CallDestructor
  <2>2. NobodyEarly'
    BY <1>11 DEF Pistol, NobodyEarly, CallProcessExceptions, AtRest, MainGoes, CallJoin,
       CallDestructor
  <2>3. racers' = racers /\ (mpc = "construct" <=> mpc' = "construct")
    BY <1>11 DEF CallProcessExceptions, AtRest, MainGoes, CallJoin, CallDestructor
  <2> QED BY <2>1, <2>2, <2>3 DEF Pistol
<1>12. ASSUME MainPushes
      PROVE  Pistol'
  <2>1. NotReady' = NotReady
    BY <1>12 DEF NotReady, MainPushes, Push, Emplace, Waiting, InPool, Unpushed, AtRest
  <2>2. NobodyEarly'
    BY <1>12 DEF Pistol, NobodyEarly, MainPushes, Push, Emplace, Waiting, InPool, Unpushed, AtRest
  <2>3. racers' = racers /\ (mpc = "construct" <=> mpc' = "construct")
    BY <1>12 DEF MainPushes, Push, Emplace, Waiting, InPool, Unpushed, AtRest
  <2> QED BY <2>1, <2>2, <2>3 DEF Pistol
<1>13. ASSUME ProcessException \/ HandlerThrows \/ ExceptionsProcessed \/ ZeroReached
      PROVE  Pistol'
  <2>1. NotReady' = NotReady
    BY <1>13 DEF NotReady, ProcessException, HandlerThrows, ExceptionsProcessed, MainGoes,
       ZeroReached
  <2>2. NobodyEarly'
    BY <1>13 DEF Pistol, NobodyEarly, ProcessException, HandlerThrows, ExceptionsProcessed,
       MainGoes, ZeroReached
  <2>3. racers' = racers /\ (mpc = "construct" <=> mpc' = "construct")
    BY <1>13 DEF ProcessException, HandlerThrows, ExceptionsProcessed, MainGoes, ZeroReached, AtRest
  <2> QED BY <2>1, <2>2, <2>3 DEF Pistol
<1>14. ASSUME LockNext \/ BackOff \/ CheckEmpty \/ CheckZero
      PROVE  Pistol'
  <2>1. NotReady' = NotReady
    BY <1>14 DEF NotReady, LockNext, Following, Held, BackOff, UnlockAll, CheckEmpty, CheckZero
  <2>2. NobodyEarly'
    BY <1>14 DEF Pistol, NobodyEarly, LockNext, Following, Held, BackOff, UnlockAll, CheckEmpty,
       CheckZero
  <2>3. racers' = racers /\ (mpc = "construct" <=> mpc' = "construct")
    BY <1>14 DEF LockNext, Following, Held, BackOff, UnlockAll, CheckEmpty, CheckZero, AtRest
  <2> QED BY <2>1, <2>2, <2>3 DEF Pistol
<1>15. ASSUME StoreNoWaiting \/ NotifyAll \/ JoinThreads
      PROVE  Pistol'
  <2>1. NotReady' = NotReady
    BY <1>15 DEF NotReady, StoreNoWaiting, NotifyAll, Waiting, InPool, Following, JoinThreads,
       MainGoes
  <2>2. NobodyEarly'
    BY <1>15 DEF Pistol, NobodyEarly, StoreNoWaiting, NotifyAll, Waiting, InPool, Following,
       JoinThreads, MainGoes
  <2>3. racers' = racers /\ (mpc = "construct" <=> mpc' = "construct")
    BY <1>15 DEF StoreNoWaiting, NotifyAll, Waiting, InPool, Following, JoinThreads, MainGoes,
       AtRest
  <2> QED BY <2>1, <2>2, <2>3 DEF Pistol
<1>16. ASSUME UNCHANGED vars
      PROVE  Pistol'
  BY <1>16 DEF Pistol, NobodyEarly, NotReady, vars
<1> QED BY <1>1, <1>2, <1>3, <1>4, <1>5, <1>6, <1>7, <1>8, <1>9, <1>10, <1>11, <1>12, <1>13, <1>14,
   <1>15, <1>16 DEF Next, WorkerStep, MainStep, MainCalls, Destroyed

\* Every step respects the queue mutexes.
LEMMA StepLocking == IInv /\ [Next]_vars => Locking'
<1> SUFFICES ASSUME IInv, [Next]_vars PROVE Locking'
    OBVIOUS
<1> USE PoolsAssumption, NamesAssumption
    DEF IInv, Typed, TypeOK, queueVars, workerVars, mainVars, historyVars
<1>1. ASSUME NEW w \in Workers, CountIn(w) \/ Ready(w) \/ Go(w)
      PROVE  Locking'
  <2>1. CASE CountIn(w)
    BY <2>1 DEF Locking, CountIn
  <2>2. CASE Ready(w)
    BY <2>2 DEF Locking, Ready
  <2>3. CASE Go(w)
    BY <2>3 DEF Locking, Go
  <2> QED BY <1>1, <2>1, <2>2, <2>3
<1>2. ASSUME NEW w \in Workers, PopAtOnce(w)
      PROVE  Locking'
  BY <1>2 DEF Locking, PopAtOnce, Take, EndWait
<1>3. ASSUME NEW w \in Workers, PopMustWait(w) \/ CountIdle(w)
      PROVE  Locking'
  <2>1. CASE PopMustWait(w)
    BY <2>1 DEF Locking, PopMustWait, EndWait
  <2>2. CASE CountIdle(w)
    BY <2>2 DEF Locking, CountIdle
  <2> QED BY <1>3, <2>1, <2>2
<1>4. ASSUME NEW w \in Workers, EndOfWait(w)
      PROVE  Locking'
  BY <1>4 DEF Locking, EndOfWait, Take, EndWait
<1>5. ASSUME NEW w \in Workers, KeepWaiting(w) \/ Block(w) \/ WakeSpuriously(w) \/ Reacquire(w)
      PROVE  Locking'
  <2>1. CASE KeepWaiting(w)
    BY <2>1 DEF Locking, KeepWaiting, EndWait
  <2>2. CASE Block(w)
    BY <2>2 DEF Locking, Block
  <2>3. CASE WakeSpuriously(w)
    BY <2>3 DEF Locking, WakeSpuriously
  <2>4. CASE Reacquire(w)
    BY <2>4 DEF Locking, Reacquire
  <2> QED BY <1>5, <2>1, <2>2, <2>3, <2>4
<1>6. ASSUME NEW w \in Workers, EventPushes(w)
      PROVE  Locking'
  BY <1>6 DEF Locking, EventPushes, Push, Emplace, Waiting, InPool, Unpushed
<1>7. ASSUME NEW w \in Workers, EventReturns(w)
      PROVE  Locking'
  BY <1>7 DEF Locking, EventReturns
<1>8. ASSUME NEW w \in Workers, EventThrows(w)
      PROVE  Locking'
  BY <1>8 DEF Locking, EventThrows
<1>9. ASSUME NEW w \in Workers, Leave(w)
      PROVE  Locking'
  BY <1>9 DEF Locking, Leave
<1>10. ASSUME MainReady \/ MainGo \/ CallProcessExceptions \/ CallJoin \/ CallDestructor
      PROVE  Locking'
  <2>1. CASE MainReady
    BY <2>1 DEF Locking, MainReady
  <2>2. CASE MainGo
    BY <2>2 DEF Locking, MainGo, MainGoes
  <2>3. CASE CallProcessExceptions
    BY <2>3 DEF Locking, CallProcessExceptions, AtRest, MainGoes
  <2>4. CASE CallJoin
    BY <2>4 DEF Locking, CallJoin, AtRest, MainGoes
  <2>5. CASE CallDestructor
    BY <2>5 DEF Locking, CallDestructor, AtRest, MainGoes
  <2> QED BY <1>10, <2>1, <2>2, <2>3, <2>4, <2>5
<1>11. ASSUME MainPushes
      PROVE  Locking'
  BY <1>11 DEF Locking, MainPushes, Push, Emplace, Waiting, InPool, Unpushed, AtRest
<1>12. ASSUME ProcessException \/ HandlerThrows
      PROVE  Locking'
  <2>1. CASE ProcessException
    BY <2>1 DEF Locking, ProcessException
  <2>2. CASE HandlerThrows
    BY <2>2 DEF Locking, HandlerThrows
  <2> QED BY <1>12, <2>1, <2>2
<1>13. ASSUME ExceptionsProcessed
      PROVE  Locking'
  BY <1>13 DEF Locking, ExceptionsProcessed, MainGoes
<1>14. ASSUME ZeroReached
      PROVE  Locking'
  BY <1>14 DEF Locking, ZeroReached, MainGoes
<1>15. ASSUME LockNext \/ BackOff
      PROVE  Locking'
  <2>1. CASE LockNext
    BY <2>1 DEF Locking, LockNext, Following, Held
  <2>2. CASE BackOff
    BY <2>2 DEF Locking, BackOff, UnlockAll, Held
  <2> QED BY <1>15, <2>1, <2>2
<1>16. ASSUME CheckEmpty
      PROVE  Locking'
  BY <1>16 DEF Locking, CheckEmpty, UnlockAll, Held
<1>17. ASSUME CheckZero
      PROVE  Locking'
  BY <1>17 DEF Locking, CheckZero, UnlockAll
<1>18. ASSUME StoreNoWaiting \/ NotifyAll \/ JoinThreads
      PROVE  Locking'
  <2>1. CASE StoreNoWaiting
    BY <2>1 DEF Locking, StoreNoWaiting
  <2>2. CASE NotifyAll
    BY <2>2 DEF Locking, NotifyAll, Waiting, InPool, Following
  <2>3. CASE JoinThreads
    BY <2>3 DEF Locking, JoinThreads, MainGoes
  <2> QED BY <1>18, <2>1, <2>2, <2>3
<1>19. ASSUME UNCHANGED vars
      PROVE  Locking'
  BY <1>19 DEF Locking, vars
<1> QED BY <1>1, <1>2, <1>3, <1>4, <1>5, <1>6, <1>7, <1>8, <1>9, <1>10, <1>11, <1>12, <1>13, <1>14,
   <1>15, <1>16, <1>17, <1>18, <1>19 DEF Next, WorkerStep, MainStep, MainCalls, Destroyed

\* Once join has decided to return, every step keeps the loop quiet.
LEMMA StepQuiet == IInv /\ [Next]_vars => Quiet'
<1> SUFFICES ASSUME IInv, [Next]_vars PROVE Quiet'
    OBVIOUS
<1> USE PoolsAssumption, NamesAssumption
    DEF IInv, Typed, TypeOK, queueVars, workerVars, mainVars, historyVars
<1>1. ASSUME NEW w \in Workers, CountIn(w) \/ Ready(w) \/ Go(w)
      PROVE  Quiet'
  BY <1>1 DEF Locking, Quiet, JoinedPcs, IdlePcs, CountIn, Ready, Go
<1>2. ASSUME NEW w \in Workers, PopAtOnce(w)
      PROVE  Quiet'
  BY <1>2 DEF Locking, Quiet, JoinedPcs, IdlePcs, PopAtOnce, Take, EndWait
<1>3. ASSUME NEW w \in Workers, PopMustWait(w) \/ CountIdle(w)
      PROVE  Quiet'
  BY <1>3 DEF Locking, Quiet, JoinedPcs, IdlePcs, PopMustWait, EndWait, CountIdle
<1>4. ASSUME NEW w \in Workers, EndOfWait(w)
      PROVE  Quiet'
  BY <1>4 DEF Locking, Quiet, JoinedPcs, IdlePcs, EndOfWait, Take, EndWait
<1>5. ASSUME NEW w \in Workers, KeepWaiting(w) \/ Block(w) \/ WakeSpuriously(w) \/ Reacquire(w)
      PROVE  Quiet'
  BY <1>5 DEF Locking, Quiet, JoinedPcs, IdlePcs, KeepWaiting, EndWait, Block, WakeSpuriously,
     Reacquire
<1>6. ASSUME NEW w \in Workers, EventPushes(w)
      PROVE  Quiet'
  BY <1>6 DEF Locking, Quiet, JoinedPcs, IdlePcs, EventPushes, Push, Emplace, Waiting, InPool,
     Unpushed
<1>7. ASSUME NEW w \in Workers, EventReturns(w)
      PROVE  Quiet'
  BY <1>7 DEF Locking, Quiet, JoinedPcs, IdlePcs, EventReturns
<1>8. ASSUME NEW w \in Workers, EventThrows(w)
      PROVE  Quiet'
  BY <1>8 DEF Locking, Quiet, JoinedPcs, IdlePcs, EventThrows
<1>9. ASSUME NEW w \in Workers, Leave(w)
      PROVE  Quiet'
  BY <1>9 DEF Locking, Quiet, JoinedPcs, IdlePcs, Leave
<1>10. ASSUME MainReady \/ MainGo \/ CallProcessExceptions \/ CallJoin \/ CallDestructor
      PROVE  Quiet'
  BY <1>10 DEF Locking, Quiet, JoinedPcs, IdlePcs, MainReady, MainGo, MainGoes,
     CallProcessExceptions, AtRest, CallJoin, CallDestructor
<1>11. ASSUME MainPushes
      PROVE  Quiet'
  BY <1>11 DEF Locking, Quiet, JoinedPcs, IdlePcs, MainPushes, Push, Emplace, Waiting, InPool,
     Unpushed,
     AtRest
<1>12. ASSUME ProcessException \/ HandlerThrows
      PROVE  Quiet'
  BY <1>12 DEF Locking, Quiet, JoinedPcs, IdlePcs, ProcessException, HandlerThrows
<1>13. ASSUME ExceptionsProcessed
      PROVE  Quiet'
  BY <1>13 DEF Locking, Quiet, JoinedPcs, IdlePcs, ExceptionsProcessed, MainGoes
<1>14. ASSUME ZeroReached
      PROVE  Quiet'
  BY <1>14 DEF Locking, Quiet, JoinedPcs, IdlePcs, ZeroReached, MainGoes
<1>15. ASSUME LockNext \/ BackOff
      PROVE  Quiet'
  BY <1>15 DEF Locking, Quiet, JoinedPcs, IdlePcs, LockNext, Following, Held, BackOff, UnlockAll
<1>16. ASSUME CheckEmpty
      PROVE  Quiet'
  BY <1>16 DEF Locking, Quiet, JoinedPcs, IdlePcs, CheckEmpty, UnlockAll, Held
<1>17. ASSUME CheckZero
      PROVE  Quiet'
  <2>1. CASE counter = 0
    <3>1. Busy = {}
      BY <2>1, BusyFinite, FS_EmptySet DEF CounterIsBusy
    <3>2. \A w \in Workers : pc[w] # "created"
      BY <1>17 DEF Pistol, NobodyEarly, CheckZero
    <3>3. \A w \in Workers : pc[w] \in IdlePcs \cup {"exited"}
      BY <3>1, <3>2 DEF Busy, OutsidePcs
    <3> QED BY <1>17, <2>1, <3>3 DEF Locking, Quiet, JoinedPcs, CheckZero
  <2>2. CASE counter # 0
    BY <1>17, <2>2 DEF Quiet, JoinedPcs, CheckZero
  <2> QED BY <2>1, <2>2
<1>18. ASSUME StoreNoWaiting \/ NotifyAll \/ JoinThreads
      PROVE  Quiet'
  BY <1>18 DEF Locking, Quiet, JoinedPcs, IdlePcs, StoreNoWaiting, NotifyAll, Waiting, InPool,
     Following, JoinThreads, MainGoes
<1>19. ASSUME UNCHANGED vars
      PROVE  Quiet'
  BY <1>19 DEF Locking, Quiet, JoinedPcs, IdlePcs, vars
<1> QED BY <1>1, <1>2, <1>3, <1>4, <1>5, <1>6, <1>7, <1>8, <1>9, <1>10, <1>11, <1>12, <1>13, <1>14,
   <1>15, <1>16, <1>17, <1>18, <1>19 DEF Next, WorkerStep, MainStep, MainCalls, Destroyed

\* No step loses an exception.
LEMMA StepExceptions == IInv /\ [Next]_vars => Exceptions'
<1> SUFFICES ASSUME IInv, [Next]_vars PROVE Exceptions'
    OBVIOUS
<1> USE PoolsAssumption, NamesAssumption
    DEF IInv, Typed, TypeOK, queueVars, workerVars, mainVars, historyVars
<1>1. ASSUME NEW w \in Workers, CountIn(w) \/ Ready(w) \/ Go(w)
      PROVE  Exceptions'
  BY <1>1 DEF RunningHasEvent, Quiet, Exceptions, JoinedPcs, IdlePcs, CountIn, Ready, Go
<1>2. ASSUME NEW w \in Workers, PopAtOnce(w)
      PROVE  Exceptions'
  BY <1>2 DEF RunningHasEvent, Quiet, Exceptions, JoinedPcs, IdlePcs, PopAtOnce, Take, EndWait
<1>3. ASSUME NEW w \in Workers, PopMustWait(w) \/ CountIdle(w)
      PROVE  Exceptions'
  BY <1>3 DEF RunningHasEvent, Quiet, Exceptions, JoinedPcs, IdlePcs, PopMustWait, EndWait,
     CountIdle
<1>4. ASSUME NEW w \in Workers, EndOfWait(w)
      PROVE  Exceptions'
  BY <1>4 DEF RunningHasEvent, Quiet, Exceptions, JoinedPcs, IdlePcs, EndOfWait, Take, EndWait
<1>5. ASSUME NEW w \in Workers, KeepWaiting(w) \/ Block(w) \/ WakeSpuriously(w) \/ Reacquire(w)
      PROVE  Exceptions'
  BY <1>5 DEF RunningHasEvent, Quiet, Exceptions, JoinedPcs, IdlePcs, KeepWaiting, EndWait, Block,
     WakeSpuriously, Reacquire
<1>6. ASSUME NEW w \in Workers, EventPushes(w)
      PROVE  Exceptions'
  BY <1>6 DEF RunningHasEvent, Quiet, Exceptions, JoinedPcs, IdlePcs, EventPushes, Push, Emplace,
     Waiting,
     InPool, Unpushed
<1>7. ASSUME NEW w \in Workers, EventReturns(w)
      PROVE  Exceptions'
  BY <1>7 DEF RunningHasEvent, Quiet, Exceptions, JoinedPcs, IdlePcs, EventReturns
<1>8. ASSUME NEW w \in Workers, EventThrows(w)
      PROVE  Exceptions'
  <2>1. Range(Append(exceptions, current[w])) = Range(exceptions) \cup {current[w]}
    BY <1>8, RangeAppend DEF RunningHasEvent, EventThrows
  <2> QED BY <1>8, <2>1 DEF Quiet, Exceptions, JoinedPcs, IdlePcs, EventThrows
<1>9. ASSUME NEW w \in Workers, Leave(w)
      PROVE  Exceptions'
  BY <1>9 DEF RunningHasEvent, Quiet, Exceptions, JoinedPcs, IdlePcs, Leave
<1>10. ASSUME MainReady \/ MainGo \/ CallProcessExceptions \/ CallJoin \/ CallDestructor
      PROVE  Exceptions'
  BY <1>10 DEF RunningHasEvent, Quiet, Exceptions, JoinedPcs, IdlePcs, MainReady, MainGo, MainGoes,
     CallProcessExceptions, AtRest, CallJoin, CallDestructor
<1>11. ASSUME MainPushes
      PROVE  Exceptions'
  BY <1>11 DEF RunningHasEvent, Quiet, Exceptions, JoinedPcs, IdlePcs, MainPushes, Push, Emplace,
     Waiting,
     InPool, Unpushed, AtRest
<1>12. ASSUME ProcessException \/ HandlerThrows
      PROVE  Exceptions'
  <2>1. Range(exceptions) \subseteq {Head(exceptions)} \cup Range(Tail(exceptions))
    BY <1>12, RangeTail DEF ProcessException, HandlerThrows
  <2> QED BY <1>12, <2>1 DEF Exceptions, JoinedPcs, ProcessException, HandlerThrows
<1>13. ASSUME ExceptionsProcessed
      PROVE  Exceptions'
  BY <1>13 DEF RunningHasEvent, Quiet, Exceptions, JoinedPcs, IdlePcs, ExceptionsProcessed, MainGoes
<1>14. ASSUME ZeroReached
      PROVE  Exceptions'
  BY <1>14 DEF RunningHasEvent, Quiet, Exceptions, JoinedPcs, IdlePcs, ZeroReached, MainGoes
<1>15. ASSUME LockNext \/ BackOff
      PROVE  Exceptions'
  BY <1>15 DEF RunningHasEvent, Quiet, Exceptions, JoinedPcs, IdlePcs, LockNext, Following, Held,
     BackOff, UnlockAll
<1>16. ASSUME CheckEmpty
      PROVE  Exceptions'
  BY <1>16 DEF RunningHasEvent, Quiet, Exceptions, JoinedPcs, IdlePcs, CheckEmpty, UnlockAll, Held
<1>17. ASSUME CheckZero
      PROVE  Exceptions'
  BY <1>17 DEF RunningHasEvent, Quiet, Exceptions, JoinedPcs, IdlePcs, CheckZero, UnlockAll
<1>18. ASSUME StoreNoWaiting \/ NotifyAll \/ JoinThreads
      PROVE  Exceptions'
  BY <1>18 DEF RunningHasEvent, Quiet, Exceptions, JoinedPcs, IdlePcs, StoreNoWaiting, NotifyAll,
     Waiting, InPool, Following, JoinThreads, MainGoes
<1>19. ASSUME UNCHANGED vars
      PROVE  Exceptions'
  BY <1>19 DEF RunningHasEvent, Quiet, Exceptions, JoinedPcs, IdlePcs, vars
<1> QED BY <1>1, <1>2, <1>3, <1>4, <1>5, <1>6, <1>7, <1>8, <1>9, <1>10, <1>11, <1>12, <1>13, <1>14,
   <1>15, <1>16, <1>17, <1>18, <1>19 DEF Next, WorkerStep, MainStep, MainCalls, Destroyed

\* The inductive invariant holds in every reachable state.
THEOREM Inductive == Spec => []IInv
<1>1. IInv /\ [Next]_vars => IInv'
  BY StepTypeOK, StepRunning, StepCounter, StepPistol, StepLocking, StepQuiet,
     StepExceptions DEF IInv, Typed
<1> QED BY <1>1, InitIInv, PTL DEF Spec

-----------------------------------------------------------------------------
(* Theorems.                                                                *)

\* Type correctness.
THEOREM TypeCorrect == Spec => []TypeOK
<1>1. IInv => TypeOK BY DEF IInv, Typed
<1> QED BY <1>1, Inductive, PTL

\* The counter is the number of busy workers, whatever they are doing.
THEOREM CounterCorrect == Spec => []CounterIsBusy
<1>1. IInv => CounterIsBusy BY DEF IInv
<1> QED BY <1>1, Inductive, PTL

\* The starter pistol holds back workers and constructor.
THEOREM NobodyStartsEarly == Spec => []NobodyEarly
<1>1. IInv => NobodyEarly BY DEF IInv, Pistol
<1> QED BY <1>1, Inductive, PTL

\* join returns only when no event is queued or running.
THEOREM JoinReturnsQuiescent == Spec => []JoinIsQuiescent
<1>1. IInv => JoinIsQuiescent BY DEF IInv, Quiet, JoinIsQuiescent, IdlePcs
<1> QED BY <1>1, Inductive, PTL

\* join returns only when every exception was handled.
THEOREM JoinReturnsHandled == Spec => []JoinHandlesAll
<1>1. IInv => JoinHandlesAll BY DEF IInv, Exceptions, JoinHandlesAll, Range
<1> QED BY <1>1, Inductive, PTL

-----------------------------------------------------------------------------
(* notify_one() is enough.  A worker goes to sleep only while it holds the  *)
(* mutex of an empty queue (Sleepy), a push wakes one more worker or finds  *)
(* none asleep, and a worker that stops being on its way has taken an event *)
(* or found none.  A step does one of five things to a pool (Kind), and     *)
(* each keeps as many workers on their way as there are events.             *)

\* a worker that is about to block has seen an empty queue, and holds its mutex
Sleepy == \A w \in Workers : pc[w] = "block" => queue[PoolOf[w]] = <<>>

Same(p) ==
    /\ queue'[p] = queue[p]
    /\ OnTheWay(p) \subseteq OnTheWay(p)'
    /\ Waiting(p)' \subseteq Waiting(p)

Arrives(p) ==
    /\ queue[p] # <<>> /\ queue'[p] = Tail(queue[p])
    /\ \E w \in OnTheWay(p) : OnTheWay(p)' = OnTheWay(p) \ {w}
    /\ Waiting(p)' \subseteq Waiting(p)

Wakes(p) ==
    /\ \E e \in Events : queue'[p] = Append(queue[p], e)
    /\ \E w \in Waiting(p) : OnTheWay(p)' = OnTheWay(p) \cup {w}
    /\ Waiting(p)' \subseteq Waiting(p)

Kind(p) == queue'[p] = <<>> \/ Waiting(p)' = {} \/ Same(p) \/ Arrives(p) \/ Wakes(p)

LEMMA KindSuffices ==
    ASSUME TypeOK, NotifyOneSuffices, NEW p \in Pools, Kind(p), Waiting(p)' # {}
    PROVE  Len(queue'[p]) <= Cardinality(OnTheWay(p)')
<1> DEFINE n == Cardinality(OnTheWay(p))  m == Cardinality(OnTheWay(p)')
<1>1. /\ IsFiniteSet(OnTheWay(p)) /\ IsFiniteSet(OnTheWay(p)')
      /\ n \in Nat /\ m \in Nat
  <2>1. OnTheWay(p) \subseteq Workers /\ OnTheWay(p)' \subseteq Workers
    BY DEF OnTheWay, InPool
  <2> QED BY <2>1, WorkersAssumption, FS_Subset, FS_CardinalityType
<1>2. queue[p] \in Seq(Events) BY DEF TypeOK
<1>3. Waiting(p) # {} => Len(queue[p]) <= n BY DEF NotifyOneSuffices
<1>4. CASE queue'[p] = <<>> BY <1>1, <1>4
<1>5. CASE Same(p)
  <2>1. n <= m BY <1>1, <1>5, FS_Subset DEF Same
  <2>2. Len(queue[p]) <= n /\ queue'[p] = queue[p] BY <1>3, <1>5 DEF Same
  <2> QED BY <1>1, <1>2, <2>1, <2>2
<1>6. CASE Arrives(p)
  <2>1. m = n - 1 BY <1>1, <1>6, FS_RemoveElement DEF Arrives
  <2>2. Len(queue[p]) <= n /\ queue[p] # <<>> /\ queue'[p] = Tail(queue[p])
    BY <1>3, <1>6 DEF Arrives
  <2>3. Len(Tail(queue[p])) = Len(queue[p]) - 1 BY <1>2, <2>2
  <2> QED BY <1>1, <1>2, <2>1, <2>2, <2>3
<1>7. CASE Wakes(p)
  <2>1. m = n + 1
    <3>1. \A w \in Waiting(p) : w \notin OnTheWay(p) BY DEF Waiting, OnTheWay
    <3> QED BY <1>1, <1>7, <3>1, FS_AddElement DEF Wakes
  <2>2. Len(queue[p]) <= n BY <1>3, <1>7 DEF Wakes
  <2>3. PICK e \in Events : queue'[p] = Append(queue[p], e) BY <1>7 DEF Wakes
  <2>4. Len(queue'[p]) = Len(queue[p]) + 1 BY <1>2, <2>3
  <2> QED BY <1>1, <1>2, <2>1, <2>2, <2>4
<1> QED BY <1>4, <1>5, <1>6, <1>7 DEF Kind

Way == {"created", "counted", "racing", "next", "guard", "check", "woken"}

\* A pool in which every worker on its way stays so, and nobody falls asleep.
LEMMA SameFrame ==
    ASSUME NEW p \in Pools, queue'[p] = queue[p],
           \A v \in Workers : PoolOf[v] = p =>
               /\ pc[v] \in Way => pc'[v] \in Way
               /\ pc'[v] = "waiting" => pc[v] = "waiting"
    PROVE  Kind(p)
BY DEF Kind, Same, OnTheWay, Waiting, InPool, Way

\* The end of pop(), for a worker on its way.
LEMMA TakeKind ==
    ASSUME IInv, NEW w \in Workers, pc[w] \in {"next", "check"}, Take(w, PoolOf[w]),
           NEW p \in Pools
    PROVE  Kind(p)
<1>1. PoolOf[w] \in Pools BY PoolsAssumption
<1>2. queue \in [Pools -> Seq(Events)] /\ pc \in [Workers -> PcValues] BY DEF IInv, Typed, TypeOK
<1>3. (\A v \in Workers : v # w => pc'[v] = pc[v]) /\ pc'[w] \in {"running", "leaving"}
  BY <1>2 DEF Take
<1>4. CASE p # PoolOf[w]
  <2>1. queue'[p] = queue[p] BY <1>1, <1>2, <1>4 DEF Take
  <2> QED BY <1>3, <1>4, <2>1, SameFrame
<1>5. CASE p = PoolOf[w] /\ queue[p] = <<>>
  BY <1>2, <1>5 DEF Take, Kind
<1>6. CASE p = PoolOf[w] /\ queue[p] # <<>>
  <2>1. queue'[p] = Tail(queue[p]) BY <1>2, <1>6 DEF Take
  <2>2. w \in OnTheWay(p) /\ OnTheWay(p)' = OnTheWay(p) \ {w}
    BY <1>3, <1>6 DEF OnTheWay, InPool
  <2>3. Waiting(p)' \subseteq Waiting(p) BY <1>3 DEF Waiting, InPool
  <2> QED BY <1>6, <2>1, <2>2, <2>3 DEF Kind, Arrives
<1> QED BY <1>4, <1>5, <1>6

\* A push: one more worker is on its way, or none is asleep.
LEMMA EmplaceKind ==
    ASSUME IInv, NEW q \in Pools, NEW e \in Events, Emplace(q, e), NEW p \in Pools
    PROVE  Kind(p)
<1>1. queue \in [Pools -> Seq(Events)] /\ pc \in [Workers -> PcValues] BY DEF IInv, Typed, TypeOK
<1>2. \A v \in Workers : pc'[v] = pc[v] \/ (pc[v] = "waiting" /\ pc'[v] = "woken")
  BY EmplaceTyped DEF IInv, Typed
<1>3. CASE p # q
  <2>1. queue'[p] = queue[p] BY <1>1, <1>3 DEF Emplace
  <2> QED BY <1>2, <2>1, SameFrame DEF Way
<1>4. CASE p = q /\ Waiting(p) = {}
  <2>1. pc' = pc BY <1>4 DEF Emplace
  <2>2. Waiting(p)' = {} BY <1>4, <2>1 DEF Waiting, InPool
  <2> QED BY <2>2 DEF Kind
<1>5. CASE p = q /\ Waiting(p) # {}
  <2>1. PICK w \in Waiting(p) : pc' = [pc EXCEPT ![w] = "woken"] BY <1>5 DEF Emplace
  <2>2. w \in Workers /\ PoolOf[w] = p BY DEF Waiting, InPool
  <2>3. (\A v \in Workers : v # w => pc'[v] = pc[v]) /\ pc'[w] = "woken" BY <1>1, <2>1, <2>2
  <2>4. OnTheWay(p)' = OnTheWay(p) \cup {w} BY <2>2, <2>3 DEF OnTheWay, InPool
  <2>5. Waiting(p)' \subseteq Waiting(p) BY <2>3 DEF Waiting, InPool
  <2>6. queue'[p] = Append(queue[p], e) BY <1>1, <1>5 DEF Emplace
  <2> QED BY <2>4, <2>5, <2>6 DEF Kind, Wakes
<1> QED BY <1>3, <1>4, <1>5

\* Every step does one of these five things to each pool.
LEMMA StepKind ==
    ASSUME IInv, Sleepy, [Next]_vars, NEW p \in Pools PROVE Kind(p)
<1> USE DEF queueVars, workerVars, mainVars, historyVars
<1>0. /\ queue \in [Pools -> Seq(Events)] /\ pc \in [Workers -> PcValues]
      /\ \A w \in Workers : PoolOf[w] \in Pools
  BY PoolsAssumption DEF IInv, Typed, TypeOK
<1>1. ASSUME NEW w \in Workers,
             \/ CountIn(w) \/ Ready(w) \/ Go(w) \/ PopMustWait(w) \/ CountIdle(w)
             \/ WakeSpuriously(w) \/ Reacquire(w) \/ EventReturns(w) \/ EventThrows(w) \/ Leave(w)
      PROVE  Kind(p)
  <2>1. queue' = queue
    BY <1>1 DEF CountIn, Ready, Go, PopMustWait, CountIdle, WakeSpuriously, Reacquire,
       EventReturns, EventThrows, Leave
  <2>2. (\A v \in Workers : v # w => pc'[v] = pc[v]) /\ (pc[w] = "leaving" \/ pc'[w] \in Way) /\ pc'[w] # "waiting"
    BY <1>0, <1>1 DEF CountIn, Ready, Go, PopMustWait, CountIdle, WakeSpuriously, Reacquire,
       EventReturns, EventThrows, Leave, Way
  <2> QED BY <2>1, <2>2, SameFrame DEF Way
<1>2. ASSUME NEW w \in Workers, PopAtOnce(w) \/ EndOfWait(w) PROVE Kind(p)
  BY <1>2, TakeKind DEF PopAtOnce, EndOfWait
<1>3. ASSUME NEW w \in Workers, KeepWaiting(w) \/ Block(w) PROVE Kind(p)
  <2>1. queue' = queue /\ \A v \in Workers : v # w => pc'[v] = pc[v]
    BY <1>0, <1>3 DEF KeepWaiting, Block
  <2>2. queue[PoolOf[w]] = <<>>
    BY <1>3 DEF KeepWaiting, Block, EndWait, Sleepy
  <2>3. CASE p = PoolOf[w] BY <2>1, <2>2, <2>3 DEF Kind
  <2>4. CASE p # PoolOf[w] BY <2>1, <2>4, SameFrame
  <2> QED BY <2>3, <2>4
<1>4. ASSUME NEW w \in Workers, EventPushes(w) PROVE Kind(p)
  BY <1>4, EmplaceKind DEF EventPushes, Push
<1>5. CASE MainPushes
  BY <1>5, EmplaceKind DEF MainPushes, Push
<1>6. CASE NotifyAll
  <2>1. queue' = queue BY <1>6 DEF NotifyAll
  <2>2. \A v \in Workers : pc'[v] = pc[v] \/ (pc[v] = "waiting" /\ pc'[v] = "woken")
    BY <1>0, <1>6 DEF NotifyAll, Waiting, InPool
  <2> QED BY <2>1, <2>2, SameFrame DEF Way
<1>7. ASSUME UNCHANGED <<queue, pc>> PROVE Kind(p)
  BY <1>7, SameFrame
<1>8. CASE MainReady \/ MainGo \/ CallProcessExceptions \/ CallJoin \/ CallDestructor
           \/ ProcessException \/ HandlerThrows \/ ExceptionsProcessed \/ ZeroReached
  <2>1. UNCHANGED <<queue, pc>>
    BY <1>8 DEF MainReady, MainGo, MainGoes, CallProcessExceptions, CallJoin, CallDestructor,
       ProcessException, HandlerThrows, ExceptionsProcessed, ZeroReached
  <2> QED BY <1>7, <2>1
<1>9. CASE LockNext \/ BackOff \/ CheckEmpty \/ CheckZero \/ StoreNoWaiting \/ JoinThreads
  <2>1. UNCHANGED <<queue, pc>>
    BY <1>9 DEF LockNext, BackOff, CheckEmpty, CheckZero, StoreNoWaiting, JoinThreads, MainGoes
  <2> QED BY <1>7, <2>1
<1>10. CASE UNCHANGED vars
  BY <1>7, <1>10 DEF vars
<1> QED BY <1>1, <1>2, <1>3, <1>4, <1>5, <1>6, <1>8, <1>9, <1>10
    DEF Next, WorkerStep, MainStep, MainCalls, Destroyed

\* What can reach a queue whose mutex a worker holds, about to block?
LEMMA StepSleepy == IInv /\ Sleepy /\ [Next]_vars => Sleepy'
<1> SUFFICES ASSUME IInv, Sleepy, [Next]_vars, NEW v \in Workers, pc'[v] = "block"
             PROVE  queue'[PoolOf[v]] = <<>>
  BY DEF Sleepy
<1> DEFINE p == PoolOf[v]
<1>0. /\ queue \in [Pools -> Seq(Events)] /\ pc \in [Workers -> PcValues]
      /\ \A w \in Workers : PoolOf[w] \in Pools
  BY PoolsAssumption DEF IInv, Typed, TypeOK
<1>1. CASE pc[v] = "block"
  <2>1. queue[p] = <<>> /\ qmx[p] # Free
    BY <1>0, <1>1, NamesAssumption DEF IInv, Locking, Sleepy
  <2>2. ASSUME NEW q \in Pools, NEW e \in Events, Emplace(q, e) PROVE queue'[p] = <<>>
    <3>1. p # q BY <2>1, <2>2 DEF Emplace
    <3> QED BY <1>0, <2>1, <2>2, <3>1 DEF Emplace
  <2>3. ASSUME NEW w \in Workers, Take(w, PoolOf[w]) PROVE queue'[p] = <<>>
    <3>1. CASE queue' = queue BY <2>1, <3>1
    <3>2. CASE queue[PoolOf[w]] # <<>> /\ queue' = [queue EXCEPT ![PoolOf[w]] = Tail(@)]
      BY <1>0, <2>1, <3>2
    <3> QED BY <2>3, <3>1, <3>2 DEF Take
  <2>4. \/ queue' = queue
        \/ \E q \in Pools, e \in Events : Emplace(q, e)
        \/ \E w \in Workers : Take(w, PoolOf[w])
    BY DEF Next, WorkerStep, MainStep, MainCalls, Destroyed, vars, queueVars, workerVars, mainVars,
       historyVars, CountIn, Ready, Go, PopAtOnce, PopMustWait, CountIdle, EndOfWait,
       KeepWaiting, Block,
       Reacquire, Leave, WakeSpuriously, EventPushes, Push, EventReturns, EventThrows, MainGoes,
       MainReady, MainGo, ProcessException, ExceptionsProcessed, ZeroReached, LockNext, BackOff,
       CheckEmpty, CheckZero, StoreNoWaiting, NotifyAll, JoinThreads, MainPushes, Push,
       CallProcessExceptions, CallJoin, CallDestructor, HandlerThrows
  <2> QED BY <2>1, <2>2, <2>3, <2>4
<1>2. CASE pc[v] # "block"
  <2>1. KeepWaiting(v)
    <3> USE DEF queueVars, workerVars, mainVars, historyVars
    <3>1. ASSUME NEW w \in Workers, WorkerStep(w) PROVE KeepWaiting(v)
      BY <1>0, <1>2, <3>1 DEF WorkerStep, CountIn, Ready, Go, PopAtOnce, PopMustWait, CountIdle,
         EndOfWait, KeepWaiting, Block, Reacquire, Leave, Take
    <3>2. ASSUME NEW w \in Workers, WakeSpuriously(w) \/ EventReturns(w) \/ EventThrows(w) PROVE FALSE
      BY <1>0, <1>2, <3>2 DEF WakeSpuriously, EventReturns, EventThrows
    <3>3. ASSUME NEW q \in Pools, NEW e \in Events, Emplace(q, e) PROVE FALSE
      BY <1>2, <3>3, EmplaceTyped DEF IInv, Typed
    <3>4. CASE NotifyAll
      BY <1>2, <3>4 DEF NotifyAll
    <3>5. CASE pc' = pc BY <1>2, <3>5
    <3>6. \/ \E w \in Workers : WorkerStep(w) \/ WakeSpuriously(w) \/ EventReturns(w) \/ EventThrows(w)
          \/ \E q \in Pools, e \in Events : Emplace(q, e)
          \/ NotifyAll
          \/ pc' = pc
      BY DEF Next, MainStep, MainCalls, Destroyed, vars, MainGoes, EventPushes, Push,
         MainReady, MainGo, ProcessException, ExceptionsProcessed, ZeroReached, LockNext, BackOff,
         CheckEmpty, CheckZero, StoreNoWaiting, JoinThreads, MainPushes, Push,
         CallProcessExceptions, CallJoin, CallDestructor, HandlerThrows
    <3> QED BY <3>1, <3>2, <3>3, <3>4, <3>5, <3>6
  <2> QED BY <2>1 DEF KeepWaiting, EndWait, queueVars
<1> QED BY <1>1, <1>2

-----------------------------------------------------------------------------
\* While a worker of a pool sleeps, each event queued there has an awake worker
\* of the pool on its way to it: notify_one, once per push, wakes enough
\* (concurrent_queue.tcc:78), whoever takes the events.
THEOREM NotifyOneIsEnough == Spec => []NotifyOneSuffices
<1>1. Init => IInv /\ Sleepy /\ NotifyOneSuffices
  <2> SUFFICES ASSUME Init PROVE Sleepy /\ NotifyOneSuffices BY InitIInv
  <2> QED BY DEF Init, Sleepy, NotifyOneSuffices, Waiting, InPool
<1>2. IInv /\ Sleepy /\ NotifyOneSuffices /\ [Next]_vars => (IInv /\ Sleepy /\ NotifyOneSuffices)'
  <2> SUFFICES ASSUME IInv, Sleepy, NotifyOneSuffices, [Next]_vars
               PROVE  IInv' /\ Sleepy' /\ NotifyOneSuffices'
    OBVIOUS
  <2>1. IInv'
    BY StepTypeOK, StepRunning, StepCounter, StepPistol, StepLocking, StepQuiet,
       StepExceptions DEF IInv, Typed
  <2>2. Sleepy' BY StepSleepy
  <2>3. NotifyOneSuffices'
    <3> SUFFICES ASSUME NEW p \in Pools, Waiting(p)' # {}
                 PROVE  Len(queue'[p]) <= Cardinality(OnTheWay(p)')
      BY DEF NotifyOneSuffices
    <3>1. TypeOK BY DEF IInv, Typed
    <3> QED BY <3>1, StepKind, KindSuffices
  <2> QED BY <2>1, <2>2, <2>3
<1> QED BY <1>1, <1>2, PTL DEF Spec

-----------------------------------------------------------------------------
(* The loop implements ExecutorSpec.                                       *)
(*                                                                         *)
(* A step of the loop does one of five things to the queues, the running   *)
(* events and the exceptions (Shape); the others are internal.  An event   *)
(* is in one place at a time (Exclusive), so that the event that ends      *)
(* leaves the set of running ones, and the invariant above makes the loop  *)
(* quiet when join returns.                                                *)

Joined == mpc \in JoinedPcs \ {"final"}

Runs(w) == pc[w] = "running"

\* no worker begins or ends an event
KeepsRunning ==
    \A w \in Workers : /\ Runs(w)' = Runs(w)
                       /\ Runs(w) => current'[w] = current[w]

\* the threads, the locks and the counter move; join may return
Internal ==
    /\ KeepsRunning
    /\ UNCHANGED <<queue, pushed, exceptions>>
    /\ Joined' => Joined \/ (mpc = "final" /\ exceptions = <<>>)

Pushes(p, e) ==
    /\ KeepsRunning
    /\ e \in Unpushed
    /\ queue' = [queue EXCEPT ![p] = Append(@, e)]
    /\ pushed' = [pushed EXCEPT ![p] = Append(@, e)]
    /\ UNCHANGED exceptions
    /\ ~Joined'

Starts(w) ==
    /\ ~Runs(w) /\ Runs(w)'
    /\ queue[PoolOf[w]] # <<>>
    /\ current'[w] = Head(queue[PoolOf[w]])
    /\ queue' = [queue EXCEPT ![PoolOf[w]] = Tail(@)]
    /\ \A v \in Workers \ {w} : pc'[v] = pc[v] /\ current'[v] = current[v]
    /\ UNCHANGED <<pushed, exceptions, mpc>>

Ends(w) ==
    /\ Runs(w) /\ ~Runs(w)'
    /\ \A v \in Workers \ {w} : pc'[v] = pc[v] /\ current'[v] = current[v]
    /\ UNCHANGED <<queue, pushed, mpc>>
    /\ \/ exceptions' = exceptions
       \/ exceptions' = Append(exceptions, current[w])

Handles ==
    /\ exceptions # <<>>
    /\ exceptions' = Tail(exceptions)
    /\ UNCHANGED <<queue, pushed, pc, current>>
    /\ ~Joined /\ ~Joined'

Shape ==
    \/ Internal
    \/ \E p \in Pools, e \in Events : Pushes(p, e)
    \/ \E w \in Workers : Starts(w) \/ Ends(w)
    \/ Handles

\* Waking workers changes nobody who runs.
LEMMA EmplaceKeepsRunning ==
    ASSUME TypeOK, NEW p \in Pools, NEW e \in Events, Emplace(p, e)
    PROVE  KeepsRunning
<1>1. \A v \in Workers : pc'[v] = pc[v] \/ (pc[v] = "waiting" /\ pc'[v] = "woken")
  BY EmplaceTyped
<1>2. current' = current
  BY DEF Emplace
<1> QED BY <1>1, <1>2 DEF KeepsRunning, Runs

\* The end of pop() starts an event, or finds none and keeps everything.
LEMMA TakeShape ==
    ASSUME IInv, NEW w \in Workers, ~Runs(w), Take(w, PoolOf[w]),
           UNCHANGED <<pushed, exceptions, mpc>>
    PROVE  Shape
<1> USE PoolsAssumption DEF IInv, Typed, TypeOK
<1>1. CASE queue[PoolOf[w]] # <<>>
  <2>1. Starts(w)
    BY <1>1 DEF Starts, Take, Runs
  <2> QED BY <2>1 DEF Shape
<1>2. CASE queue[PoolOf[w]] = <<>>
  <2>1. Internal
    BY <1>2 DEF Internal, KeepsRunning, Take, Runs, Joined
  <2> QED BY <2>1 DEF Shape
<1> QED BY <1>1, <1>2

\* Every step of the loop has one of the five shapes.
LEMMA StepShape == IInv /\ [Next]_vars => Shape
<1> SUFFICES ASSUME IInv, [Next]_vars PROVE Shape
  OBVIOUS
<1> USE DEF IInv, Typed, TypeOK, queueVars, workerVars, mainVars, historyVars
<1>1. ASSUME NEW w \in Workers,
             \/ CountIn(w) \/ Ready(w) \/ Go(w) \/ PopMustWait(w) \/ CountIdle(w)
             \/ KeepWaiting(w) \/ Block(w) \/ WakeSpuriously(w) \/ Reacquire(w) \/ Leave(w)
      PROVE  Shape
  <2>1. Internal
    BY <1>1 DEF Internal, KeepsRunning, Runs, Joined, CountIn, Ready, Go, PopMustWait, CountIdle,
       KeepWaiting, Block, WakeSpuriously, Reacquire, Leave
  <2> QED BY <2>1 DEF Shape
<1>2. ASSUME NEW w \in Workers, PopAtOnce(w) \/ EndOfWait(w)
      PROVE  Shape
  BY <1>2, TakeShape DEF PopAtOnce, EndOfWait, Runs
<1>3. ASSUME NEW w \in Workers, EventPushes(w)
      PROVE  Shape
  <2>1. PICK p \in Pools, e \in Events : Emplace(p, e)
    BY <1>3 DEF EventPushes, Push
  <2>2. KeepsRunning
    BY <2>1, EmplaceKeepsRunning
  <2>3. mpc' = mpc /\ mpc \notin JoinedPcs
    BY <1>3 DEF EventPushes, Push, Quiet, IdlePcs
  <2>4. Pushes(p, e)
    BY <2>1, <2>2, <2>3 DEF Pushes, Emplace, Joined
  <2> QED BY <2>4 DEF Shape
<1>4. ASSUME NEW w \in Workers, EventReturns(w) \/ EventThrows(w)
      PROVE  Shape
  <2>1. Ends(w)
    BY <1>4 DEF Ends, Runs, EventReturns, EventThrows
  <2> QED BY <2>1 DEF Shape
<1>5. ASSUME MainPushes
      PROVE  Shape
  <2>1. PICK p \in Pools, e \in Events : Emplace(p, e)
    BY <1>5 DEF MainPushes, Push
  <2>2. KeepsRunning
    BY <2>1, EmplaceKeepsRunning
  <2>3. Pushes(p, e)
    BY <1>5, <2>1, <2>2 DEF Pushes, Emplace, Joined, JoinedPcs, MainPushes, Push
  <2> QED BY <2>3 DEF Shape
<1>6. ASSUME ProcessException \/ HandlerThrows
      PROVE  Shape
  <2>1. Handles
    BY <1>6 DEF Handles, Joined, JoinedPcs, ProcessException, HandlerThrows
  <2> QED BY <2>1 DEF Shape
<1>7. ASSUME \/ MainReady \/ MainGo \/ CallProcessExceptions \/ CallJoin \/ CallDestructor
             \/ ExceptionsProcessed \/ ZeroReached
      PROVE  Shape
  <2>1. Internal
    BY <1>7 DEF Internal, KeepsRunning, Runs, Joined, JoinedPcs, MainReady, MainGo, MainGoes,
       AtRest,
       CallProcessExceptions, CallJoin, CallDestructor, ExceptionsProcessed, ZeroReached
  <2> QED BY <2>1 DEF Shape
<1>8. ASSUME LockNext \/ BackOff \/ CheckEmpty \/ CheckZero
      PROVE  Shape
  <2>1. Internal
    BY <1>8 DEF Internal, KeepsRunning, Runs, Joined, JoinedPcs, LockNext, BackOff, CheckEmpty,
       CheckZero
  <2> QED BY <2>1 DEF Shape
<1>9. ASSUME StoreNoWaiting \/ NotifyAll \/ JoinThreads
      PROVE  Shape
  <2>1. KeepsRunning
    BY <1>9 DEF KeepsRunning, Runs, StoreNoWaiting, NotifyAll, JoinThreads, MainGoes, Waiting,
       InPool
  <2>2. Internal
    BY <1>9, <2>1 DEF Internal, Joined, JoinedPcs, StoreNoWaiting, NotifyAll, JoinThreads, MainGoes
  <2> QED BY <2>2 DEF Shape
<1>10. ASSUME UNCHANGED vars
       PROVE  Shape
  BY <1>10 DEF Shape, Internal, KeepsRunning, Runs, Joined, vars
<1> QED BY <1>1, <1>2, <1>3, <1>4, <1>5, <1>6, <1>7, <1>8, <1>9, <1>10
   DEF Next, WorkerStep, MainStep, MainCalls, Destroyed

-----------------------------------------------------------------------------
(* An event is in one place.                                                *)

\* A sequence without repetitions loses its head, or gains a new element.
LEMMA DistinctTail ==
    ASSUME NEW S, NEW s \in Seq(S), s # <<>>,
           \A i, j \in DOMAIN s : s[i] = s[j] => i = j
    PROVE  /\ \A i, j \in DOMAIN Tail(s) : Tail(s)[i] = Tail(s)[j] => i = j
           /\ Head(s) \notin Range(Tail(s))
           /\ Head(s) \in Range(s)
           /\ Range(Tail(s)) \subseteq Range(s)
<1>1. /\ Len(s) \in Nat \ {0} /\ DOMAIN s = 1 .. Len(s)
      /\ DOMAIN Tail(s) = 1 .. Len(s) - 1
      /\ Head(s) = s[1]
  OBVIOUS
<1>2. \A i \in DOMAIN Tail(s) : i + 1 \in DOMAIN s /\ Tail(s)[i] = s[i + 1]
  OBVIOUS
<1> QED BY <1>1, <1>2 DEF Range

LEMMA DistinctAppend ==
    ASSUME NEW S, NEW s \in Seq(S), NEW x \in S, x \notin Range(s),
           \A i, j \in DOMAIN s : s[i] = s[j] => i = j
    PROVE  \A i, j \in DOMAIN Append(s, x) : Append(s, x)[i] = Append(s, x)[j] => i = j
<1>1. /\ Len(s) \in Nat /\ DOMAIN s = 1 .. Len(s)
      /\ DOMAIN Append(s, x) = 1 .. Len(s) + 1
      /\ Append(s, x)[Len(s) + 1] = x
  OBVIOUS
<1>2. \A i \in DOMAIN s : Append(s, x)[i] = s[i] /\ s[i] # x
  BY DEF Range
<1> QED BY <1>1, <1>2

\* A queued event was pushed to that queue once; a running one was pushed, has
\* left the queue, and no other worker of the pool runs it.
Distinct == \A p \in Pools : \A i, j \in DOMAIN queue[p] : queue[p][i] = queue[p][j] => i = j
WerePushed ==
    /\ \A p \in Pools : Range(queue[p]) \subseteq Range(pushed[p])
    /\ \A w \in Workers : Runs(w) => current[w] \in Range(pushed[PoolOf[w]])
LeftQueue == \A w \in Workers : Runs(w) => current[w] \notin Range(queue[PoolOf[w]])
RunAlone ==
    \A v, w \in Workers :
        Runs(v) /\ Runs(w) /\ PoolOf[v] = PoolOf[w] /\ current[v] = current[w] => v = w

Exclusive == Distinct /\ WerePushed /\ LeftQueue /\ RunAlone

LEMMA InitExclusive == Init => Exclusive
<1> SUFFICES ASSUME Init PROVE Exclusive
  OBVIOUS
<1>1. \A p \in Pools : queue[p] = <<>> /\ Range(queue[p]) = {}
  BY DEF Init, Range
<1>2. \A w \in Workers : ~Runs(w)
  BY DEF Init, Runs
<1> QED BY <1>1, <1>2 DEF Exclusive, Distinct, WerePushed, LeftQueue, RunAlone

LEMMA StepExclusive == IInv /\ Exclusive /\ Shape => Exclusive'
<1> SUFFICES ASSUME IInv, Exclusive, Shape PROVE Exclusive'
  OBVIOUS
<1>0. /\ queue \in [Pools -> Seq(Events)] /\ pushed \in [Pools -> Seq(Events)]
      /\ \A w \in Workers : PoolOf[w] \in Pools /\ (Runs(w) => current[w] \in Events)
  BY PoolsAssumption DEF IInv, Typed, TypeOK, RunningHasEvent, Runs
<1>1. CASE Internal
  BY <1>0, <1>1 DEF Internal, KeepsRunning, Exclusive, Distinct, WerePushed, LeftQueue, RunAlone
<1>2. ASSUME NEW p \in Pools, NEW e \in Events, Pushes(p, e)
      PROVE  Exclusive'
  <2>1. /\ Range(Append(queue[p], e)) = Range(queue[p]) \cup {e}
        /\ Range(Append(pushed[p], e)) = Range(pushed[p]) \cup {e}
    BY <1>0, RangeAppend
  <2>2. \A q \in Pools : e \notin Range(pushed[q]) /\ e \notin Range(queue[q])
    BY <1>2 DEF Pushes, Unpushed, Exclusive, WerePushed
  <2>3. /\ \A q \in Pools \ {p} : queue'[q] = queue[q] /\ pushed'[q] = pushed[q]
        /\ queue'[p] = Append(queue[p], e) /\ pushed'[p] = Append(pushed[p], e)
    BY <1>0, <1>2 DEF Pushes
  <2>4. \A w \in Workers : Runs(w)' = Runs(w) /\ (Runs(w) => current'[w] = current[w])
    BY <1>2 DEF Pushes, KeepsRunning
  <2>5. Distinct'
    <3>1. \A i, j \in DOMAIN Append(queue[p], e) :
             Append(queue[p], e)[i] = Append(queue[p], e)[j] => i = j
      BY <1>0, <2>2, DistinctAppend DEF Exclusive, Distinct
    <3> QED BY <2>3, <3>1 DEF Exclusive, Distinct
  <2>6. WerePushed'
    BY <1>0, <2>1, <2>3, <2>4 DEF Exclusive, WerePushed
  <2>7. LeftQueue'
    <3> SUFFICES ASSUME NEW w \in Workers, Runs(w)'
                 PROVE  current'[w] \notin Range(queue'[PoolOf[w]])
      BY DEF LeftQueue
    <3>1. Runs(w) /\ current'[w] = current[w]
      BY <2>4
    <3>2. current[w] \in Range(pushed[PoolOf[w]]) /\ current[w] \notin Range(queue[PoolOf[w]])
      BY <3>1 DEF Exclusive, WerePushed, LeftQueue
    <3>3. current[w] # e
      BY <1>0, <2>2, <3>2
    <3> QED BY <1>0, <2>1, <2>3, <3>1, <3>2, <3>3
  <2>8. RunAlone'
    BY <2>4 DEF Exclusive, RunAlone
  <2> QED BY <2>5, <2>6, <2>7, <2>8 DEF Exclusive
<1>3. ASSUME NEW w \in Workers, Starts(w)
      PROVE  Exclusive'
  <2> DEFINE p == PoolOf[w]
  <2>1. /\ \A i, j \in DOMAIN Tail(queue[p]) : Tail(queue[p])[i] = Tail(queue[p])[j] => i = j
        /\ Head(queue[p]) \notin Range(Tail(queue[p]))
        /\ Head(queue[p]) \in Range(queue[p])
        /\ Range(Tail(queue[p])) \subseteq Range(queue[p])
    BY <1>0, <1>3, DistinctTail DEF Starts, Exclusive, Distinct
  <2>2. /\ \A q \in Pools \ {p} : queue'[q] = queue[q]
        /\ queue'[p] = Tail(queue[p]) /\ pushed' = pushed
        /\ current'[w] = Head(queue[p])
    BY <1>0, <1>3 DEF Starts
  <2>3. \A v \in Workers \ {w} : Runs(v)' = Runs(v) /\ current'[v] = current[v]
    BY <1>3 DEF Starts, Runs
  <2> HIDE DEF p
  <2>4. Distinct'
    BY <2>1, <2>2 DEF Exclusive, Distinct
  <2>5. WerePushed'
    BY <1>0, <2>1, <2>2, <2>3 DEF Exclusive, WerePushed, p
  <2>6. LeftQueue'
    BY <1>0, <2>1, <2>2, <2>3 DEF Exclusive, LeftQueue, p
  <2>7. RunAlone'
    <3>1. \A v \in Workers \ {w} : Runs(v)' /\ PoolOf[v] = p => current'[v] # current'[w]
      BY <2>1, <2>2, <2>3 DEF Exclusive, LeftQueue
    <3> QED BY <2>3, <3>1 DEF Exclusive, RunAlone, p
  <2> QED BY <2>4, <2>5, <2>6, <2>7 DEF Exclusive
<1>4. ASSUME NEW w \in Workers, Ends(w)
      PROVE  Exclusive'
  <2>1. /\ queue' = queue /\ pushed' = pushed
        /\ \A v \in Workers : Runs(v)' => Runs(v) /\ current'[v] = current[v]
    BY <1>4 DEF Ends, Runs
  <2> QED BY <2>1 DEF Exclusive, Distinct, WerePushed, LeftQueue, RunAlone
<1>5. CASE Handles
  BY <1>5 DEF Handles, Exclusive, Distinct, WerePushed, LeftQueue, RunAlone, Runs
<1> QED BY <1>1, <1>2, <1>3, <1>4, <1>5 DEF Shape

-----------------------------------------------------------------------------
(* The refinement.                                                          *)

\* The set of running events of a pool, before and after a step.
LEMMA RunningSets ==
    ASSUME NEW p \in Pools
    PROVE  /\ \A e : e \in Running(p) <=>
                        \E w \in Workers : PoolOf[w] = p /\ Runs(w) /\ e = current[w]
           /\ \A e : e \in Running(p)' <=>
                        \E w \in Workers : PoolOf[w] = p /\ Runs(w)' /\ e = current'[w]
BY DEF Running, InPool, Runs

LEMMA KeptRunning == KeepsRunning => UNCHANGED [p \in Pools |-> Running(p)]
BY RunningSets DEF KeepsRunning

LEMMA InitRefines == Init => Abstract!Init
<1> SUFFICES ASSUME Init PROVE Abstract!Init
  OBVIOUS
<1>1. \A p \in Pools : Running(p) = {} /\ Range(pushed[p]) = {}
  BY RunningSets DEF Init, Runs, Range
<1>2. Unpushed = Events
  BY <1>1 DEF Unpushed
<1> QED BY <1>1, <1>2 DEF Init, Abstract!Init, JoinedPcs

\* A step of each shape is a step of the executor, or leaves it as it is.
LEMMA StepRefines ==
    IInv /\ Exclusive /\ Shape => [Abstract!Next]_(Abstract!execVars)
<1> SUFFICES ASSUME IInv, Exclusive, Shape PROVE [Abstract!Next]_(Abstract!execVars)
  OBVIOUS
<1>0. /\ queue \in [Pools -> Seq(Events)] /\ pushed \in [Pools -> Seq(Events)]
      /\ \A w \in Workers : PoolOf[w] \in Pools /\ (Runs(w) => current[w] \in Events)
  BY PoolsAssumption DEF IInv, Typed, TypeOK, RunningHasEvent, Runs
<1> DEFINE run == [p \in Pools |-> Running(p)]
<1>1. CASE Internal
  <2>1. run' = run /\ Unpushed' = Unpushed
    BY <1>1, KeptRunning DEF Internal, Unpushed
  <2>2. CASE Joined' = Joined
    BY <1>1, <2>1, <2>2 DEF Internal, Abstract!execVars, Joined
  <2>3. CASE ~Joined'
    BY <1>1, <2>1, <2>3 DEF Internal, Abstract!Next, Abstract!Resume, Joined
  <2>4. CASE Joined' /\ ~Joined
    <3>1. mpc = "final" /\ exceptions = <<>>
      BY <1>1, <2>4 DEF Internal
    <3>2. \A p \in Pools : queue[p] = <<>> /\ Running(p) = {}
      BY <3>1, RunningSets DEF IInv, Quiet, JoinedPcs, IdlePcs, Runs
    <3> QED BY <1>1, <2>1, <2>4, <3>1, <3>2
            DEF Internal, Abstract!Next, Abstract!JoinReturns, Abstract!Idle, Joined
  <2> QED BY <2>2, <2>3, <2>4 DEF Joined
<1>2. ASSUME NEW p \in Pools, NEW e \in Events, Pushes(p, e)
      PROVE  Abstract!Next
  <2>1. run' = run
    BY <1>2, KeptRunning DEF Pushes
  <2>2. Range(Append(pushed[p], e)) = Range(pushed[p]) \cup {e}
    BY <1>0, RangeAppend
  <2>3. /\ pushed'[p] = Append(pushed[p], e)
        /\ \A q \in Pools \ {p} : pushed'[q] = pushed[q]
    BY <1>0, <1>2 DEF Pushes
  <2>4. Unpushed' = Unpushed \ {e}
    BY <2>2, <2>3 DEF Unpushed
  <2>5. Abstract!Push(p, e)
    BY <1>2, <2>1, <2>4 DEF Pushes, Abstract!Push, Joined
  <2> QED BY <2>5 DEF Abstract!Next
<1>3. ASSUME NEW w \in Workers, Starts(w)
      PROVE  Abstract!Next
  <2> DEFINE p == PoolOf[w]
  <2>1. \A v \in Workers \ {w} : Runs(v)' = Runs(v) /\ current'[v] = current[v]
    BY <1>3 DEF Starts, Runs
  <2>2. Running(p)' = Running(p) \cup {Head(queue[p])}
    <3>1. ~Runs(w) /\ Runs(w)' /\ current'[w] = Head(queue[p]) /\ p \in Pools
      BY <1>0, <1>3 DEF Starts
    <3>2. \A x : x \in Running(p)' <=> x \in Running(p) \/ x = Head(queue[p])
      <4> HIDE DEF p
      <4>1. PoolOf[w] = p
        BY DEF p
      <4> QED BY <2>1, <3>1, <4>1, RunningSets
    <3> QED BY <3>2
  <2>3. \A q \in Pools \ {p} : Running(q)' = Running(q)
    BY <2>1, RunningSets
  <2>4. run' = [run EXCEPT ![p] = @ \cup {Head(queue[p])}]
    BY <1>0, <2>2, <2>3
  <2>5. Abstract!Start(p)
    BY <1>0, <1>3, <2>4 DEF Starts, Abstract!Start, Unpushed, Joined
  <2> QED BY <1>0, <2>5 DEF Abstract!Next
<1>4. ASSUME NEW w \in Workers, Ends(w)
      PROVE  Abstract!Next
  <2> DEFINE p == PoolOf[w]
             e == current[w]
  <2>1. \A v \in Workers \ {w} : Runs(v)' = Runs(v) /\ current'[v] = current[v]
    BY <1>4 DEF Ends, Runs
  <2>2. \A v \in Workers \ {w} : Runs(v) /\ PoolOf[v] = p => current[v] # e
    BY <1>4 DEF Ends, Exclusive, RunAlone
  <2>3. Running(p)' = Running(p) \ {e} /\ e \in Running(p)
    <3>1. Runs(w) /\ ~Runs(w)' /\ p \in Pools
      BY <1>0, <1>4 DEF Ends
    <3>2. \A x : x \in Running(p)' <=> x \in Running(p) /\ x # e
      <4> HIDE DEF p, e
      <4>1. PoolOf[w] = p /\ current[w] = e
        BY DEF p, e
      <4> QED BY <2>1, <2>2, <3>1, <4>1, RunningSets
    <3> QED BY <3>1, <3>2, RunningSets
  <2>4. \A q \in Pools \ {p} : Running(q)' = Running(q)
    BY <2>1, RunningSets
  <2>5. run' = [run EXCEPT ![p] = @ \ {e}]
    BY <1>0, <2>3, <2>4
  <2>6. Abstract!Return(p, e) \/ Abstract!Throw(p, e)
    BY <1>0, <1>4, <2>3, <2>5 DEF Ends, Abstract!Return, Abstract!Throw, Unpushed, Joined
  <2>7. p \in Pools /\ e \in Events
    BY <1>0, <1>4 DEF Ends
  <2> QED BY <2>6, <2>7 DEF Abstract!Next
<1>5. CASE Handles
  <2>1. run' = run /\ Unpushed' = Unpushed
    BY <1>5 DEF Handles, Unpushed, Running, InPool
  <2>2. Abstract!Handle
    BY <1>5, <2>1 DEF Handles, Abstract!Handle, Joined
  <2> QED BY <2>2 DEF Abstract!Next
<1> QED BY <1>1, <1>2, <1>3, <1>4, <1>5 DEF Shape

\* An event is queued, running or neither, in one pool, once.
THEOREM EventsAreExclusive == Spec => []Exclusive
<1>1. IInv /\ Exclusive /\ [Next]_vars => Exclusive'
  BY StepShape, StepExclusive
<1> QED BY <1>1, InitExclusive, Inductive, PTL DEF Spec

\* The parallel event loop implements the executor: events run once, in their
\* pool and in order, and join returns when nothing is left.
THEOREM LoopImplements == Spec => Implements
<1>1. Init => Abstract!Init
  BY InitRefines
<1>2. IInv /\ Exclusive /\ [Next]_vars => [Abstract!Next]_(Abstract!execVars)
  BY StepShape, StepRefines
<1> QED BY <1>1, <1>2, Inductive, EventsAreExclusive, PTL DEF Spec, Implements, Abstract!Spec
=============================================================================
