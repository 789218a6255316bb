--------------------------- MODULE PromiseProofs ---------------------------
(***************************************************************************)
(* Proofs about Promise for every set of threads and values and every      *)
(* number of calls, for builds with SAFE_PROMISES.                         *)
(*                                                                         *)
(* The inductive invariant has three parts: who holds the mutex (Locking), *)
(* what the settlement state says of the callbacks already started         *)
(* (Settling), and what keeps the object in memory (Lifetime).             *)
(***************************************************************************)
EXTENDS Promise, TLAPS

Locking ==
    /\ CallbackUnderLock
    /\ mx # NoThread => callbacks_assigned /\ state \in Settlements
    /\ callbacks = "null" <=> (~callbacks_assigned \/ state = "completed")

Settling ==
    /\ EitherBranch
    /\ DeliversAccepted
    /\ NoLostCallback
    /\ state = "pending" => delivered = {} /\ accepted = {}
    /\ state \in Settlements => \A d \in delivered : d[1] = state
    /\ (state = "resolved" /\ ~callbacks_assigned) => <<"resolved", result>> \in accepted
    /\ (state = "rejected" /\ ~callbacks_assigned) => <<"rejected", error>> \in accepted
    /\ state = "completed" => callbacks_assigned /\ finished = 1
    /\ state # "completed" => finished = 0

Lifetime ==
    /\ state \in Settlements => self_reference
    /\ self_reference => memory = "live"
    /\ \A t \in Threads : pc[t] = "unlocked" => self_reference /\ state = "completed"
    /\ \A t, u \in Threads : pc[t] = "unlocked" /\ pc[u] = "unlocked" => t = u
    /\ (state = "completed" /\ self_reference) => \E t \in Threads : pc[t] = "unlocked"
    /\ memory # "live" => handles = {}
    /\ SettledIsKept

IInv == TypeOK /\ Locking /\ Settling /\ Lifetime

-----------------------------------------------------------------------------

\* The type invariant and the three parts hold initially.
LEMMA InitIInv == Init => IInv
<1> SUFFICES ASSUME Init PROVE IInv
    OBVIOUS
<1>1. TypeOK
  BY DEF Init, TypeOK, States, Settlements, CallbackKinds
<1>2. Locking
  BY ThreadsAssumption DEF Init, Locking, CallbackUnderLock
<1>3. Settling
  BY DEF Init, Settling, EitherBranch, DeliversAccepted, NoLostCallback, Settlements
<1>4. Lifetime
  BY DEF Init, Lifetime, SettledIsKept, Settlements
<1> QED BY <1>1, <1>2, <1>3, <1>4 DEF IInv

\* Every step of a checked build preserves the inductive invariant.
LEMMA StepIInv == ASSUME SafePromises PROVE IInv /\ [Next]_vars => IInv'
<1> USE ThreadsAssumption, ValuesAssumption
    DEF States, Settlements, CallbackKinds
<1> SUFFICES ASSUME IInv, [Next]_vars PROVE IInv'
    OBVIOUS
<1>1. ASSUME NEW t \in Threads, NEW v \in Values, Resolve(t, v)
      PROVE  IInv'
  <2>1. TypeOK'
    <3>1. self_reference' \in BOOLEAN /\ callbacks_assigned' \in BOOLEAN
      BY <1>1 DEF IInv, TypeOK, Resolve, MakeImmortal, MayCall, MaySettleAgain, MaySettle, Dispatch, Leave, EnterCallback
    <3>2. accepted' \subseteq Settlements \X Values
      BY <1>1 DEF IInv, TypeOK, Resolve, MakeImmortal, MayCall, MaySettleAgain, MaySettle, Dispatch, Leave, EnterCallback
    <3>3. delivered' \subseteq Settlements \X (Values \cup {NoValue})
      BY <1>1 DEF IInv, TypeOK, Resolve, MakeImmortal, MayCall, MaySettleAgain, MaySettle, Dispatch, Leave, EnterCallback
    <3>4. /\ state' \in States
          /\ result' \in Values \cup {NoValue}
          /\ error' \in Values \cup {NoValue}
          /\ callbacks' \in CallbackKinds \cup {"null"}
      BY <1>1 DEF IInv, TypeOK, Resolve, MakeImmortal, MayCall, MaySettleAgain, MaySettle, Dispatch, Leave, EnterCallback
    <3>5. /\ mx' \in Threads \cup {NoThread}
          /\ pc' \in [Threads -> {"idle", "callback", "unlocked"}]
          /\ handles' \subseteq Threads
          /\ memory' \in {"live", "freed", "threw"}
          /\ settles' \in Nat /\ binds' \in Nat
          /\ finished' \in Nat /\ thrown' \in Nat
      BY <1>1 DEF IInv, TypeOK, Resolve, MakeImmortal, MayCall, MaySettleAgain, MaySettle, Dispatch, Leave, EnterCallback
    <3> QED BY <3>1, <3>2, <3>3, <3>4, <3>5 DEF TypeOK
  <2>2. Locking'
    BY <1>1 DEF IInv, TypeOK, Locking, CallbackUnderLock, Resolve, MakeImmortal, MayCall,
       MaySettleAgain, MaySettle, Dispatch, Leave, EnterCallback
  <2>3. Settling'
    BY <1>1 DEF IInv, TypeOK, Locking, CallbackUnderLock, Settling, EitherBranch, DeliversAccepted,
       NoLostCallback, Resolve, MakeImmortal, MayCall, MaySettleAgain, MaySettle, Dispatch, Leave, EnterCallback
  <2>4. Lifetime'
    BY <1>1 DEF IInv, TypeOK, Locking, CallbackUnderLock, Lifetime, SettledIsKept,
       Resolve, MakeImmortal, MayCall, MaySettleAgain, MaySettle, Dispatch, Leave, EnterCallback
  <2> QED BY <2>1, <2>2, <2>3, <2>4 DEF IInv
<1>2. ASSUME NEW t \in Threads, NEW v \in Values, Reject(t, v)
      PROVE  IInv'
  <2>1. TypeOK'
    <3>1. self_reference' \in BOOLEAN /\ callbacks_assigned' \in BOOLEAN
      BY <1>2 DEF IInv, TypeOK, Reject, MakeImmortal, SetError, MayCall, MaySettleAgain,
         MaySettle, Dispatch, Leave, EnterCallback
    <3>2. accepted' \subseteq Settlements \X Values
      BY <1>2 DEF IInv, TypeOK, Reject, MakeImmortal, SetError, MayCall, MaySettleAgain,
         MaySettle, Dispatch, Leave, EnterCallback
    <3>3. delivered' \subseteq Settlements \X (Values \cup {NoValue})
      BY <1>2 DEF IInv, TypeOK, Reject, MakeImmortal, SetError, MayCall, MaySettleAgain,
         MaySettle, Dispatch, Leave, EnterCallback
    <3>4. /\ state' \in States
          /\ result' \in Values \cup {NoValue}
          /\ error' \in Values \cup {NoValue}
          /\ callbacks' \in CallbackKinds \cup {"null"}
      BY <1>2 DEF IInv, TypeOK, Reject, MakeImmortal, SetError, MayCall, MaySettleAgain,
         MaySettle, Dispatch, Leave, EnterCallback
    <3>5. /\ mx' \in Threads \cup {NoThread}
          /\ pc' \in [Threads -> {"idle", "callback", "unlocked"}]
          /\ handles' \subseteq Threads
          /\ memory' \in {"live", "freed", "threw"}
          /\ settles' \in Nat /\ binds' \in Nat
          /\ finished' \in Nat /\ thrown' \in Nat
      BY <1>2 DEF IInv, TypeOK, Reject, MakeImmortal, SetError, MayCall, MaySettleAgain,
         MaySettle, Dispatch, Leave, EnterCallback
    <3> QED BY <3>1, <3>2, <3>3, <3>4, <3>5 DEF TypeOK
  <2>2. Locking'
    BY <1>2 DEF IInv, TypeOK, Locking, CallbackUnderLock, Reject, MakeImmortal, SetError,
       MayCall, MaySettleAgain, MaySettle, Dispatch, Leave, EnterCallback
  <2>3. Settling'
    BY <1>2 DEF IInv, TypeOK, Locking, CallbackUnderLock, Settling, EitherBranch, DeliversAccepted,
       NoLostCallback, Reject, MakeImmortal, SetError, MayCall, MaySettleAgain, MaySettle, Dispatch, Leave, EnterCallback
  <2>4. Lifetime'
    BY <1>2 DEF IInv, TypeOK, Locking, CallbackUnderLock, Lifetime, SettledIsKept,
       Reject, MakeImmortal, SetError, MayCall, MaySettleAgain, MaySettle, Dispatch, Leave, EnterCallback
  <2> QED BY <2>1, <2>2, <2>3, <2>4 DEF IInv
<1>3. ASSUME NEW t \in Threads, NEW kind \in CallbackKinds, Bind(t, kind)
      PROVE  IInv'
  <2>1. TypeOK'
    <3>1. self_reference' \in BOOLEAN /\ callbacks_assigned' \in BOOLEAN
      BY <1>3 DEF IInv, TypeOK, Bind, GetError, MayCall, MayBindAgain, Leave, EnterCallback,
         promiseVars
    <3>2. accepted' \subseteq Settlements \X Values
      BY <1>3 DEF IInv, TypeOK, Bind, GetError, MayCall, MayBindAgain, Leave, EnterCallback,
         promiseVars
    <3>3. delivered' \subseteq Settlements \X (Values \cup {NoValue})
      BY <1>3 DEF IInv, TypeOK, Bind, GetError, MayCall, MayBindAgain, Leave, EnterCallback,
         promiseVars
    <3>4. /\ state' \in States
          /\ result' \in Values \cup {NoValue}
          /\ error' \in Values \cup {NoValue}
          /\ callbacks' \in CallbackKinds \cup {"null"}
      BY <1>3 DEF IInv, TypeOK, Bind, GetError, MayCall, MayBindAgain, Leave, EnterCallback,
         promiseVars
    <3>5. /\ mx' \in Threads \cup {NoThread}
          /\ pc' \in [Threads -> {"idle", "callback", "unlocked"}]
          /\ handles' \subseteq Threads
          /\ memory' \in {"live", "freed", "threw"}
          /\ settles' \in Nat /\ binds' \in Nat
          /\ finished' \in Nat /\ thrown' \in Nat
      BY <1>3 DEF IInv, TypeOK, Bind, GetError, MayCall, MayBindAgain, Leave, EnterCallback,
         promiseVars
    <3> QED BY <3>1, <3>2, <3>3, <3>4, <3>5 DEF TypeOK
  <2>2. Locking'
    BY <1>3 DEF IInv, TypeOK, Locking, CallbackUnderLock, Bind, GetError, MayCall, MayBindAgain,
       Leave,
       EnterCallback, promiseVars
  <2>3. Settling'
    BY <1>3 DEF IInv, TypeOK, Locking, CallbackUnderLock, Settling, EitherBranch, DeliversAccepted,
       NoLostCallback, Bind, GetError, MayCall, MayBindAgain, Leave, EnterCallback, promiseVars
  <2>4. Lifetime'
    BY <1>3 DEF IInv, TypeOK, Locking, CallbackUnderLock, Settling, Lifetime, SettledIsKept,
       Bind, GetError, MayCall, MayBindAgain, Leave, EnterCallback, promiseVars
  <2> QED BY <2>1, <2>2, <2>3, <2>4 DEF IInv
<1>4. ASSUME NEW t \in Threads, CallbackReturns(t)
      PROVE  IInv'
  <2>1. TypeOK'
    BY <1>4 DEF IInv, TypeOK, CallbackReturns, MakeMortal
  <2>2. Locking'
    BY <1>4 DEF IInv, TypeOK, Locking, CallbackUnderLock, CallbackReturns, MakeMortal
  <2>3. Settling'
    BY <1>4 DEF IInv, TypeOK, Locking, CallbackUnderLock, Settling, EitherBranch, DeliversAccepted,
       NoLostCallback, CallbackReturns
  <2>4. Lifetime'
    BY <1>4 DEF IInv, TypeOK, Locking, CallbackUnderLock, Lifetime, SettledIsKept,
       CallbackReturns, MakeMortal
  <2> QED BY <2>1, <2>2, <2>3, <2>4 DEF IInv
<1>5. ASSUME NEW t \in Threads, CallbackThrows(t)
      PROVE  IInv'
  <2>1. TypeOK'
    BY <1>5 DEF IInv, TypeOK, CallbackThrows, promiseVars
  <2>2. Locking'
    BY <1>5 DEF IInv, TypeOK, Locking, CallbackUnderLock, CallbackThrows, promiseVars
  <2>3. Settling'
    BY <1>5 DEF IInv, TypeOK, Locking, CallbackUnderLock, Settling, EitherBranch, DeliversAccepted,
       NoLostCallback, CallbackThrows, promiseVars
  <2>4. Lifetime'
    BY <1>5 DEF IInv, TypeOK, Locking, CallbackUnderLock, Lifetime, SettledIsKept,
       CallbackThrows, promiseVars
  <2> QED BY <2>1, <2>2, <2>3, <2>4 DEF IInv
<1>6. ASSUME NEW t \in Threads, ReleaseSelf(t)
      PROVE  IInv'
  <2>1. TypeOK'
    BY <1>6 DEF IInv, TypeOK, ReleaseSelf, promiseVars, historyVars
  <2>2. Locking'
    BY <1>6 DEF IInv, TypeOK, Locking, CallbackUnderLock, ReleaseSelf, promiseVars, historyVars
  <2>3. Settling'
    BY <1>6 DEF IInv, Settling, EitherBranch, DeliversAccepted,
       NoLostCallback, ReleaseSelf, promiseVars, historyVars
  <2>4. Lifetime'
    BY <1>6 DEF IInv, TypeOK, Lifetime, SettledIsKept, ReleaseSelf, promiseVars, historyVars
  <2> QED BY <2>1, <2>2, <2>3, <2>4 DEF IInv
<1>7. ASSUME NEW t \in Threads, DropHandle(t)
      PROVE  IInv'
  <2>1. TypeOK'
    BY <1>7 DEF IInv, TypeOK, DropHandle, promiseVars, historyVars
  <2>2. Locking'
    BY <1>7 DEF IInv, TypeOK, Locking, CallbackUnderLock, DropHandle, promiseVars, historyVars
  <2>3. Settling'
    BY <1>7 DEF IInv, Settling, EitherBranch, DeliversAccepted,
       NoLostCallback, DropHandle, promiseVars, historyVars
  <2>4. Lifetime'
    BY <1>7 DEF IInv, TypeOK, Locking, CallbackUnderLock, Lifetime, SettledIsKept, DropHandle,
       promiseVars, historyVars
  <2> QED BY <2>1, <2>2, <2>3, <2>4 DEF IInv
<1>8. ASSUME UNCHANGED vars
      PROVE  IInv'
  BY <1>8 DEF vars, promiseVars, historyVars, IInv, TypeOK, Locking, CallbackUnderLock, Settling,
     EitherBranch, DeliversAccepted, NoLostCallback, Lifetime, SettledIsKept
<1> QED BY <1>1, <1>2, <1>3, <1>4, <1>5, <1>6, <1>7, <1>8 DEF Next

\* The inductive invariant holds in every reachable state.
THEOREM Inductive == ASSUME SafePromises PROVE Spec => []IInv
BY InitIInv, StepIInv, PTL DEF Spec

\* Type correctness.
THEOREM TypeCorrect == ASSUME SafePromises PROVE Spec => []TypeOK
<1>1. IInv => TypeOK BY DEF IInv
<1> QED BY <1>1, Inductive, PTL

\* promise.md: either next or handler is called, never both, for any number of
\* threads that resolve, reject and bind in any order.
THEOREM OneBranchOnly == ASSUME SafePromises PROVE Spec => []EitherBranch
<1>1. IInv => EitherBranch BY DEF IInv, Settling
<1> QED BY <1>1, Inductive, PTL

\* Callbacks only see values of settlements that set_state accepted.
THEOREM AcceptedValuesOnly == ASSUME SafePromises PROVE Spec => []DeliversAccepted
<1>1. IInv => DeliversAccepted BY DEF IInv, Settling
<1> QED BY <1>1, Inductive, PTL

\* A callback that returned is never called again.
THEOREM CallbackCompletesOnce == ASSUME SafePromises PROVE Spec => []CompletesOnce
<1>1. IInv => CompletesOnce BY DEF IInv, TypeOK, States, Settling, CompletesOnce
<1> QED BY <1>1, Inductive, PTL

\* Settlement and binding never miss each other.
THEOREM CallbackNotLost == ASSUME SafePromises PROVE Spec => []NoLostCallback
<1>1. IInv => NoLostCallback BY DEF IInv, Settling
<1> QED BY <1>1, Inductive, PTL

\* The object outlives every call that runs in it, even when the callback
\* drops the last handle.
THEOREM NeverUsedAfterFree == ASSUME SafePromises PROVE Spec => []NoUseAfterFree
<1>1. IInv => NoUseAfterFree
  BY ThreadsAssumption DEF IInv, TypeOK, Locking, CallbackUnderLock, Lifetime, NoUseAfterFree
<1> QED BY <1>1, Inductive, PTL

\* A promise settled and not yet delivered is never destroyed, and a delivered
\* one keeps no reference to itself.
THEOREM LifetimeMatchesDelivery ==
    ASSUME SafePromises PROVE Spec => [](SettledIsKept /\ CompletedIsMortal)
<1>1. IInv => SettledIsKept /\ CompletedIsMortal
  BY DEF IInv, Lifetime, CompletedIsMortal
<1> QED BY <1>1, Inductive, PTL

\* The state only moves along the graph of promise.md.
THEOREM FollowsStateGraph == ASSUME SafePromises PROVE Spec => StateGraph
<1>1. IInv /\ [Next]_vars => [StateGraphStep]_vars
  <2> SUFFICES ASSUME IInv, Next PROVE StateGraphStep
    OBVIOUS
  <2>1. ASSUME NEW t \in Threads, NEW v \in Values, Resolve(t, v) \/ Reject(t, v)
        PROVE  StateGraphStep
    BY <2>1 DEF IInv, TypeOK, States, Settlements, StateGraphStep, Resolve, Reject, MaySettle
  <2>2. ASSUME NEW t \in Threads, CallbackReturns(t)
        PROVE  StateGraphStep
    BY <2>2, ThreadsAssumption DEF IInv, TypeOK, Locking, CallbackUnderLock, StateGraphStep,
       CallbackReturns
  <2>3. ASSUME NEW t \in Threads, NEW kind \in CallbackKinds,
               Bind(t, kind)
        PROVE  StateGraphStep
    BY <2>3 DEF StateGraphStep, Bind, promiseVars
  <2>4. ASSUME NEW t \in Threads, CallbackThrows(t) \/ ReleaseSelf(t) \/ DropHandle(t)
        PROVE  StateGraphStep
    BY <2>4 DEF StateGraphStep, CallbackThrows, ReleaseSelf, DropHandle, promiseVars
  <2> QED BY <2>1, <2>2, <2>3, <2>4 DEF Next
<1> QED BY <1>1, Inductive, PTL DEF Spec, StateGraph
=============================================================================
