--------------------------- MODULE CombineProofs ---------------------------
(***************************************************************************)
(* Proofs about Combine, for lists of every length: the combined promise   *)
(* is settled once, the vector is moved when nobody can store in it any    *)
(* more, and combine() implements CombineSpec.                             *)
(***************************************************************************)
EXTENDS Combine, FiniteSetTheorems, TLAPS

\* the promises that the finalizer has not counted yet
Uncounted == {i \in Indices : pc[i] \notin {"resolve", "done"}}

Types ==
    /\ promises \in [Indices -> {"pending", "resolved", "rejected"}]
    /\ \E n \in Lengths : Indices = 1 .. n /\ index \in 0 .. n
    /\ pc \in [Indices -> Running \cup {"waiting", "done"}]
    /\ runner \in [Indices -> {"nobody", "combiner", "settler"}]
    /\ failed \in BOOLEAN
    /\ results \in [Indices -> {NoResult} \cup Indices] \cup {<<>>}
    /\ nextPromise.state \in {"pending", "resolved", "rejected"}
    /\ attempts \in {0, 1}

\* what a callback that runs tells of its promise
Callbacks ==
    \A i \in Indices :
        /\ i > index => pc[i] = "waiting"
        /\ pc[i] # "waiting" => promises[i] # "pending"
        /\ pc[i] = "next" => promises[i] = "resolved"
        /\ pc[i] \in {"handler", "reject"} => promises[i] = "rejected"

\* remaining counts what is not counted yet
Counting ==
    /\ IsFiniteSet(Uncounted)
    /\ remaining = Cardinality(Uncounted)

\* failed is set by the first handler, which then rejects the combined promise
Failing ==
    /\ \A i \in Indices :
          ~failed /\ pc[i] \in {"finalizer", "resolve", "done"} => promises[i] = "resolved"
    /\ \A i \in Indices : pc[i] = "reject" => failed /\ attempts = 0
    /\ \A i, j \in Indices : pc[i] = "reject" /\ pc[j] = "reject" => i = j

\* the last finalizer, if none has failed, resolves it when it is alone
Resolving ==
    \A i \in Indices : pc[i] = "resolve" =>
        /\ ~failed
        /\ attempts = 0
        /\ \A j \in Indices \ {i} : pc[j] = "done"

\* while nobody has failed every result is stored where it belongs
Storing ==
    \A i \in Indices :
        ~failed /\ results # <<>> /\ pc[i] \in {"finalizer", "resolve", "done"}
            => results[i] = i

Settling ==
    /\ attempts = 0 => nextPromise = Abstract!Pending
    /\ attempts = 1 => failed \/ \A i \in Indices : pc[i] = "done"

\* A promise that had rejected before the call is run by the loop, and what has
\* been bound before the last one is done: the first handler to run is not behind it.
EarlyFirst ==
    /\ early \subseteq Indices
    /\ \A i \in early :
          /\ promises[i] = "rejected"
          /\ i <= index => runner[i] = "combiner"
          /\ i < index => pc[i] = "done"
    /\ \A e \in Indices : pc[e] = "reject" => \A i \in early : e <= i

IInv ==
    /\ Types
    /\ Callbacks
    /\ Counting
    /\ Failing
    /\ Resolving
    /\ Storing
    /\ Settling
    /\ MovedLast
    /\ EarlyFirst

-----------------------------------------------------------------------------
(* The invariant holds initially and is preserved by every step.            *)

LEMMA InitiallyHolds == Init => IInv
  <1> SUFFICES ASSUME Init PROVE IInv
      OBVIOUS
  <1>1. PICK n \in Lengths :
          /\ promises = [i \in 1 .. n |-> "pending"]
          /\ index = 0
          /\ pc = [i \in 1 .. n |-> "waiting"]
          /\ runner = [i \in 1 .. n |-> "nobody"]
          /\ remaining = n
          /\ failed = FALSE
          /\ results = [i \in 1 .. n |-> NoResult]
          /\ nextPromise = Abstract!Pending
          /\ attempts = 0
          /\ early = {}
    BY DEF Init
  <1>2. n \in Nat
    BY LengthsAssumption
  <1>3. Indices = 1 .. n
    BY <1>1 DEF Indices
  <1>4. Types
    <2>1. \E m \in Lengths : Indices = 1 .. m /\ index \in 0 .. m
      BY <1>1, <1>2, <1>3
    <2>2. results \in [Indices -> {NoResult} \cup Indices]
      BY <1>1, <1>3
    <2>3. nextPromise.state = "pending"
      BY <1>1 DEF Abstract!Pending
    <2> QED
      BY <1>1, <1>3, <2>1, <2>2, <2>3 DEF Types
  <1>5. Uncounted = 1 .. n
    BY <1>1, <1>3 DEF Uncounted
  <1>6. IsFiniteSet(1 .. n) /\ Cardinality(1 .. n) = n
    BY <1>2, FS_Interval
  <1>7. Counting
    BY <1>1, <1>5, <1>6 DEF Counting
  <1>8. Callbacks /\ Failing /\ Resolving /\ Storing /\ Settling
    BY <1>1, <1>2, <1>3 DEF Callbacks, Failing, Resolving, Storing, Settling
  <1>9. MovedLast /\ EarlyFirst
    BY <1>1, <1>2, <1>3 DEF MovedLast, EarlyFirst
  <1> QED
    BY <1>4, <1>7, <1>8, <1>9 DEF IInv

\* A step that counts nobody keeps the count.
LEMMA CountKept ==
  ASSUME Counting, Uncounted' = Uncounted, remaining' = remaining
  PROVE  Counting'
  BY DEF Counting

\* A callback that makes no promise the rejecting one.
LEMMA EarlyKept ==
  ASSUME EarlyFirst, Indices' = Indices, UNCHANGED <<promises, index, runner, early>>,
         \A i \in Indices : pc'[i] = "reject" => pc[i] = "reject",
         \A i \in Indices : pc[i] = "done" => pc'[i] = "done"
  PROVE  EarlyFirst'
  BY DEF EarlyFirst

LEMMA SettlePreserves ==
  ASSUME IInv, NEW k \in Indices, NEW s \in {"resolved", "rejected"}, Settle(k, s)
  PROVE  IInv'
  <1>1. Indices' = Indices /\ pc[k] = "waiting" /\ promises[k] = "pending"
    BY DEF IInv, Settle, Indices, Types, Callbacks, Running
  <1>2. promises' = [promises EXCEPT ![k] = s]
    BY DEF Settle
  <1>3. \/ pc' = pc
        \/ k <= index /\ pc' = [pc EXCEPT ![k] = FirstCallback(s)]
    BY DEF Settle, Start
  <1>4. runner' \in {runner, [runner EXCEPT ![k] = "settler"]}
    BY DEF Settle, Start
  <1>5. UNCHANGED <<index, remaining, failed, results, nextPromise, attempts>>
    BY DEF Settle
  <1> USE DEF IInv, FirstCallback
  <1>6. Types'
    BY <1>1, <1>2, <1>3, <1>4, <1>5 DEF Types, Running
  <1>7. Callbacks'
    <2> SUFFICES ASSUME NEW i \in Indices
                 PROVE  /\ i > index => pc'[i] = "waiting"
                        /\ pc'[i] # "waiting" => promises'[i] # "pending"
                        /\ pc'[i] = "next" => promises'[i] = "resolved"
                        /\ pc'[i] \in {"handler", "reject"} => promises'[i] = "rejected"
        BY <1>1, <1>5 DEF Callbacks
    <2>0. i \in Nat /\ index \in Nat
      BY LengthsAssumption DEF Types
    <2>1. CASE i = k
      <3>1. promises'[k] = s
        BY <1>1, <1>2 DEF Types
      <3>2. CASE pc' = pc
        BY <1>1, <2>1, <3>1, <3>2
      <3>3. CASE k <= index /\ pc' = [pc EXCEPT ![k] = FirstCallback(s)]
        <4>1. pc'[k] = FirstCallback(s)
          BY <3>3 DEF Types
        <4>2. ~(k > index)
          BY <2>0, <2>1, <3>3
        <4> QED
          BY <2>1, <3>1, <4>1, <4>2
      <3> QED
        BY <1>3, <3>2, <3>3
    <2>2. CASE i # k
      BY <1>2, <1>3, <2>2 DEF Callbacks, Types
    <2> QED
      BY <2>1, <2>2
  <1>8. Uncounted' = Uncounted
    BY <1>1, <1>3 DEF Uncounted, Types
  <1>9. Counting'
    BY <1>5, <1>8, CountKept
  <1>10. \A i \in Indices :
            pc'[i] \in {"reject", "finalizer", "resolve", "done"}
                => i # k /\ pc'[i] = pc[i] /\ promises'[i] = promises[i]
    BY <1>1, <1>2, <1>3 DEF Types
  <1>11. Failing'
    BY <1>1, <1>5, <1>10 DEF Failing
  <1>12. \A i \in Indices : pc[i] = "done" => pc'[i] = "done"
    BY <1>1, <1>3 DEF Types
  <1>13. Resolving'
    BY <1>1, <1>5, <1>10, <1>12 DEF Resolving
  <1>14. Storing' /\ Settling'
    BY <1>1, <1>5, <1>10, <1>12 DEF Storing, Settling
  <1>15. MovedLast'
    BY <1>1, <1>5, <1>12 DEF MovedLast
  <1>16. EarlyFirst'
    <2>1. k \notin early /\ early' = early
      BY <1>1 DEF EarlyFirst, Settle
    <2>2. \A i \in Indices \ {k} : promises'[i] = promises[i] /\ runner'[i] = runner[i]
      BY <1>2, <1>4 DEF Types
    <2> QED
      BY <1>1, <1>5, <1>10, <1>12, <2>1, <2>2 DEF EarlyFirst
  <1> QED
    BY <1>6, <1>7, <1>9, <1>11, <1>13, <1>14, <1>15, <1>16

LEMMA BindPreserves ==
  ASSUME IInv, Bind
  PROVE  IInv'
  <1> DEFINE k == index + 1
  <1>1. Indices' = Indices /\ k \in Indices
    BY DEF Bind, Indices
  <1>2. /\ index \in Nat
        /\ \A i \in Indices : i \in Nat
    BY LengthsAssumption DEF IInv, Types
  <1>3. pc[k] = "waiting"
    BY <1>1, <1>2 DEF IInv, Callbacks
  <1>4. \/ pc' = pc
        \/ promises[k] # "pending" /\ pc' = [pc EXCEPT ![k] = FirstCallback(promises[k])]
    BY DEF Bind, Start
  <1>5. runner' \in {runner, [runner EXCEPT ![k] = "combiner"]}
    BY DEF Bind, Start
  <1>6. index' = k /\ UNCHANGED <<promises, remaining, failed, results, nextPromise, attempts>>
    BY DEF Bind
  <1>7. k \in Nat /\ \A i \in Indices : i > k => i > index /\ i # k
    BY <1>2
  <1> HIDE DEF k
  <1> USE DEF IInv, FirstCallback
  <1>8. Types'
    BY <1>1, <1>4, <1>5, <1>6, <1>7 DEF Types, Running
  <1>9. Callbacks'
    <2> SUFFICES ASSUME NEW i \in Indices
                 PROVE  /\ i > k => pc'[i] = "waiting"
                        /\ pc'[i] # "waiting" => promises[i] # "pending"
                        /\ pc'[i] = "next" => promises[i] = "resolved"
                        /\ pc'[i] \in {"handler", "reject"} => promises[i] = "rejected"
        BY <1>1, <1>6 DEF Callbacks
    <2>1. CASE i = k
      BY <1>1, <1>2, <1>3, <1>4, <1>7, <2>1 DEF Callbacks, Types
    <2>2. CASE i # k
      BY <1>1, <1>4, <1>7, <2>2 DEF Callbacks, Types
    <2> QED
      BY <2>1, <2>2
  <1>10. Uncounted' = Uncounted
    BY <1>1, <1>3, <1>4 DEF Uncounted, Types
  <1>11. Counting'
    BY <1>6, <1>10, CountKept
  <1>12. \A i \in Indices :
            pc'[i] \in {"reject", "finalizer", "resolve", "done"}
                => i # k /\ pc'[i] = pc[i]
    BY <1>1, <1>3, <1>4 DEF Types
  <1>13. Failing'
    BY <1>1, <1>6, <1>12 DEF Failing
  <1>14. \A i \in Indices : pc[i] = "done" => pc'[i] = "done"
    BY <1>1, <1>3, <1>4 DEF Types
  <1>15. Resolving'
    BY <1>1, <1>6, <1>12, <1>14 DEF Resolving
  <1>16. Storing' /\ Settling'
    BY <1>1, <1>6, <1>12, <1>14 DEF Storing, Settling
  <1>17. MovedLast'
    BY <1>1, <1>6, <1>14 DEF MovedLast
  <1>18. EarlyFirst'
    <2>1. /\ early' \subseteq Indices
          /\ \A i \in early' : promises[i] = "rejected" /\ (index = 0 \/ i \in early)
          /\ index # 0 => early' = early
      BY DEF Bind, EarlyFirst
    <2>2. \A i \in Indices : i = k \/ (i <= k <=> i <= index)
      BY <1>2 DEF k
    <2>3. \A i \in Indices : i < k => i <= index
      BY <1>2 DEF k
    <2>4. \A i \in Indices : runner[i] = "combiner" => pc[i] = "done"
      BY DEF Bind
    <2>5. \A i \in Indices : i # k => runner'[i] = runner[i]
      BY <1>5 DEF Types
    <2>6. promises[k] = "rejected" => runner'[k] = "combiner"
      BY <1>1 DEF Bind, Start, Types, k
    <2>7. ASSUME NEW i \in early'
          PROVE  /\ promises'[i] = "rejected"
                 /\ i <= index' => runner'[i] = "combiner"
                 /\ i < index' => pc'[i] = "done"
      <3>1. i \in Indices /\ promises[i] = "rejected" /\ (index = 0 \/ i \in early)
        BY <2>1, <2>7
      <3>2. i # k /\ i <= k => i \in early
        <4>1. \A n \in Indices : n > 0
          BY LengthsAssumption DEF Types
        <4> QED
          BY <1>2, <2>2, <3>1, <4>1
      <3>3. i <= index' => runner'[i] = "combiner"
        BY <1>6, <2>2, <2>5, <2>6, <3>1, <3>2 DEF EarlyFirst
      <3>4. i < index' => pc'[i] = "done"
        <4> SUFFICES ASSUME i < k PROVE pc'[i] = "done"
            BY <1>6
        <4>1. i # k /\ i <= k /\ i <= index
          BY <1>2, <1>7, <2>3, <3>1
        <4>2. pc[i] = "done"
          BY <2>4, <3>1, <3>2, <4>1 DEF EarlyFirst
        <4> QED
          BY <1>14, <3>1, <4>2
      <3> QED
        BY <1>6, <3>1, <3>3, <3>4
    <2>8. ASSUME NEW e \in Indices, pc'[e] = "reject", NEW i \in early'
          PROVE  e <= i
      <3>1. pc[e] = "reject"
        BY <1>12, <2>8
      <3>2. e <= index /\ e > 0
        BY <1>2, <3>1, LengthsAssumption DEF Callbacks, Types
      <3> QED
        BY <1>2, <2>1, <2>8, <3>1, <3>2 DEF EarlyFirst
    <2> QED
      BY <1>1, <2>1, <2>7, <2>8 DEF EarlyFirst
  <1> QED
    BY <1>8, <1>9, <1>11, <1>13, <1>15, <1>16, <1>17, <1>18

LEMMA NextCallbackPreserves ==
  ASSUME IInv, NEW k \in Indices, NextCallback(k)
  PROVE  IInv'
  <1> USE DEF IInv, NextCallback
  <1>1. Indices' = Indices
    BY DEF Indices
  <1>2. results # <<>>
    BY DEF MovedLast
  <1>3. results \in [Indices -> {NoResult} \cup Indices]
    BY <1>2 DEF Types
  <1>4. Types'
    BY <1>1, <1>3 DEF Types, Running
  <1>5. Callbacks'
    BY <1>1 DEF Callbacks, Types
  <1>6. Uncounted' = Uncounted
    BY <1>1 DEF Uncounted, Types
  <1>7. Counting'
    BY <1>6, CountKept
  <1>8. Failing'
    BY <1>1 DEF Failing, Types, Callbacks
  <1>9. Resolving'
    BY <1>1 DEF Resolving, Types
  <1>10. Storing'
    BY <1>1, <1>3 DEF Storing, Types
  <1>11. Settling'
    BY <1>1 DEF Settling, Types
  <1>12. results' # <<>>
    BY <1>2, <1>3
  <1>13. MovedLast'
    BY <1>12 DEF MovedLast
  <1>14. EarlyFirst'
    BY <1>1, EarlyKept DEF Types
  <1> QED
    BY <1>4, <1>5, <1>7, <1>8, <1>9, <1>10, <1>11, <1>13, <1>14

LEMMA HandlerPreserves ==
  ASSUME IInv, NEW k \in Indices, Handler(k)
  PROVE  IInv'
  <1> USE DEF IInv, Handler
  <1>1. Indices' = Indices
    BY DEF Indices
  <1>2. ~failed => attempts = 0
    BY DEF Settling, Types
  <1>3. Types'
    BY <1>1 DEF Types, Running
  <1>4. Callbacks'
    BY <1>1 DEF Callbacks, Types
  <1>5. Uncounted' = Uncounted
    BY <1>1 DEF Uncounted, Types
  <1>6. Counting'
    BY <1>5, CountKept
  <1>7. Failing'
    BY <1>1, <1>2 DEF Failing, Types
  <1>8. \A i \in Indices : pc[i] # "resolve"
    BY DEF Resolving
  <1>9. Resolving'
    BY <1>1, <1>8 DEF Resolving, Types
  <1>10. Storing' /\ Settling'
    BY <1>1 DEF Storing, Settling, Types
  <1>11. MovedLast'
    BY <1>1 DEF MovedLast, Types
  <1>12. ASSUME ~failed, NEW i \in early PROVE k <= i
    <2>1. i \in Indices /\ k \in Nat /\ i \in Nat /\ index \in Nat
      BY LengthsAssumption DEF EarlyFirst, Types
    <2>2. k <= index
      BY <2>1 DEF Callbacks
    <2>3. promises[i] = "rejected" /\ (i < index => pc[i] = "done")
      BY DEF EarlyFirst
    <2>4. pc[i] # "done"
      BY <1>12, <2>1, <2>3 DEF Failing
    <2> QED
      BY <2>1, <2>2, <2>3, <2>4
  <1>13. EarlyFirst'
    <2>1. \A i \in Indices : i # k => pc'[i] = pc[i]
      BY DEF Types
    <2>2. pc'[k] = "reject" => ~failed
      BY DEF Types
    <2> QED
      BY <1>1, <1>12, <2>1, <2>2 DEF EarlyFirst
  <1> QED
    BY <1>3, <1>4, <1>6, <1>7, <1>9, <1>10, <1>11, <1>13

LEMMA RejectNextPreserves ==
  ASSUME IInv, NEW k \in Indices, RejectNext(k)
  PROVE  IInv'
  <1> USE DEF IInv, RejectNext, SettleNext
  <1>1. Indices' = Indices
    BY DEF Indices
  <1>2. attempts = 0 /\ failed
    BY DEF Failing
  <1>3. Types'
    BY <1>1, <1>2 DEF Types, Running, Abstract!Rejected
  <1>4. Callbacks'
    BY <1>1 DEF Callbacks, Types
  <1>5. Uncounted' = Uncounted
    BY <1>1 DEF Uncounted, Types
  <1>6. Counting'
    BY <1>5, CountKept
  <1>7. Failing'
    BY <1>1, <1>2 DEF Failing, Types
  <1>8. Resolving'
    BY <1>1, <1>2 DEF Resolving, Types
  <1>9. Storing' /\ Settling'
    BY <1>1, <1>2 DEF Storing, Settling, Types
  <1>10. MovedLast'
    BY <1>1 DEF MovedLast, Types
  <1>11. EarlyFirst'
    BY <1>1, EarlyKept DEF Types
  <1> QED
    BY <1>3, <1>4, <1>6, <1>7, <1>8, <1>9, <1>10, <1>11

LEMMA FinalizerPreserves ==
  ASSUME IInv, NEW k \in Indices, Finalizer(k)
  PROVE  IInv'
  <1> USE DEF IInv, Finalizer
  <1>1. Indices' = Indices
    BY DEF Indices
  <1>2. pc' = [pc EXCEPT ![k] = IF remaining' = 0 /\ ~failed THEN "resolve" ELSE "done"]
    OBVIOUS
  <1>3. Uncounted' = Uncounted \ {k} /\ k \in Uncounted
    BY <1>1, <1>2 DEF Uncounted, Types
  <1>4. /\ IsFiniteSet(Uncounted \ {k})
        /\ Cardinality(Uncounted \ {k}) = Cardinality(Uncounted) - 1
    BY <1>3, FS_RemoveElement DEF Counting
  <1>5. Counting'
    BY <1>3, <1>4 DEF Counting
  <1>6. \A i \in Indices : pc[i] # "resolve"
    BY DEF Resolving, Types
  <1>7. remaining' = 0 => Uncounted' = {}
    BY <1>5, FS_EmptySet DEF Counting
  <1>8. remaining' = 0 => \A j \in Indices \ {k} : pc[j] = "done"
    BY <1>3, <1>6, <1>7 DEF Uncounted
  <1>9. ~failed => attempts = 0
    BY DEF Settling, Types
  <1>10. Types'
    BY <1>1, <1>2 DEF Types, Running
  <1>11. Callbacks'
    BY <1>1, <1>2 DEF Callbacks, Types
  <1>12. Failing'
    BY <1>1, <1>2 DEF Failing, Types
  <1>13. Resolving'
    BY <1>1, <1>2, <1>6, <1>8, <1>9 DEF Resolving, Types
  <1>14. Storing' /\ Settling'
    BY <1>1, <1>2 DEF Storing, Settling, Types
  <1>15. MovedLast'
    BY <1>1, <1>2 DEF MovedLast, Types
  <1>16. EarlyFirst'
    BY <1>1, <1>2, EarlyKept DEF Types
  <1> QED
    BY <1>5, <1>10, <1>11, <1>12, <1>13, <1>14, <1>15, <1>16

LEMMA ResolveNextPreserves ==
  ASSUME IInv, NEW k \in Indices, ResolveNext(k)
  PROVE  IInv'
  <1> USE DEF IInv, ResolveNext, SettleNext
  <1>1. Indices' = Indices
    BY DEF Indices
  <1>2. attempts = 0 /\ ~failed /\ \A j \in Indices \ {k} : pc[j] = "done"
    BY DEF Resolving
  <1>3. \A j \in Indices : pc'[j] = "done"
    BY <1>2 DEF Types
  <1>4. Types'
    BY <1>1, <1>2 DEF Types, Running, Abstract!Resolved
  <1>5. Callbacks'
    BY <1>1 DEF Callbacks, Types
  <1>6. Uncounted' = Uncounted
    BY <1>1 DEF Uncounted, Types
  <1>7. Counting'
    BY <1>6, CountKept
  <1>8. Failing'
    BY <1>1, <1>2, <1>3 DEF Failing, Types
  <1>9. Resolving' /\ Storing' /\ Settling' /\ MovedLast'
    BY <1>1, <1>2, <1>3 DEF Resolving, Storing, Settling, MovedLast
  <1>10. EarlyFirst'
    BY <1>1, <1>3, EarlyKept
  <1> QED
    BY <1>4, <1>5, <1>7, <1>8, <1>9, <1>10

LEMMA StutterPreserves ==
  ASSUME IInv, UNCHANGED vars
  PROVE  IInv'
  <1>1. Types' /\ Callbacks'
    BY DEF IInv, vars, Types, Callbacks, Indices
  <1>2. Uncounted' = Uncounted /\ remaining' = remaining
    BY DEF vars, Uncounted, Indices
  <1>3. Counting'
    BY <1>2, CountKept DEF IInv
  <1>4. Failing' /\ Resolving'
    BY DEF IInv, vars, Failing, Resolving, Indices
  <1>5. Storing' /\ Settling' /\ MovedLast' /\ EarlyFirst'
    BY DEF IInv, vars, Storing, Settling, MovedLast, EarlyFirst, Indices
  <1> QED
    BY <1>1, <1>3, <1>4, <1>5 DEF IInv

LEMMA EveryStepPreserves == IInv /\ [Next]_vars => IInv'
  <1> SUFFICES ASSUME IInv, [Next]_vars PROVE IInv'
      OBVIOUS
  <1>1. ASSUME NEW k \in Indices, Callback(k) PROVE IInv'
    BY <1>1, NextCallbackPreserves, HandlerPreserves, RejectNextPreserves,
       FinalizerPreserves, ResolveNextPreserves DEF Callback
  <1> QED
    BY <1>1, SettlePreserves, BindPreserves, StutterPreserves DEF Next

\* The inductive invariant holds of every behaviour.
THEOREM Inductive == Spec => []IInv
  BY InitiallyHolds, EveryStepPreserves, PTL DEF Spec

-----------------------------------------------------------------------------
(* What follows from it.                                                    *)

\* Every variable keeps its type: the counter never passes below zero.
THEOREM Typing == Spec => []TypeOK
  <1>1. IInv => TypeOK
    <2> SUFFICES ASSUME IInv PROVE TypeOK
        OBVIOUS
    <2>1. PICK n \in Lengths : Indices = 1 .. n /\ index \in 0 .. n
      BY DEF IInv, Types
    <2>2. n \in Nat
      BY LengthsAssumption
    <2>3. IsFiniteSet(1 .. n) /\ Cardinality(1 .. n) = n
      BY <2>2, FS_Interval
    <2>4. Uncounted \subseteq 1 .. n
      BY <2>1 DEF Uncounted
    <2>5. Cardinality(Uncounted) \in Nat /\ Cardinality(Uncounted) <= n
      BY <2>3, <2>4, FS_Subset, FS_CardinalityType
    <2>6. remaining \in 0 .. n
      BY <2>2, <2>5 DEF IInv, Counting
    <2>7. index \in 0 .. n
      BY <2>1 DEF IInv, Types
    <2>8. /\ promises \in [1 .. n -> {"pending", "resolved", "rejected"}]
          /\ pc \in [1 .. n -> Running \cup {"waiting", "done"}]
          /\ runner \in [1 .. n -> {"nobody", "combiner", "settler"}]
          /\ failed \in BOOLEAN
      BY <2>1 DEF IInv, Types
    <2>9. results \in [1 .. n -> 0 .. n] \cup {<<>>}
      <3>1. {NoResult} \cup 1 .. n = 0 .. n
        BY <2>2 DEF NoResult
      <3> QED
        BY <2>1, <3>1 DEF IInv, Types
    <2>10. nextPromise.state \in {"pending", "resolved", "rejected"} /\ attempts \in Nat
      BY DEF IInv, Types
    <2>11. early \subseteq 1 .. n
      BY <2>1 DEF IInv, EarlyFirst
    <2> QED
      BY <2>6, <2>7, <2>8, <2>9, <2>10, <2>11 DEF TypeOK
  <1> QED
    BY <1>1, Inductive, PTL

\* The combined promise is resolved or rejected once.
THEOREM SettlesOnce == Spec => []SettledOnce
  <1>1. IInv => SettledOnce
    BY DEF IInv, Types, SettledOnce
  <1> QED
    BY <1>1, Inductive, PTL

\* The results are moved when no callback stores one any more.
THEOREM VectorMovedLast == Spec => []MovedLast
  <1>1. IInv => MovedLast
    BY DEF IInv
  <1> QED
    BY <1>1, Inductive, PTL

\* combine() implements its specification: every step of the code is a step of
\* CombineSpec or changes nothing that it speaks of.
THEOREM CombineImplements == Spec => Implements
  <1>1. Init => Abstract!Init
    <2> SUFFICES ASSUME Init PROVE Abstract!Init
        OBVIOUS
    <2> QED
      BY DEF Init, Abstract!Init
  <1>2. IInv /\ [Next]_vars => [Abstract!Next]_(Abstract!vars)
    <2> SUFFICES ASSUME IInv, [Next]_vars PROVE [Abstract!Next]_(Abstract!vars)
        OBVIOUS
    <2> USE DEF Abstract!vars
    <2>1. Abstract!Indices = Indices
      BY DEF Abstract!Indices, Indices
    <2>2. ASSUME NEW i \in Indices, NEW s \in {"resolved", "rejected"}, Settle(i, s)
          PROVE  Abstract!Next
      BY <2>1, <2>2 DEF Settle, Abstract!Settle, Abstract!Next
    <2>0. index \in Nat /\ \A i \in Indices : i \in Nat /\ i > 0 /\ (pc[i] # "waiting" => index > 0)
      BY LengthsAssumption DEF IInv, Types, Callbacks
    <2>3. ASSUME Bind PROVE [Abstract!Next]_(Abstract!vars)
      <3>1. UNCHANGED <<promises, nextPromise>> /\ index' > 0
        BY <2>0, <2>3 DEF Bind
      <3>2. CASE index = 0
        <4>1. Abstract!Call
          BY <2>1, <2>3, <3>1, <3>2 DEF Bind, Abstract!Call
        <4> QED
          BY <4>1 DEF Abstract!Next
      <3>3. CASE index > 0
        BY <2>0, <2>3, <3>1, <3>3 DEF Bind
      <3> QED
        BY <2>0, <3>2, <3>3
    <2>4. ASSUME NEW i \in Indices, NextCallback(i) PROVE UNCHANGED Abstract!vars
      BY <2>4 DEF NextCallback
    <2>5. ASSUME NEW i \in Indices, Handler(i) PROVE UNCHANGED Abstract!vars
      BY <2>5 DEF Handler
    <2>6. ASSUME NEW i \in Indices, RejectNext(i) PROVE Abstract!Next
      <3>1. /\ nextPromise = Abstract!Pending /\ promises[i] = "rejected"
            /\ index > 0 /\ \A j \in early : i <= j
        BY <2>0, <2>6 DEF IInv, Callbacks, Failing, Settling, EarlyFirst, RejectNext
      <3>2. Abstract!Reject(i)
        BY <2>6, <3>1 DEF RejectNext, SettleNext, Abstract!Reject
      <3> QED
        BY <2>1, <3>2 DEF Abstract!Next
    <2>7. ASSUME NEW i \in Indices, Finalizer(i) PROVE UNCHANGED Abstract!vars
      BY <2>7 DEF Finalizer
    <2>8. ASSUME NEW i \in Indices, ResolveNext(i) PROVE Abstract!Next
      <3>1. pc[i] = "resolve" /\ ~failed /\ nextPromise = Abstract!Pending /\ index > 0
        BY <2>0, <2>8 DEF IInv, Resolving, Settling, ResolveNext
      <3>2. \A j \in Indices : pc[j] \in {"resolve", "done"}
        BY <2>8, <3>1 DEF IInv, Resolving
      <3>3. \A j \in Indices : promises[j] = "resolved"
        BY <3>1, <3>2 DEF IInv, Failing
      <3>4. results # <<>>
        BY <3>1 DEF IInv, MovedLast
      <3>5. results \in [Indices -> {NoResult} \cup Indices]
        BY <3>4 DEF IInv, Types
      <3>6. \A j \in Indices : results[j] = j
        BY <3>1, <3>2, <3>4 DEF IInv, Storing
      <3>7. results = [j \in Indices |-> j]
        BY <3>5, <3>6
      <3>8. Abstract!Resolve
        BY <2>1, <2>8, <3>1, <3>3, <3>7 DEF ResolveNext, SettleNext, Abstract!Resolve
      <3> QED
        BY <3>8 DEF Abstract!Next
    <2> QED
      BY <2>2, <2>3, <2>4, <2>5, <2>6, <2>7, <2>8 DEF Next, Callback, vars
  <1> QED
    BY <1>1, <1>2, Inductive, PTL DEF Spec, Implements, Abstract!Spec
=============================================================================
