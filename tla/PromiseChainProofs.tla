------------------------- MODULE PromiseChainProofs -------------------------
(***************************************************************************)
(* The theorems about PromiseChain, for chains of every length.            *)
(*                                                                         *)
(* The inductive invariant says of each stage alone where it is and where  *)
(* the outcomes on its way come from (Local), and of the stages together   *)
(* that an exception that leaves one has left all those below it           *)
(* (Unwinding).  A step of a stage changes that stage and may start the    *)
(* next one; lemma LocalFrame is about all the others.                     *)
(***************************************************************************)
EXTENDS PromiseChain, SequenceTheorems, TLAPS

Early == {"none", "branch", "finally"}
Over == {"below", "below_inner", "done", "thrown"}

\* where stage k is
Phase(k) ==
    /\ at[Link(k - 1)] \in {"none", "branch"} =>
           /\ calls[k] = <<>> /\ raised[k] = None
           /\ k \notin lent /\ ~Settled(Inner(k))
    /\ at[Link(k - 1)] = "finally" => calls[k] = <<BranchOf(k)>>
    /\ at[Link(k - 1)] \in Early => ~Settled(Link(k)) /\ ~bound[Inner(k)] /\ k \notin broken
    /\ at[Link(k - 1)] \notin Early => calls[k] = <<BranchOf(k), "finalizer">>
    /\ bound[Inner(k)] => raised[k] = None /\ k \notin broken
    /\ bound[Inner(k)] /\ at[Inner(k)] \in {"none", "forward"} => ~Settled(Link(k))

\* what the next promise was settled with
Passed(k) ==
    Settled(Link(k)) =>
        \/ k \in broken /\ outcome[Link(k)] = Error("finalizer", k)
        \/ k \notin broken /\ raised[k] # None /\ outcome[Link(k)] = raised[k]
        \/ k \notin broken /\ raised[k] = None /\ Settled(Inner(k)) /\ outcome[Link(k)] = outcome[Inner(k)]

Own(k) == {Value("callback", k), Error("callback", k), Value("inner", k), Error("inner", k)}

\* next or handler of stage k has thrown e, or has returned a promise with
\* outcome o, each possibly None
UserGave(k, e, o) ==
    /\ e \in {None, Error("callback", k)}
    /\ o # None => o \in Own(k)

\* the same of what stands for a next or handler that is not given
DefaultGave(k, e, o) ==
    \/ EndsChain(k) /\ e = None /\ o = Value("callback", k)
    \/ ~EndsChain(k) /\ IsError(Link(k - 1)) /\ e = outcome[Link(k - 1)]
    \/ ~IsError(Link(k - 1)) /\ e = None /\ o = outcome[Link(k - 1)]
    \/ ~IsError(Link(k - 1)) /\ form[k] \in Except /\ e = Error("callback", k)

Gave(k, e, o) == IF BranchOf(k) \in form[k] THEN UserGave(k, e, o) ELSE DefaultGave(k, e, o)

Origin(k) == at[Link(k - 1)] \notin {"none", "branch"} => Gave(k, raised[k], outcome[Inner(k)])

Local(k) == Phase(k) /\ Passed(k) /\ Origin(k)

\* which callbacks have been left, and how
Unwinding ==
    /\ \A k \in 0 .. N : at[Link(k)] = "thrown" => \A j \in k .. N : at[Link(j)] = "thrown"
    /\ \A k \in Stages : at[Inner(k)] = "thrown" => at[Link(k)] = "thrown"
    /\ \A c \in completed : at[c] = "done"
    /\ at[Link(N)] = "thrown" => IsError(Link(N))

\* the chain is built in order
Built == \A j \in 0 .. N : bound[Link(j)] => j < built

IInv == TypeOK /\ (\A k \in Stages : Local(k)) /\ Unwinding /\ Built

-----------------------------------------------------------------------------
LEMMA Cellular ==
    /\ \A k \in 0 .. N : Link(k) \in Cells
    /\ \A k \in Stages : Inner(k) \in Cells /\ Link(k) \in Cells /\ Link(k - 1) \in Cells
    /\ \A j, k \in 0 .. N : Link(j) = Link(k) => j = k
    /\ \A j, k \in Stages : Inner(j) = Inner(k) => j = k
    /\ \A j \in 0 .. N, k \in Stages : Link(j) # Inner(k)
BY LengthAssumption DEF Cells, Links, Inners, Link, Inner, Stages

LEMMA Outcome ==
    /\ \A by \in {"source", "callback", "inner", "finalizer"}, k \in 0 .. N :
           /\ Value(by, k) \in Outcomes /\ Error(by, k) \in Outcomes
           /\ Value(by, k) # None /\ Error(by, k) # None
    /\ \A by \in {"source", "callback", "inner", "finalizer"}, k \in 0 .. N :
           Value(by, k)[1] = "value" /\ Error(by, k)[1] = "error" /\ Error(by, k)[2][2] = k
<1>1. ASSUME NEW by \in {"source", "callback", "inner", "finalizer"}, NEW k \in 0 .. N
      PROVE  Value(by, k) \in Outcomes /\ Error(by, k) \in Outcomes
  <2>1. <<by, k>> \in Sources BY DEF Sources
  <2> QED BY <2>1 DEF Outcomes, Value, Error
<1> QED BY <1>1, NoneAssumption DEF Value, Error

\* A stage is not disturbed by a step that leaves its own part alone and
\* settles or starts the promise before it, or ends a callback, at most.
Untouched(k) ==
    /\ at'[Inner(k)] = at[Inner(k)] \/ at'[Inner(k)] \notin {"none", "forward"}
    /\ bound'[Inner(k)] = bound[Inner(k)]
    /\ outcome'[Inner(k)] = outcome[Inner(k)] /\ outcome'[Link(k)] = outcome[Link(k)]
    /\ calls'[k] = calls[k] /\ raised'[k] = raised[k]
    /\ (k \in lent' <=> k \in lent)
    /\ (k \in broken' <=> k \in broken)

Advances(k) ==
    \/ at'[Link(k - 1)] = at[Link(k - 1)]
    \/ at[Link(k - 1)] = "none" /\ at'[Link(k - 1)] = "branch"
    \/ at[Link(k - 1)] \in Over /\ at'[Link(k - 1)] \in Over

LEMMA LocalFrame ==
    ASSUME NEW k \in Stages, Local(k), Untouched(k), Advances(k),
           UNCHANGED <<form, ends_void>>,
           at[Link(k - 1)] # "none" => Settled(Link(k - 1)),
           Settled(Link(k - 1)) => outcome'[Link(k - 1)] = outcome[Link(k - 1)]
    PROVE  Local(k)'
<1>1. at[Link(k - 1)] \notin {"none"} =>
          /\ (IsError(Link(k - 1)))' = IsError(Link(k - 1))
          /\ outcome'[Link(k - 1)] = outcome[Link(k - 1)]
          /\ BranchOf(k)' = BranchOf(k)
  BY DEF IsError, Settled, BranchOf
<1>2. /\ Settled(Inner(k))' = Settled(Inner(k))
      /\ Settled(Link(k))' = Settled(Link(k))
  BY DEF Untouched, Settled
<1>3. Phase(k)'
  BY <1>1, <1>2 DEF Local, Phase, Untouched, Advances, Early, Over
<1>4. Passed(k)'
  BY <1>2 DEF Local, Passed, Untouched
<1>5. Origin(k)'
  BY <1>1, <1>2 DEF Local, Origin, Gave, UserGave, DefaultGave, EndsChain, Untouched, Advances, Over
<1> QED BY <1>3, <1>4, <1>5 DEF Local

\* No callback that has ended changes any more, and nothing is thrown.
LEMMA UnwindingFrame ==
    ASSUME TypeOK, Unwinding,
           \A c \in Cells : at[c] \in {"done", "thrown"} => at'[c] = at[c],
           \A c \in Cells : at'[c] = "thrown" => at[c] = "thrown",
           \A c \in completed' : c \in completed \/ at'[c] = "done",
           \A c \in Cells : Settled(c) => outcome'[c] = outcome[c]
    PROVE  Unwinding'
<1>1. N \in 0 .. N /\ \A k \in Stages : k \in 0 .. N BY LengthAssumption DEF Stages
<1>2. at[Link(N)] = "thrown" => IsError(Link(N))'
  BY <1>1, Cellular DEF Unwinding, IsError, Settled
<1>3. completed \subseteq Cells BY DEF TypeOK
<1>4. \A c \in completed' : at'[c] = "done"
  BY <1>3 DEF Unwinding
<1>5. \A k \in 0 .. N : at'[Link(k)] = "thrown" => \A j \in k .. N : at'[Link(j)] = "thrown"
  <2> SUFFICES ASSUME NEW k \in 0 .. N, at'[Link(k)] = "thrown", NEW j \in k .. N
               PROVE  at'[Link(j)] = "thrown"
    OBVIOUS
  <2>1. j \in 0 .. N OBVIOUS
  <2> QED BY <2>1, Cellular DEF Unwinding
<1>6. \A k \in Stages : at'[Inner(k)] = "thrown" => at'[Link(k)] = "thrown"
  BY <1>1, Cellular DEF Unwinding
<1> QED BY <1>1, <1>2, <1>4, <1>5, <1>6, Cellular DEF Unwinding

LEMMA Firsts ==
    /\ \A k \in Stages : First(Inner(k)) = "forward" /\ First(Link(k - 1)) = "branch"
    /\ First(Link(N)) = "terminate"
BY Cellular, LengthAssumption DEF First, Inners, Stages

LEMMA Initially == Init => IInv
<1> SUFFICES ASSUME Init PROVE IInv OBVIOUS
<1>1. TypeOK
  <2>1. /\ form \in [Stages -> Forms] /\ (ends_void => form[N] \notin Finally)
        /\ lent \subseteq Stages /\ broken \subseteq Stages /\ built \in 0 .. N + 1
    BY LengthAssumption, UsedAssumption DEF Init
  <2>2. ends_void \in BOOLEAN /\ in_binder \in BOOLEAN /\ completed \subseteq Cells
    BY DEF Init
  <2>3. /\ outcome \in [Cells -> Outcomes \cup {None}] /\ bound \in [Cells -> BOOLEAN]
        /\ at \in [Cells -> Places] /\ raised \in [Stages -> Outcomes \cup {None}]
    BY DEF Init, Places
  <2>4. calls \in [Stages -> Seq(Functions)]
    <3>1. <<>> \in Seq(Functions) OBVIOUS
    <3> QED BY <3>1 DEF Init
  <2>5. \A c \in Cells : at[c] # "none" => Settled(c) /\ bound[c]
    BY DEF Init
  <2> QED BY <2>1, <2>2, <2>3, <2>4, <2>5 DEF TypeOK
<1>2. \A c \in Cells : ~Settled(c) /\ ~bound[c] /\ at[c] = "none"
  BY DEF Init, Settled
<1>3. \A k \in Stages : Local(k)
  BY <1>2, Cellular DEF Init, Local, Phase, Passed, Origin, Early
<1>4. Unwinding
  BY <1>2, Cellular, LengthAssumption DEF Init, Unwinding
<1>5. Built
  BY <1>2, Cellular DEF Built
<1> QED BY <1>1, <1>3, <1>4, <1>5 DEF IInv

-----------------------------------------------------------------------------
(* Other threads, and the builder.                                          *)

LEMMA SettleSourcePreserves == IInv /\ SettleSource => IInv'
<1> SUFFICES ASSUME IInv, SettleSource PROVE IInv' OBVIOUS
<1>0. 0 \in 0 .. N /\ 1 \in Stages BY LengthAssumption DEF Stages
<1>1. Link(0) \in Cells /\ ~Settled(Link(0)) /\ at[Link(0)] = "none"
  BY <1>0, Cellular DEF SettleSource, IInv, TypeOK
<1>2. First(Link(0)) = "branch"
  BY <1>0, Firsts
<1>3. PICK o \in Outcomes : o # None /\ outcome' = [outcome EXCEPT ![Link(0)] = o]
  <2>1. \E o \in {Value("source", 0), Error("source", 0)} : outcome' = [outcome EXCEPT ![Link(0)] = o]
    BY DEF SettleSource
  <2>2. \A o \in {Value("source", 0), Error("source", 0)} : o \in Outcomes /\ o # None
    BY <1>0, Outcome
  <2> QED BY <2>1, <2>2
<1>4. at' = IF bound[Link(0)] THEN [at EXCEPT ![Link(0)] = "branch"] ELSE at
  BY <1>2 DEF SettleSource
<1>5. UNCHANGED <<form, ends_void, built, in_binder, calls, broken, bound, completed, raised, lent>>
  BY DEF SettleSource
<1>6. \A c \in Cells : c # Link(0) => outcome'[c] = outcome[c] /\ at'[c] = at[c]
  BY <1>3, <1>4 DEF IInv, TypeOK
<1>7. at'[Link(0)] = IF bound[Link(0)] THEN "branch" ELSE "none"
  BY <1>1, <1>4 DEF IInv, TypeOK
<1>8. outcome'[Link(0)] = o
  BY <1>1, <1>3 DEF IInv, TypeOK
<1>9. TypeOK'
  <2>1. at' \in [Cells -> Places]
    BY <1>4 DEF IInv, TypeOK, Places
  <2>2. outcome' \in [Cells -> Outcomes \cup {None}]
    BY <1>3 DEF IInv, TypeOK
  <2>3. \A c \in Cells : at'[c] # "none" => Settled(c)' /\ bound'[c]
    BY <1>3, <1>5, <1>6, <1>7, <1>8 DEF IInv, TypeOK, Settled
  <2> QED BY <1>5, <2>1, <2>2, <2>3 DEF IInv, TypeOK
<1>10. \A k \in Stages : Local(k)'
  <2> SUFFICES ASSUME NEW k \in Stages PROVE Local(k)' OBVIOUS
  <2>1. Link(k) # Link(0) /\ Inner(k) # Link(0) /\ Link(k - 1) \in Cells /\ Link(k) \in Cells /\ Inner(k) \in Cells
    BY <1>0, Cellular DEF Stages
  <2>2. Untouched(k)
    BY <1>5, <1>6, <2>1 DEF Untouched
  <2>3. Advances(k)
    BY <1>1, <1>6, <1>7, <2>1 DEF Advances
  <2>4. Settled(Link(k - 1)) => outcome'[Link(k - 1)] = outcome[Link(k - 1)]
    BY <1>1, <1>6, <2>1
  <2>5. Local(k) /\ (at[Link(k - 1)] # "none" => Settled(Link(k - 1)))
    BY <2>1 DEF IInv, TypeOK
  <2> QED BY <1>5, <2>2, <2>3, <2>4, <2>5, LocalFrame
<1>11. Unwinding'
  <2>1. \A c \in Cells : at[c] \in {"done", "thrown"} => at'[c] = at[c]
    BY <1>1, <1>6
  <2>2. \A c \in Cells : at'[c] = "thrown" => at[c] = "thrown"
    BY <1>6, <1>7
  <2>3. \A c \in Cells : Settled(c) => outcome'[c] = outcome[c]
    BY <1>1, <1>6
  <2> QED BY <1>5, <2>1, <2>2, <2>3, UnwindingFrame DEF IInv
<1>12. Built'
  BY <1>5 DEF IInv, Built
<1> QED BY <1>9, <1>10, <1>11, <1>12 DEF IInv

LEMMA SettleInnerPreserves ==
    ASSUME NEW k \in Stages PROVE IInv /\ SettleInner(k) => IInv'
<1> SUFFICES ASSUME IInv, SettleInner(k) PROVE IInv' OBVIOUS
<1>0. k \in 0 .. N /\ k - 1 \in 0 .. N BY LengthAssumption DEF Stages
<1>1. Inner(k) \in Cells /\ ~Settled(Inner(k)) /\ at[Inner(k)] = "none" /\ k \in lent
  BY Cellular DEF SettleInner, IInv, TypeOK
<1>2. PICK o \in {Value("inner", k), Error("inner", k)} : outcome' = [outcome EXCEPT ![Inner(k)] = o]
  BY DEF SettleInner
<1>3. o \in Outcomes /\ o # None /\ o \in Own(k)
  BY <1>0, <1>2, Outcome DEF Own
<1>4. at' = IF bound[Inner(k)] THEN [at EXCEPT ![Inner(k)] = "forward"] ELSE at
  BY DEF SettleInner
<1>5. UNCHANGED <<form, ends_void, built, in_binder, calls, broken, bound, completed, raised, lent>>
  BY DEF SettleInner
<1>6. \A c \in Cells : c # Inner(k) => outcome'[c] = outcome[c] /\ at'[c] = at[c]
  BY <1>2, <1>4 DEF IInv, TypeOK
<1>7. at'[Inner(k)] = IF bound[Inner(k)] THEN "forward" ELSE "none"
  BY <1>1, <1>4 DEF IInv, TypeOK
<1>8. outcome'[Inner(k)] = o
  BY <1>1, <1>2 DEF IInv, TypeOK
<1>9. TypeOK'
  <2>1. at' \in [Cells -> Places]
    BY <1>4 DEF IInv, TypeOK, Places
  <2>2. outcome' \in [Cells -> Outcomes \cup {None}]
    BY <1>2, <1>3 DEF IInv, TypeOK
  <2>3. \A c \in Cells : at'[c] # "none" => Settled(c)' /\ bound'[c]
    BY <1>3, <1>5, <1>6, <1>7, <1>8 DEF IInv, TypeOK, Settled
  <2> QED BY <1>5, <2>1, <2>2, <2>3 DEF IInv, TypeOK
<1>10. ASSUME NEW j \in Stages, j # k PROVE Local(j)'
  <2>1. Link(j) # Inner(k) /\ Inner(j) # Inner(k) /\ Link(j - 1) # Inner(k)
    BY <1>0, <1>10, Cellular, LengthAssumption DEF Stages
  <2>2. Link(j - 1) \in Cells /\ Link(j) \in Cells /\ Inner(j) \in Cells
    BY Cellular
  <2>3. Untouched(j)
    BY <1>5, <1>6, <2>1, <2>2 DEF Untouched
  <2>4. Advances(j) /\ outcome'[Link(j - 1)] = outcome[Link(j - 1)]
    BY <1>6, <2>1, <2>2 DEF Advances
  <2>5. Local(j) /\ (at[Link(j - 1)] # "none" => Settled(Link(j - 1)))
    BY <2>2 DEF IInv, TypeOK
  <2> QED BY <1>5, <2>3, <2>4, <2>5, LocalFrame
<1>11. Local(k)'
  <2>1. Link(k) # Inner(k) /\ Link(k - 1) # Inner(k) /\ Link(k - 1) \in Cells /\ Link(k) \in Cells
    BY <1>0, Cellular
  <2>2. /\ outcome'[Link(k)] = outcome[Link(k)] /\ outcome'[Link(k - 1)] = outcome[Link(k - 1)]
        /\ at'[Link(k)] = at[Link(k)] /\ at'[Link(k - 1)] = at[Link(k - 1)]
    BY <1>6, <2>1
  <2>3. /\ (IsError(Link(k - 1)))' = IsError(Link(k - 1)) /\ BranchOf(k)' = BranchOf(k)
        /\ Settled(Link(k))' = Settled(Link(k))
    BY <2>2 DEF IsError, Settled, BranchOf
  <2>4. Local(k) /\ at[Link(k - 1)] \notin {"none", "branch"}
    BY <1>1 DEF IInv, Local, Phase
  <2>5. Phase(k)'
    BY <1>1, <1>5, <1>7, <2>2, <2>3, <2>4 DEF Local, Phase, Early
  <2>6. Passed(k)'
    BY <1>1, <1>5, <2>2, <2>3, <2>4 DEF Local, Passed
  <2>7. Origin(k)'
    <3>1. Gave(k, raised[k], outcome[Inner(k)]) /\ outcome[Inner(k)] = None /\ Settled(Link(k - 1))
      BY <1>1, <2>1, <2>4 DEF IInv, TypeOK, Local, Origin, Settled
    <3>2. CASE BranchOf(k) \in form[k]
      BY <1>3, <1>5, <1>8, <2>2, <2>3, <3>1, <3>2 DEF Origin, Gave, UserGave, Own
    <3>3. CASE BranchOf(k) \notin form[k]
      <4>1. Value("callback", k) # None /\ outcome[Link(k - 1)] # None
        BY <1>0, <3>1, Outcome DEF Settled
      <4>2. \/ ~EndsChain(k) /\ IsError(Link(k - 1)) /\ raised[k] = outcome[Link(k - 1)]
            \/ ~IsError(Link(k - 1)) /\ form[k] \in Except /\ raised[k] = Error("callback", k)
        BY <3>1, <3>3, <4>1 DEF Gave, DefaultGave
      <4> QED BY <1>5, <2>2, <2>3, <3>3, <4>2 DEF Origin, Gave, DefaultGave, EndsChain
    <3> QED BY <3>2, <3>3
  <2> QED BY <2>5, <2>6, <2>7 DEF Local
<1>12. Unwinding'
  <2>1. \A c \in Cells : at[c] \in {"done", "thrown"} => at'[c] = at[c]
    BY <1>1, <1>6
  <2>2. \A c \in Cells : at'[c] = "thrown" => at[c] = "thrown"
    BY <1>6, <1>7
  <2>3. \A c \in Cells : Settled(c) => outcome'[c] = outcome[c]
    BY <1>1, <1>6
  <2> QED BY <1>5, <2>1, <2>2, <2>3, UnwindingFrame DEF IInv
<1>13. Built'
  BY <1>5 DEF IInv, Built
<1> QED BY <1>9, <1>10, <1>11, <1>12, <1>13 DEF IInv

LEMMA BindPreserves == IInv /\ Bind => IInv'
<1> SUFFICES ASSUME IInv, Bind PROVE IInv' OBVIOUS
<1>0. built \in 0 .. N /\ built' = built + 1
  BY LengthAssumption DEF Bind, IInv, TypeOK
<1> DEFINE c == Link(built)
<1>1. c \in Cells /\ ~bound[c] /\ at[c] = "none"
  BY <1>0, Cellular DEF IInv, Built, TypeOK
<1>2. UNCHANGED <<form, ends_void, calls, broken, outcome, completed, raised, lent>>
  BY DEF Bind
<1>3. bound' = [bound EXCEPT ![c] = TRUE]
  BY DEF Bind
<1>4. at' = IF Settled(c) THEN [at EXCEPT ![c] = First(c)] ELSE at
  BY DEF Bind
<1>5. \A d \in Cells : d # c => bound'[d] = bound[d] /\ at'[d] = at[d]
  BY <1>3, <1>4 DEF IInv, TypeOK
<1>6. bound'[c] /\ at'[c] = IF Settled(c) THEN First(c) ELSE "none"
  BY <1>1, <1>3, <1>4 DEF IInv, TypeOK
<1>7. First(c) \in {"branch", "terminate", "forward"}
  BY DEF First
<1>8. TypeOK'
  <2>1. at' \in [Cells -> Places]
    BY <1>4, <1>7 DEF IInv, TypeOK, Places
  <2>2. bound' \in [Cells -> BOOLEAN]
    BY <1>3 DEF IInv, TypeOK
  <2>3. \A d \in Cells : at'[d] # "none" => Settled(d)' /\ bound'[d]
    BY <1>2, <1>5, <1>6 DEF IInv, TypeOK, Settled
  <2>4. built' \in 0 .. N + 1 /\ in_binder' \in BOOLEAN
    BY <1>0, LengthAssumption DEF Bind, Settled
  <2> QED BY <1>2, <2>1, <2>2, <2>3, <2>4 DEF IInv, TypeOK
<1>9. \A j \in Stages : Local(j)'
  <2> SUFFICES ASSUME NEW j \in Stages PROVE Local(j)' OBVIOUS
  <2>1. Link(j - 1) \in Cells /\ Link(j) \in Cells /\ Inner(j) \in Cells /\ Inner(j) # c
    BY <1>0, Cellular
  <2>2. Untouched(j)
    BY <1>2, <1>5, <2>1 DEF Untouched
  <2>3. Advances(j)
    <3>1. CASE Link(j - 1) = c
      <4>1. First(c) = "branch" BY <3>1, Firsts
      <4> QED BY <1>1, <1>6, <3>1, <4>1 DEF Advances
    <3>2. CASE Link(j - 1) # c
      BY <1>5, <2>1, <3>2 DEF Advances
    <3> QED BY <3>1, <3>2
  <2>4. Local(j) /\ (at[Link(j - 1)] # "none" => Settled(Link(j - 1)))
    BY <2>1 DEF IInv, TypeOK
  <2> QED BY <1>2, <2>2, <2>3, <2>4, LocalFrame
<1>10. Unwinding'
  <2>1. \A d \in Cells : at[d] \in {"done", "thrown"} => at'[d] = at[d]
    BY <1>1, <1>5
  <2>2. \A d \in Cells : at'[d] = "thrown" => at[d] = "thrown"
    BY <1>5, <1>6, <1>7
  <2> QED BY <1>2, <2>1, <2>2, UnwindingFrame DEF IInv
<1>11. Built'
  <2> SUFFICES ASSUME NEW j \in 0 .. N, bound'[Link(j)] PROVE j < built' BY DEF Built
  <2>1. CASE j = built BY <1>0, <2>1
  <2>2. CASE j # built
    <3>1. Link(j) # c /\ Link(j) \in Cells BY <1>0, <2>2, Cellular
    <3> QED BY <1>0, <1>5, <3>1 DEF IInv, Built
  <2> QED BY <2>1, <2>2
<1> QED BY <1>8, <1>9, <1>10, <1>11 DEF IInv

-----------------------------------------------------------------------------
(* The branches: next or handler of stage k has thrown e, or has returned a *)
(* promise with outcome o, each possibly None.                              *)

Yields(k, e, o) ==
    /\ raised' = [raised EXCEPT ![k] = e]
    /\ outcome' = [outcome EXCEPT ![Inner(k)] = o]
    /\ lent \subseteq lent' /\ lent' \subseteq lent \cup {k}

LEMMA UserYields ==
    ASSUME NEW k \in Stages, IInv, at[Link(k - 1)] = "branch", NEW x
    PROVE  /\ Throws(k, x) => Yields(k, x, None)
           /\ Returns(k, x) => Yields(k, None, x)
           /\ ReturnsPending(k) => Yields(k, None, None)
<1>1. Inner(k) \in Cells /\ raised[k] = None /\ outcome[Inner(k)] = None
  BY Cellular DEF IInv, Local, Phase, Settled
<1>2. outcome = [outcome EXCEPT ![Inner(k)] = None] /\ raised = [raised EXCEPT ![k] = None]
  BY <1>1 DEF IInv, TypeOK
<1> QED BY <1>2 DEF Throws, Returns, ReturnsPending, Yields

LEMMA BranchYields ==
    ASSUME NEW k \in Stages, IInv, ResolveBranch(k) \/ RejectBranch(k)
    PROVE  \E e, o \in Outcomes \cup {None} : Yields(k, e, o) /\ Gave(k, e, o)
<1> DEFINE Claim == \E e, o \in Outcomes \cup {None} : Yields(k, e, o) /\ Gave(k, e, o)
<1>0. k \in 0 .. N /\ Link(k - 1) \in Cells BY LengthAssumption, Cellular DEF Stages
<1>1. at[Link(k - 1)] = "branch" BY DEF ResolveBranch, RejectBranch
<1>2. outcome[Link(k - 1)] \in Outcomes /\ outcome[Link(k - 1)] # None
  BY <1>0, <1>1 DEF IInv, TypeOK, Settled
<1>3. Value("callback", k) \in Outcomes /\ Error("callback", k) \in Outcomes
  BY <1>0, Outcome
<1>4. ASSUME RunsUserCode(k), BranchOf(k) \in form[k]
      PROVE  Claim
  <2>1. CASE Throws(k, Error("callback", k))
    <3>1. Yields(k, Error("callback", k), None) BY <1>1, <2>1, UserYields
    <3>2. Gave(k, Error("callback", k), None) BY <1>4 DEF Gave, UserGave
    <3> QED BY <1>3, <3>1, <3>2
  <2>2. ASSUME NEW o \in {Value("callback", k), Error("callback", k)}, Returns(k, o)
        PROVE  Claim
    <3>1. Yields(k, None, o) BY <1>1, <2>2, UserYields
    <3>2. Gave(k, None, o) BY <1>4 DEF Gave, UserGave, Own
    <3> QED BY <1>3, <3>1, <3>2
  <2>3. CASE ReturnsPending(k)
    <3>1. Yields(k, None, None) BY <1>1, <2>3, UserYields
    <3>2. Gave(k, None, None) BY <1>4 DEF Gave, UserGave
    <3> QED BY <3>1, <3>2
  <2> QED BY <1>4, <2>1, <2>2, <2>3 DEF RunsUserCode
<1>5. ASSUME EndsChain(k), BranchOf(k) \notin form[k], Returns(k, Value("callback", k))
      PROVE  Claim
  <2>1. Yields(k, None, Value("callback", k)) BY <1>1, <1>5, UserYields
  <2>2. Gave(k, None, Value("callback", k)) BY <1>5 DEF Gave, DefaultGave
  <2> QED BY <1>3, <2>1, <2>2
<1>6. CASE ResolveBranch(k)
  <2>0. ~IsError(Link(k - 1)) /\ BranchOf(k) = "next" BY <1>6 DEF ResolveBranch, BranchOf
  <2>1. CASE "next" \in form[k]
    BY <1>4, <1>6, <2>0, <2>1 DEF ResolveBranch
  <2>2. CASE "next" \notin form[k] /\ EndsChain(k)
    BY <1>5, <1>6, <2>0, <2>2 DEF ResolveBranch, DefaultNext
  <2>3. CASE "next" \notin form[k] /\ ~EndsChain(k)
    <3>1. \/ Returns(k, outcome[Link(k - 1)])
          \/ form[k] \in Except /\ Throws(k, Error("callback", k))
      BY <1>6, <2>3 DEF ResolveBranch, DefaultNext
    <3>2. CASE Returns(k, outcome[Link(k - 1)])
      <4>1. Yields(k, None, outcome[Link(k - 1)]) BY <1>1, <3>2, UserYields
      <4>2. Gave(k, None, outcome[Link(k - 1)]) BY <2>0, <2>3 DEF Gave, DefaultGave
      <4> QED BY <1>2, <4>1, <4>2
    <3>3. CASE form[k] \in Except /\ Throws(k, Error("callback", k))
      <4>1. Yields(k, Error("callback", k), None) BY <1>1, <3>3, UserYields
      <4>2. Gave(k, Error("callback", k), None) BY <2>0, <2>3, <3>3 DEF Gave, DefaultGave
      <4> QED BY <1>3, <4>1, <4>2
    <3> QED BY <3>1, <3>2, <3>3
  <2> QED BY <2>1, <2>2, <2>3
<1>7. CASE RejectBranch(k)
  <2>0. IsError(Link(k - 1)) /\ BranchOf(k) = "handler" BY <1>7 DEF RejectBranch, BranchOf
  <2>1. CASE "handler" \in form[k]
    BY <1>4, <1>7, <2>0, <2>1 DEF RejectBranch
  <2>2. CASE "handler" \notin form[k] /\ EndsChain(k)
    BY <1>5, <1>7, <2>0, <2>2 DEF RejectBranch, DefaultExcept
  <2>3. CASE "handler" \notin form[k] /\ ~EndsChain(k)
    <3>1. Throws(k, outcome[Link(k - 1)]) BY <1>7, <2>3 DEF RejectBranch, DefaultExcept
    <3>2. Yields(k, outcome[Link(k - 1)], None) BY <1>1, <3>1, UserYields
    <3>3. Gave(k, outcome[Link(k - 1)], None) BY <2>0, <2>3 DEF Gave, DefaultGave
    <3> QED BY <1>2, <3>2, <3>3
  <2> QED BY <2>1, <2>2, <2>3
<1> QED BY <1>6, <1>7

LEMMA BranchPreserves ==
    ASSUME NEW k \in Stages PROVE IInv /\ (ResolveBranch(k) \/ RejectBranch(k)) => IInv'
<1> SUFFICES ASSUME IInv, ResolveBranch(k) \/ RejectBranch(k) PROVE IInv' OBVIOUS
<1> DEFINE c == Link(k - 1)
<1>0. /\ k \in 0 .. N /\ k - 1 \in 0 .. N
      /\ c \in Cells /\ Inner(k) \in Cells /\ Link(k) \in Cells
      /\ c # Inner(k) /\ Link(k) # Inner(k) /\ c # Link(k)
  BY LengthAssumption, Cellular DEF Stages
<1>1. at[c] = "branch" /\ Called(k, BranchOf(k))
  BY DEF ResolveBranch, RejectBranch, BranchOf
<1>2. PICK e, o \in Outcomes \cup {None} : Yields(k, e, o) /\ Gave(k, e, o)
  BY BranchYields
<1>3. UNCHANGED <<form, ends_void, built, in_binder, broken, bound, completed>>
  BY <1>1 DEF Called
<1>4. at' = [at EXCEPT ![c] = "finally"]
  BY <1>1 DEF Called
<1>5. (\A d \in Cells : d # c => at'[d] = at[d]) /\ at'[c] = "finally"
  BY <1>0, <1>4 DEF IInv, TypeOK
<1>6. /\ \A d \in Cells : d # Inner(k) => outcome'[d] = outcome[d]
      /\ outcome'[Inner(k)] = o
  BY <1>0, <1>2 DEF IInv, TypeOK, Yields
<1>7. (\A j \in Stages : j # k => raised'[j] = raised[j]) /\ raised'[k] = e
  BY <1>2 DEF IInv, TypeOK, Yields
<1>8. \A j \in Stages : j # k => (j \in lent' <=> j \in lent)
  BY <1>2 DEF Yields
<1>9. /\ Phase(k) /\ Local(k)
      /\ calls[k] = <<>> /\ ~Settled(Inner(k)) /\ ~Settled(Link(k)) /\ ~bound[Inner(k)] /\ k \notin broken
  BY <1>1 DEF IInv, Local, Phase, Early
<1>10. (\A j \in Stages : j # k => calls'[j] = calls[j]) /\ calls'[k] = <<BranchOf(k)>>
  <2>1. Append(calls[k], BranchOf(k)) = <<BranchOf(k)>>
    BY <1>9
  <2>2. calls' = [calls EXCEPT ![k] = <<BranchOf(k)>>]
    BY <1>1, <2>1 DEF Called
  <2> QED BY <2>2 DEF IInv, TypeOK
<1>11. TypeOK'
  <2>1. at' \in [Cells -> Places]
    BY <1>4 DEF IInv, TypeOK, Places
  <2>2. outcome' \in [Cells -> Outcomes \cup {None}] /\ raised' \in [Stages -> Outcomes \cup {None}]
    BY <1>2 DEF IInv, TypeOK, Yields
  <2>3. calls' \in [Stages -> Seq(Functions)]
    <3>1. <<BranchOf(k)>> \in Seq(Functions)
      BY DEF BranchOf, Functions
    <3>2. calls' = [calls EXCEPT ![k] = <<BranchOf(k)>>]
      BY <1>1, <1>9 DEF Called
    <3> QED BY <3>1, <3>2 DEF IInv, TypeOK
  <2>4. \A d \in Cells : at'[d] # "none" => Settled(d)' /\ bound'[d]
    <3> SUFFICES ASSUME NEW d \in Cells, at'[d] # "none" PROVE Settled(d)' /\ bound'[d] OBVIOUS
    <3>1. at[d] # "none" BY <1>1, <1>5
    <3>2. Settled(d) /\ bound[d] BY <3>1 DEF IInv, TypeOK
    <3> QED BY <1>3, <1>6, <1>9, <3>2 DEF Settled
  <2>5. lent' \subseteq Stages
    BY <1>2 DEF IInv, TypeOK, Yields
  <2> QED BY <1>3, <2>1, <2>2, <2>3, <2>4, <2>5 DEF IInv, TypeOK
<1>12. ASSUME NEW j \in Stages, j # k PROVE Local(j)'
  <2>1. /\ Link(j - 1) \in Cells /\ Link(j) \in Cells /\ Inner(j) \in Cells
        /\ Link(j - 1) # c /\ Inner(j) # c /\ Inner(j) # Inner(k)
        /\ Link(j) # Inner(k) /\ Link(j - 1) # Inner(k)
    BY <1>0, <1>12, Cellular, LengthAssumption DEF Stages
  <2>2. Untouched(j)
    BY <1>3, <1>5, <1>6, <1>7, <1>8, <1>10, <1>12, <2>1 DEF Untouched
  <2>3. Advances(j) /\ outcome'[Link(j - 1)] = outcome[Link(j - 1)]
    BY <1>5, <1>6, <2>1 DEF Advances
  <2>4. Local(j) /\ (at[Link(j - 1)] # "none" => Settled(Link(j - 1)))
    BY <2>1 DEF IInv, TypeOK
  <2> QED BY <1>3, <2>2, <2>3, <2>4, LocalFrame
<1>13. Local(k)'
  <2>1. /\ outcome'[Link(k)] = outcome[Link(k)] /\ outcome'[c] = outcome[c]
    BY <1>0, <1>6
  <2>2. /\ (IsError(c))' = IsError(c) /\ BranchOf(k)' = BranchOf(k)
        /\ Settled(Link(k))' = Settled(Link(k))
    BY <2>1 DEF IsError, Settled, BranchOf
  <2>3. Phase(k)'
    BY <1>3, <1>5, <1>9, <1>10, <2>2 DEF Phase, Early
  <2>4. Passed(k)'
    BY <1>9, <2>2 DEF Passed
  <2>5. Origin(k)'
    <3>1. (Gave(k, raised[k], outcome[Inner(k)]))' = Gave(k, e, o)
      BY <1>3, <1>6, <1>7, <2>1, <2>2 DEF Gave, UserGave, DefaultGave, EndsChain, Own
    <3> QED BY <1>2, <3>1 DEF Origin
  <2> QED BY <2>3, <2>4, <2>5 DEF Local
<1>14. Unwinding'
  <2>1. \A d \in Cells : at[d] \in {"done", "thrown"} => at'[d] = at[d]
    BY <1>1, <1>5
  <2>2. \A d \in Cells : at'[d] = "thrown" => at[d] = "thrown"
    BY <1>5
  <2>3. \A d \in Cells : Settled(d) => outcome'[d] = outcome[d]
    BY <1>6, <1>9
  <2> QED BY <1>3, <2>1, <2>2, <2>3, UnwindingFrame DEF IInv
<1>15. Built'
  BY <1>3 DEF IInv, Built
<1> QED BY <1>11, <1>12, <1>13, <1>14, <1>15 DEF IInv

-----------------------------------------------------------------------------
(* The end of stage k, and the settlement of the next promise.              *)

\* What a callback that settles the next promise does to all cells.
LEMMA SettleFromEffect ==
    ASSUME NEW k \in Stages, NEW c \in Cells, c # Link(k), NEW o \in Outcomes, IInv,
           ~Settled(Link(k)), SettleFrom(c, Link(k), o)
    PROVE  /\ at[Link(k)] = "none"
           /\ outcome' \in [Cells -> Outcomes \cup {None}] /\ at' \in [Cells -> Places]
           /\ \A d \in Cells : d # Link(k) => outcome'[d] = outcome[d]
           /\ outcome'[Link(k)] = o /\ o # None
           /\ \A d \in Cells : d # Link(k) /\ d # c => at'[d] = at[d]
           /\ at'[c] \in {"below", "done"}
           /\ at'[Link(k)] = (IF bound[Link(k)] THEN First(Link(k)) ELSE "none")
           /\ First(Link(k)) \in {"branch", "terminate"}
           /\ completed' \subseteq Cells
           /\ \A d \in completed' : d \in completed \/ at'[d] = "done"
<1>1. Link(k) \in Cells /\ at[Link(k)] = "none"
  BY Cellular DEF IInv, TypeOK
<1>2. First(Link(k)) \in {"branch", "terminate"}
  BY Cellular, LengthAssumption DEF First, Inners, Stages
<1>3. o # None BY NoneAssumption
<1>4. /\ outcome' = [outcome EXCEPT ![Link(k)] = o]
      /\ at' = [at EXCEPT ![c] = IF bound[Link(k)] THEN "below" ELSE "done",
                          ![Link(k)] = IF bound[Link(k)] THEN First(Link(k)) ELSE "none"]
      /\ completed' = IF bound[Link(k)] THEN completed ELSE completed \cup {c}
  BY DEF SettleFrom
<1>5. at \in [Cells -> Places] /\ outcome \in [Cells -> Outcomes \cup {None}] /\ completed \subseteq Cells
  BY DEF IInv, TypeOK
<1>6. /\ \A d \in Cells : d # Link(k) => outcome'[d] = outcome[d]
      /\ outcome'[Link(k)] = o
      /\ outcome' \in [Cells -> Outcomes \cup {None}]
  BY <1>1, <1>4, <1>5
<1>7. CASE bound[Link(k)]
  BY <1>1, <1>2, <1>3, <1>4, <1>5, <1>6, <1>7 DEF Places
<1>8. CASE ~bound[Link(k)]
  BY <1>1, <1>2, <1>3, <1>4, <1>5, <1>6, <1>8 DEF Places
<1> QED BY <1>7, <1>8

\* All stages but k, when a callback of stage k settles the next promise.
LEMMA SettleFromFrame ==
    ASSUME NEW k \in Stages, NEW c \in {Link(k - 1), Inner(k)}, NEW o \in Outcomes, IInv,
           ~Settled(Link(k)), SettleFrom(c, Link(k), o), at[c] \notin {"done", "thrown"},
           UNCHANGED <<form, ends_void, built, bound, raised, lent>>,
           \A j \in Stages : j # k => calls'[j] = calls[j] /\ (j \in broken' <=> j \in broken)
    PROVE  (\A j \in Stages : j # k => Local(j)') /\ Unwinding' /\ Built'
<1>0. k \in 0 .. N /\ k - 1 \in 0 .. N BY LengthAssumption DEF Stages
<1>1. c \in Cells /\ c # Link(k) /\ Link(k) \in Cells
  BY <1>0, Cellular
<1>2. /\ at[Link(k)] = "none"
      /\ \A d \in Cells : d # Link(k) => outcome'[d] = outcome[d]
      /\ \A d \in Cells : d # Link(k) /\ d # c => at'[d] = at[d]
      /\ at'[c] \in {"below", "done"}
      /\ at'[Link(k)] = (IF bound[Link(k)] THEN First(Link(k)) ELSE "none")
      /\ First(Link(k)) \in {"branch", "terminate"}
      /\ \A d \in completed' : d \in completed \/ at'[d] = "done"
  BY <1>1, SettleFromEffect
<1>3. ASSUME NEW j \in Stages, j # k PROVE Local(j)'
  <2>1. /\ Link(j - 1) \in Cells /\ Link(j) \in Cells /\ Inner(j) \in Cells
        /\ Link(j - 1) # c /\ Inner(j) # c /\ Inner(j) # Link(k) /\ Link(j) # Link(k)
    BY <1>0, <1>3, Cellular, LengthAssumption DEF Stages
  <2>2. Untouched(j)
    BY <1>2, <1>3, <2>1 DEF Untouched
  <2>3. Advances(j)
    <3>1. CASE Link(j - 1) = Link(k)
      <4>1. First(Link(k)) = "branch" BY <3>1, Firsts
      <4> QED BY <1>2, <3>1, <4>1 DEF Advances
    <3>2. CASE Link(j - 1) # Link(k)
      BY <1>2, <2>1, <3>2 DEF Advances
    <3> QED BY <3>1, <3>2
  <2>4. Settled(Link(j - 1)) => outcome'[Link(j - 1)] = outcome[Link(j - 1)]
    BY <1>2, <2>1
  <2>5. Local(j) /\ (at[Link(j - 1)] # "none" => Settled(Link(j - 1)))
    BY <2>1 DEF IInv, TypeOK
  <2> QED BY <2>2, <2>3, <2>4, <2>5, LocalFrame
<1>4. Unwinding'
  <2>1. \A d \in Cells : at[d] \in {"done", "thrown"} => at'[d] = at[d]
    BY <1>2
  <2>2. \A d \in Cells : at'[d] = "thrown" => at[d] = "thrown"
    BY <1>1, <1>2
  <2>3. \A d \in Cells : Settled(d) => outcome'[d] = outcome[d]
    BY <1>2
  <2> QED BY <1>2, <2>1, <2>2, <2>3, UnwindingFrame DEF IInv
<1>5. Built'
  BY DEF IInv, Built
<1> QED BY <1>3, <1>4, <1>5

\* The types, when a callback of stage k settles the next promise.
LEMMA SettleFromTypes ==
    ASSUME NEW k \in Stages, NEW c \in {Link(k - 1), Inner(k)}, NEW o \in Outcomes, IInv,
           ~Settled(Link(k)), SettleFrom(c, Link(k), o), at[c] # "none",
           UNCHANGED <<form, ends_void, built, in_binder, bound, raised, lent>>,
           calls' \in [Stages -> Seq(Functions)], broken' \subseteq Stages
    PROVE  TypeOK'
<1>0. k \in 0 .. N /\ k - 1 \in 0 .. N BY LengthAssumption DEF Stages
<1>1. c \in Cells /\ c # Link(k) /\ Link(k) \in Cells
  BY <1>0, Cellular
<1>2. /\ outcome' \in [Cells -> Outcomes \cup {None}] /\ at' \in [Cells -> Places]
      /\ \A d \in Cells : d # Link(k) => outcome'[d] = outcome[d]
      /\ outcome'[Link(k)] = o /\ o # None
      /\ \A d \in Cells : d # Link(k) /\ d # c => at'[d] = at[d]
      /\ at'[Link(k)] = (IF bound[Link(k)] THEN First(Link(k)) ELSE "none")
      /\ completed' \subseteq Cells
  BY <1>1, SettleFromEffect
<1>3. \A d \in Cells : at'[d] # "none" => Settled(d)' /\ bound'[d]
  <2> SUFFICES ASSUME NEW d \in Cells, at'[d] # "none" PROVE Settled(d)' /\ bound'[d] OBVIOUS
  <2>1. CASE d = Link(k) BY <1>2, <2>1 DEF Settled
  <2>2. CASE d # Link(k)
    <3>1. at[d] # "none" BY <1>2, <2>2
    <3> QED BY <1>2, <2>2, <3>1 DEF IInv, TypeOK, Settled
  <2> QED BY <2>1, <2>2
<1> QED BY <1>2, <1>3 DEF IInv, TypeOK

LEMMA AppendToOne ==
    ASSUME NEW S, NEW b \in S, NEW e \in S PROVE Append(<<b>>, e) = <<b, e>>
<1> DEFINE s == Append(<<b>>, e)  t == <<b, e>>
<1>1. <<b>> \in Seq(S) /\ Len(<<b>>) = 1 OBVIOUS
<1>2. s \in Seq(S) /\ Len(s) = 2 /\ s[1] = b /\ s[2] = e BY <1>1
<1>3. t \in Seq(S) /\ Len(t) = 2 /\ t[1] = b /\ t[2] = e OBVIOUS
<1>4. \A i \in 1 .. 2 : s[i] = t[i] BY <1>2, <1>3
<1> HIDE DEF s, t
<1>5. s = t BY <1>2, <1>3, <1>4, SeqEqual
<1> QED BY <1>5 DEF s, t

LEMMA FinalizePreserves ==
    ASSUME NEW k \in Stages PROVE IInv /\ Finalize(k) => IInv'
<1> SUFFICES ASSUME IInv, Finalize(k) PROVE IInv' OBVIOUS
<1> DEFINE c == Link(k - 1)
<1>0. /\ k \in 0 .. N /\ k - 1 \in 0 .. N
      /\ c \in Cells /\ Inner(k) \in Cells /\ Link(k) \in Cells
      /\ c # Inner(k) /\ Link(k) # Inner(k) /\ c # Link(k)
  BY LengthAssumption, Cellular DEF Stages
<1>1. at[c] = "finally" /\ UNCHANGED <<form, ends_void, built, in_binder, raised, lent>>
  BY DEF Finalize
<1>2. /\ Local(k) /\ calls[k] = <<BranchOf(k)>> /\ ~Settled(Link(k))
      /\ ~bound[Inner(k)] /\ k \notin broken
  BY <1>1 DEF IInv, Local, Phase, Early
<1>3. calls' = [calls EXCEPT ![k] = <<BranchOf(k), "finalizer">>]
  <2>1. BranchOf(k) \in Functions /\ "finalizer" \in Functions BY DEF BranchOf, Functions
  <2>2. Append(<<BranchOf(k)>>, "finalizer") = <<BranchOf(k), "finalizer">> BY <2>1, AppendToOne
  <2>3. Append(calls[k], "finalizer") = <<BranchOf(k), "finalizer">> BY <1>2, <2>2
  <2> QED BY <2>3 DEF Finalize
<1>4. (\A j \in Stages : j # k => calls'[j] = calls[j]) /\ calls'[k] = <<BranchOf(k), "finalizer">>
  BY <1>3 DEF IInv, TypeOK
<1>5. calls' \in [Stages -> Seq(Functions)]
  <2>1. <<BranchOf(k), "finalizer">> \in Seq(Functions)
    BY DEF BranchOf, Functions
  <2> QED BY <1>3, <2>1 DEF IInv, TypeOK
<1>6. at[Inner(k)] = "none" /\ Settled(c)
  BY <1>0, <1>1, <1>2 DEF IInv, TypeOK
<1>7. ASSUME NEW o \in Outcomes, SettleFrom(c, Link(k), o), bound' = bound,
             \/ broken' = broken \cup {k} /\ o = Error("finalizer", k)
             \/ broken' = broken /\ raised[k] # None /\ o = raised[k]
      PROVE  IInv'
  <2>1. broken' \subseteq Stages /\ \A j \in Stages : j # k => (j \in broken' <=> j \in broken)
    BY <1>7 DEF IInv, TypeOK
  <2>2. TypeOK'
    BY <1>1, <1>2, <1>5, <1>7, <2>1, SettleFromTypes
  <2>3. (\A j \in Stages : j # k => Local(j)') /\ Unwinding' /\ Built'
    BY <1>1, <1>2, <1>4, <1>7, <2>1, SettleFromFrame
  <2>4. /\ \A d \in Cells : d # Link(k) => outcome'[d] = outcome[d]
        /\ outcome'[Link(k)] = o /\ o # None
        /\ at'[c] \in {"below", "done"}
    BY <1>0, <1>2, <1>7, SettleFromEffect
  <2>5. /\ outcome'[c] = outcome[c] /\ outcome'[Inner(k)] = outcome[Inner(k)]
    BY <1>0, <2>4
  <2>6. /\ (IsError(c))' = IsError(c) /\ BranchOf(k)' = BranchOf(k)
        /\ Settled(Inner(k))' = Settled(Inner(k))
    BY <2>5 DEF IsError, Settled, BranchOf
  <2>7. Phase(k)'
    BY <1>1, <1>2, <1>4, <1>7, <2>4, <2>6 DEF Phase, Early
  <2>8. Passed(k)'
    BY <1>1, <1>2, <1>7, <2>4 DEF Passed
  <2>9. Origin(k)'
    <3>1. Origin(k) BY <1>2 DEF Local
    <3> QED BY <1>1, <2>5, <2>6, <3>1 DEF Origin, Gave, UserGave, DefaultGave, EndsChain
  <2>10. Local(k)' BY <2>7, <2>8, <2>9 DEF Local
  <2> QED BY <2>2, <2>3, <2>10 DEF IInv
<1>8. ASSUME broken' = broken, outcome' = outcome, raised[k] = None,
             bound' = [bound EXCEPT ![Inner(k)] = TRUE],
             IF Settled(Inner(k))
             THEN at' = [at EXCEPT ![c] = "below_inner", ![Inner(k)] = "forward"] /\ completed' = completed
             ELSE at' = [at EXCEPT ![c] = "done"] /\ completed' = completed \cup {c}
      PROVE  IInv'
  <2>1. /\ at' \in [Cells -> Places] /\ completed' \subseteq Cells
        /\ \A d \in Cells : d # c /\ d # Inner(k) => at'[d] = at[d]
        /\ at'[c] \in {"below_inner", "done"}
        /\ at'[Inner(k)] = (IF Settled(Inner(k)) THEN "forward" ELSE "none")
        /\ \A d \in completed' : d \in completed \/ at'[d] = "done"
    <3>1. CASE Settled(Inner(k))
      BY <1>0, <1>8, <3>1 DEF IInv, TypeOK, Places
    <3>2. CASE ~Settled(Inner(k))
      BY <1>0, <1>6, <1>8, <3>2 DEF IInv, TypeOK, Places
    <3> QED BY <3>1, <3>2
  <2>2. /\ bound' \in [Cells -> BOOLEAN] /\ bound'[Inner(k)]
        /\ \A d \in Cells : d # Inner(k) => bound'[d] = bound[d]
    BY <1>0, <1>8 DEF IInv, TypeOK
  <2>3. TypeOK'
    <3>1. \A d \in Cells : at'[d] # "none" => Settled(d)' /\ bound'[d]
      <4> SUFFICES ASSUME NEW d \in Cells, at'[d] # "none" PROVE Settled(d)' /\ bound'[d] OBVIOUS
      <4>1. CASE d = Inner(k) BY <1>8, <2>1, <2>2, <4>1 DEF Settled
      <4>2. CASE d # Inner(k)
        <5>1. at[d] # "none" BY <1>1, <2>1, <4>2
        <5> QED BY <1>8, <2>2, <4>2, <5>1 DEF IInv, TypeOK, Settled
      <4> QED BY <4>1, <4>2
    <3> QED BY <1>1, <1>5, <1>8, <2>1, <2>2, <3>1 DEF IInv, TypeOK
  <2>4. ASSUME NEW j \in Stages, j # k PROVE Local(j)'
    <3>1. /\ Link(j - 1) \in Cells /\ Link(j) \in Cells /\ Inner(j) \in Cells
          /\ Link(j - 1) # c /\ Inner(j) # c /\ Inner(j) # Inner(k) /\ Link(j - 1) # Inner(k)
      BY <1>0, <2>4, Cellular, LengthAssumption DEF Stages
    <3>2. Untouched(j)
      BY <1>1, <1>4, <1>8, <2>1, <2>2, <2>4, <3>1 DEF Untouched
    <3>3. Advances(j)
      BY <2>1, <3>1 DEF Advances
    <3>4. Local(j) /\ (at[Link(j - 1)] # "none" => Settled(Link(j - 1)))
      BY <3>1 DEF IInv, TypeOK
    <3> QED BY <1>1, <1>8, <3>2, <3>3, <3>4, LocalFrame
  <2>5. Local(k)'
    <3>1. /\ (IsError(c))' = IsError(c) /\ BranchOf(k)' = BranchOf(k)
          /\ Settled(Inner(k))' = Settled(Inner(k)) /\ Settled(Link(k))' = Settled(Link(k))
      BY <1>8 DEF IsError, Settled, BranchOf
    <3>2. Phase(k)'
      BY <1>1, <1>2, <1>4, <1>8, <2>1, <3>1 DEF Phase, Early
    <3>3. Passed(k)'
      BY <1>2, <3>1 DEF Passed
    <3>4. Origin(k)'
      <4>1. Origin(k) BY <1>2 DEF Local
      <4> QED BY <1>1, <1>8, <3>1, <4>1 DEF Origin, Gave, UserGave, DefaultGave, EndsChain
    <3> QED BY <3>2, <3>3, <3>4 DEF Local
  <2>6. Unwinding'
    <3>1. \A d \in Cells : at[d] \in {"done", "thrown"} => at'[d] = at[d]
      BY <1>1, <1>6, <2>1
    <3>2. \A d \in Cells : at'[d] = "thrown" => at[d] = "thrown"
      BY <1>0, <2>1
    <3> QED BY <1>8, <2>1, <3>1, <3>2, UnwindingFrame DEF IInv
  <2>7. Built'
    <3>1. \A j \in 0 .. N : bound'[Link(j)] = bound[Link(j)]
      BY <2>2, Cellular
    <3> QED BY <1>1, <3>1 DEF IInv, Built
  <2> QED BY <2>3, <2>4, <2>5, <2>6, <2>7 DEF IInv
<1>9. Error("finalizer", k) \in Outcomes /\ (raised[k] # None => raised[k] \in Outcomes)
  BY <1>0, Outcome DEF IInv, TypeOK
<1>10. \/ /\ broken' = broken \cup {k} /\ bound' = bound
          /\ SettleFrom(c, Link(k), Error("finalizer", k))
       \/ /\ broken' = broken /\ bound' = bound /\ raised[k] # None
          /\ SettleFrom(c, Link(k), raised[k])
       \/ /\ broken' = broken /\ outcome' = outcome /\ raised[k] = None
          /\ bound' = [bound EXCEPT ![Inner(k)] = TRUE]
          /\ IF Settled(Inner(k))
             THEN at' = [at EXCEPT ![c] = "below_inner", ![Inner(k)] = "forward"] /\ completed' = completed
             ELSE at' = [at EXCEPT ![c] = "done"] /\ completed' = completed \cup {c}
  BY DEF Finalize
<1> QED BY <1>7, <1>8, <1>9, <1>10

LEMMA ForwardPreserves ==
    ASSUME NEW k \in Stages PROVE IInv /\ Forward(k) => IInv'
<1> SUFFICES ASSUME IInv, Forward(k) PROVE IInv' OBVIOUS
<1> DEFINE c == Inner(k)  o == outcome[c]
<1>0. /\ k \in 0 .. N /\ k - 1 \in 0 .. N
      /\ c \in Cells /\ Link(k) \in Cells /\ Link(k - 1) \in Cells
      /\ c # Link(k) /\ c # Link(k - 1) /\ Link(k) # Link(k - 1)
  BY LengthAssumption, Cellular DEF Stages
<1>1. /\ at[c] = "forward" /\ SettleFrom(c, Link(k), o)
      /\ UNCHANGED <<form, ends_void, built, in_binder, calls, broken, bound, raised, lent>>
  BY DEF Forward
<1>2. Settled(c) /\ bound[c] /\ o \in Outcomes
  BY <1>0, <1>1 DEF IInv, TypeOK, Settled
<1>3. Local(k) /\ ~Settled(Link(k)) /\ raised[k] = None /\ k \notin broken
  BY <1>1, <1>2 DEF IInv, Local, Phase
<1>4. TypeOK'
  <2>1. calls' \in [Stages -> Seq(Functions)] /\ broken' \subseteq Stages
    BY <1>1 DEF IInv, TypeOK
  <2> QED BY <1>1, <1>2, <1>3, <2>1, SettleFromTypes
<1>5. (\A j \in Stages : j # k => Local(j)') /\ Unwinding' /\ Built'
  BY <1>1, <1>2, <1>3, SettleFromFrame
<1>6. /\ \A d \in Cells : d # Link(k) => outcome'[d] = outcome[d]
      /\ outcome'[Link(k)] = o /\ o # None
      /\ \A d \in Cells : d # Link(k) /\ d # c => at'[d] = at[d]
      /\ at'[c] \in {"below", "done"}
  BY <1>0, <1>1, <1>2, <1>3, SettleFromEffect
<1>7. /\ outcome'[Link(k - 1)] = outcome[Link(k - 1)] /\ outcome'[c] = o
      /\ at'[Link(k - 1)] = at[Link(k - 1)]
  BY <1>0, <1>6
<1>8. /\ (IsError(Link(k - 1)))' = IsError(Link(k - 1)) /\ BranchOf(k)' = BranchOf(k)
      /\ Settled(c)' = Settled(c)
  BY <1>7 DEF IsError, Settled, BranchOf
<1>9. at[Link(k - 1)] \notin Early
  BY <1>2, <1>3 DEF Local, Phase
<1>10. Phase(k)'
  BY <1>1, <1>3, <1>6, <1>7, <1>8, <1>9 DEF Local, Phase, Early
<1>11. Passed(k)'
  BY <1>1, <1>2, <1>3, <1>6, <1>7, <1>8 DEF Passed
<1>12. Origin(k)'
  <2>1. Origin(k) BY <1>3 DEF Local
  <2> QED BY <1>1, <1>7, <1>8, <2>1 DEF Origin, Gave, UserGave, DefaultGave, EndsChain
<1> QED BY <1>4, <1>5, <1>10, <1>11, <1>12 DEF IInv, Local

-----------------------------------------------------------------------------
(* The calls return.                                                        *)

\* A callback ends; it is left by an exception only when the one below was.
LEMMA EndPreserves ==
    ASSUME NEW c \in Cells, NEW how \in {"done", "thrown"}, IInv, End(c, how),
           at[c] \in {"below", "below_inner", "terminate"},
           at[c] = "terminate" => c = Link(N),
           how = "thrown" =>
               \/ c = Link(N) /\ IsError(Link(N))
               \/ \E k \in Stages : c \in {Link(k - 1), Inner(k)} /\ at[Link(k)] = "thrown"
    PROVE  IInv'
<1>1. UNCHANGED <<form, ends_void, built, in_binder, calls, broken, outcome, bound, raised, lent>>
  BY DEF End
<1>2. at' = [at EXCEPT ![c] = how] /\ completed' = (IF how = "done" THEN completed \cup {c} ELSE completed)
  BY DEF End
<1>3. (\A d \in Cells : d # c => at'[d] = at[d]) /\ at'[c] = how
  BY <1>2 DEF IInv, TypeOK
<1>4. TypeOK'
  <2>1. at' \in [Cells -> Places]
    BY <1>2 DEF IInv, TypeOK, Places
  <2>2. \A d \in Cells : at'[d] # "none" => Settled(d)' /\ bound'[d]
    BY <1>1, <1>3 DEF IInv, TypeOK, Settled
  <2>3. completed' \subseteq Cells
    BY <1>2 DEF IInv, TypeOK
  <2> QED BY <1>1, <2>1, <2>2, <2>3 DEF IInv, TypeOK
<1>5. \A j \in Stages : Local(j)'
  <2> SUFFICES ASSUME NEW j \in Stages PROVE Local(j)' OBVIOUS
  <2>1. Link(j - 1) \in Cells /\ Link(j) \in Cells /\ Inner(j) \in Cells /\ Link(j - 1) # Link(N)
    BY Cellular, LengthAssumption DEF Stages
  <2>2. Untouched(j)
    BY <1>1, <1>3, <2>1 DEF Untouched
  <2>3. Advances(j)
    BY <1>3, <2>1 DEF Advances, Over
  <2>4. Local(j) /\ (at[Link(j - 1)] # "none" => Settled(Link(j - 1)))
    BY <2>1 DEF IInv, TypeOK
  <2> QED BY <1>1, <2>2, <2>3, <2>4, LocalFrame
<1>6. Unwinding'
  <2>1. \A d \in Cells : at[d] = "thrown" => at'[d] = "thrown"
    BY <1>3
  <2>2. N \in 0 .. N /\ \A k \in Stages : k \in 0 .. N /\ k - 1 \in 0 .. N
    BY LengthAssumption DEF Stages
  <2>3. \A k \in 0 .. N : at'[Link(k)] = "thrown" => \A j \in k .. N : at'[Link(j)] = "thrown"
    <3> SUFFICES ASSUME NEW k \in 0 .. N, at'[Link(k)] = "thrown", NEW j \in k .. N
                 PROVE  at'[Link(j)] = "thrown"
      OBVIOUS
    <3>1. j \in 0 .. N /\ Link(j) \in Cells /\ Link(k) \in Cells
      BY Cellular
    <3>2. CASE at[Link(k)] = "thrown"
      BY <2>1, <3>1, <3>2 DEF IInv, Unwinding
    <3>3. CASE at[Link(k)] # "thrown"
      <4>1. c = Link(k) /\ how = "thrown"
        BY <1>3, <3>1, <3>3
      <4>2. CASE k = N
        BY <3>1, <4>2, LengthAssumption
      <4>3. CASE k # N
        <5>1. \E i \in Stages : c \in {Link(i - 1), Inner(i)} /\ at[Link(i)] = "thrown"
          BY <2>2, <4>1, <4>3, Cellular
        <5>2. k + 1 \in Stages /\ at[Link(k + 1)] = "thrown"
          BY <2>2, <4>1, <5>1, Cellular, LengthAssumption DEF Stages
        <5>3. CASE j = k BY <5>3
        <5>4. CASE j # k
          <6>1. k + 1 \in 0 .. N /\ j \in k + 1 .. N BY <4>3, <5>4, LengthAssumption
          <6>2. at[Link(j)] = "thrown" BY <5>2, <6>1 DEF IInv, Unwinding
          <6> QED BY <2>1, <3>1, <6>2
        <5> QED BY <5>3, <5>4
      <4> QED BY <4>2, <4>3
    <3> QED BY <3>2, <3>3
  <2>4. \A k \in Stages : at'[Inner(k)] = "thrown" => at'[Link(k)] = "thrown"
    <3> SUFFICES ASSUME NEW k \in Stages, at'[Inner(k)] = "thrown"
                 PROVE  at'[Link(k)] = "thrown"
      OBVIOUS
    <3>1. Inner(k) \in Cells /\ Link(k) \in Cells BY Cellular
    <3>2. CASE at[Inner(k)] = "thrown"
      BY <2>1, <3>1, <3>2 DEF IInv, Unwinding
    <3>3. CASE at[Inner(k)] # "thrown"
      <4>1. c = Inner(k) /\ how = "thrown"
        BY <1>3, <3>1, <3>3
      <4>2. \E i \in Stages : c \in {Link(i - 1), Inner(i)} /\ at[Link(i)] = "thrown"
        BY <2>2, <4>1, Cellular
      <4>3. at[Link(k)] = "thrown"
        BY <2>2, <4>1, <4>2, Cellular
      <4> QED BY <2>1, <3>1, <4>3
    <3> QED BY <3>2, <3>3
  <2>5. \A d \in completed' : at'[d] = "done"
    BY <1>2, <1>3 DEF IInv, Unwinding, TypeOK
  <2>6. at'[Link(N)] = "thrown" => IsError(Link(N))'
    <3> SUFFICES ASSUME at'[Link(N)] = "thrown" PROVE IsError(Link(N)) BY <1>1 DEF IsError, Settled
    <3>1. Link(N) \in Cells /\ \A k \in Stages : Link(N) \notin {Link(k - 1), Inner(k)}
      BY <2>2, Cellular, LengthAssumption DEF Stages
    <3> QED BY <1>3, <3>1 DEF IInv, Unwinding
  <2> QED BY <2>3, <2>4, <2>5, <2>6 DEF Unwinding
<1>7. Built'
  BY <1>1 DEF IInv, Built
<1> QED BY <1>4, <1>5, <1>6, <1>7 DEF IInv

LEMMA TerminatePreserves == IInv /\ Terminate => IInv'
<1>1. Link(N) \in Cells BY Cellular, LengthAssumption
<1> QED BY <1>1, EndPreserves DEF Terminate

LEMMA ReturnPreserves ==
    ASSUME NEW k \in Stages PROVE IInv /\ (ReturnToBranch(k) \/ ReturnToInner(k)) => IInv'
<1> SUFFICES ASSUME IInv, ReturnToBranch(k) \/ ReturnToInner(k) PROVE IInv' OBVIOUS
<1>1. PICK c \in {Link(k - 1), Inner(k)}, d \in {Link(k), Inner(k)} :
          at[c] \in {"below", "below_inner"} /\ Back(c, d)
  BY DEF ReturnToBranch, ReturnToInner
<1>2. c \in Cells /\ d \in Cells BY Cellular
<1>3. at[d] \in {"done", "thrown"} /\ End(c, at[d]) BY <1>1 DEF Back
<1>4. at[d] = "thrown" => at[Link(k)] = "thrown" BY DEF IInv, Unwinding
<1> QED BY <1>1, <1>2, <1>3, <1>4, EndPreserves

-----------------------------------------------------------------------------
\* The invariant is inductive: it holds in every state that can be reached.
THEOREM Inductive == Spec => []IInv
<1>1. IInv /\ [Next]_vars => IInv'
  <2> SUFFICES ASSUME IInv, [Next]_vars PROVE IInv' OBVIOUS
  <2>1. CASE SettleSource BY <2>1, SettleSourcePreserves
  <2>2. CASE Bind BY <2>2, BindPreserves
  <2>3. CASE Terminate BY <2>3, TerminatePreserves
  <2>4. ASSUME NEW k \in Stages, SettleInner(k) \/ Stage(k) PROVE IInv'
    <3>1. CASE SettleInner(k) BY <3>1, SettleInnerPreserves
    <3>2. CASE ResolveBranch(k) \/ RejectBranch(k) BY <3>2, BranchPreserves
    <3>3. CASE Finalize(k) BY <3>3, FinalizePreserves
    <3>4. CASE Forward(k) BY <3>4, ForwardPreserves
    <3>5. CASE ReturnToBranch(k) \/ ReturnToInner(k) BY <3>5, ReturnPreserves
    <3> QED BY <2>4, <3>1, <3>2, <3>3, <3>4, <3>5 DEF Stage
  <2>5. CASE UNCHANGED vars
    BY <2>5 DEF vars, chainVars, IInv, TypeOK, Local, Phase, Passed, Origin, Gave, UserGave,
                DefaultGave, EndsChain, Unwinding, Built, Settled, IsError, BranchOf, Own
  <2> QED BY <2>1, <2>2, <2>3, <2>4, <2>5 DEF Next, Ended
<1> QED BY Initially, <1>1, PTL DEF Spec

\* Every variable of a chain keeps its type, and a callback runs only for a
\* promise that is settled and bound, however long the chain is.
THEOREM TypeCorrect == Spec => []TypeOK
<1>1. IInv => TypeOK BY DEF IInv
<1> QED BY Inductive, <1>1, PTL

\* Each stage calls next or handler once, then the finalizer once, and settles
\* the next promise only after both (promise.tcc:122-195).
THEOREM CallsAreInOrder == Spec => []CalledInOrder
<1>1. IInv => CalledInOrder
  <2> SUFFICES ASSUME IInv, NEW k \in Stages
               PROVE  /\ calls[k] \in {<<>>, <<BranchOf(k)>>, <<BranchOf(k), "finalizer">>}
                      /\ calls[k] # <<>> => Settled(Link(k - 1))
                      /\ Settled(Link(k)) => Len(calls[k]) = 2
    BY DEF CalledInOrder
  <2>1. Link(k - 1) \in Cells /\ Phase(k) BY Cellular DEF IInv, Local
  <2>2. calls[k] \in {<<>>, <<BranchOf(k)>>, <<BranchOf(k), "finalizer">>}
    BY <2>1 DEF Phase, Early
  <2>3. calls[k] # <<>> => Settled(Link(k - 1))
    <3>1. calls[k] # <<>> => at[Link(k - 1)] # "none" BY <2>1 DEF Phase
    <3> QED BY <2>1, <3>1 DEF IInv, TypeOK
  <2>4. Settled(Link(k)) => Len(calls[k]) = 2
    <3>1. Settled(Link(k)) => calls[k] = <<BranchOf(k), "finalizer">>
      BY <2>1 DEF Phase
    <3>2. \A b : Len(<<b, "finalizer">>) = 2 OBVIOUS
    <3> QED BY <3>1, <3>2
  <2> QED BY <2>2, <2>3, <2>4
<1> QED BY Inductive, <1>1, PTL

\* A callback is left by an exception only when an error reached the end of the
\* chain, and then every one between it and the end was (promise.tcc:236-262).
THEOREM OnlyUnhandledAbandons == Spec => []AbandonedOnlyByUnhandled
<1>1. IInv => AbandonedOnlyByUnhandled
  <2> SUFFICES ASSUME IInv, NEW k \in 0 .. N, at[Link(k)] = "thrown"
               PROVE  /\ IsError(Link(N)) /\ at[Link(N)] = "thrown"
                      /\ \A j \in k .. N : Link(j) \notin completed
    BY DEF AbandonedOnlyByUnhandled
  <2>1. \A j \in k .. N : at[Link(j)] = "thrown" BY DEF IInv, Unwinding
  <2>2. N \in k .. N BY LengthAssumption
  <2> QED BY <2>1, <2>2 DEF IInv, Unwinding
<1> QED BY Inductive, <1>1, PTL

\* An error goes down a chain unchanged until a handler is called for it, and
\* only what a finalizer throws takes its place; finally() lets values pass as well
\* (promise.tcc:104-235, promise/state.h:122-128).  The overload of then() that
\* returns void is the exception: at the end of a chain it drops an error that it
\* has no handler for (promise.tcc:199).
THEOREM ErrorsGoDown == Spec => []ErrorsPropagate
<1>1. IInv => ErrorsPropagate
  <2> SUFFICES ASSUME IInv, NEW k \in Stages, Settled(Link(k))
               PROVE  /\ k \in broken => outcome[Link(k)] = Error("finalizer", k)
                      /\ IsError(Link(k - 1)) /\ "handler" \notin form[k] /\ k \notin broken =>
                            \/ outcome[Link(k)] = outcome[Link(k - 1)]
                            \/ EndsChain(k) /\ ~IsError(Link(k))
                      /\ form[k] \in Finally /\ k \notin broken => outcome[Link(k)] = outcome[Link(k - 1)]
                      /\ IsError(Link(k)) /\ outcome[Link(k)][2][2] < k =>
                            /\ "handler" \notin form[k] /\ k \notin broken
                            /\ outcome[Link(k)] = outcome[Link(k - 1)]
    BY DEF ErrorsPropagate
  <2>0. k \in 0 .. N /\ k - 1 \in 0 .. N /\ Link(k - 1) \in Cells
    BY Cellular, LengthAssumption DEF Stages
  <2>1. Passed(k) /\ Origin(k) /\ at[Link(k - 1)] \notin {"none", "branch"}
    BY DEF IInv, Local, Phase, Early
  <2>2. outcome[Link(k - 1)] # None BY <2>0, <2>1 DEF IInv, TypeOK, Settled
  <2>3. /\ Value("callback", k)[1] = "value" /\ Value("inner", k)[1] = "value"
        /\ Error("callback", k)[2][2] = k /\ Error("inner", k)[2][2] = k
        /\ Error("finalizer", k)[2][2] = k
        /\ Value("callback", k) # None /\ Error("callback", k) # None
    BY <2>0, Outcome
  <2>4. ~(k < k) BY DEF Stages
  <2>5. CASE k \in broken
    BY <2>1, <2>3, <2>4, <2>5 DEF Passed
  <2>6. CASE k \notin broken /\ BranchOf(k) \in form[k]
    <3>1. outcome[Link(k)] \in Own(k)
      BY <2>1, <2>6 DEF Passed, Origin, Gave, UserGave, Own, Settled
    <3>2. ~(IsError(Link(k)) /\ outcome[Link(k)][2][2] < k)
      BY <2>3, <2>4, <3>1 DEF Own, IsError
    <3>3. form[k] \notin Finally
      BY <2>6 DEF Finally, BranchOf
    <3> QED BY <2>6, <3>2, <3>3 DEF BranchOf
  <2>7. CASE k \notin broken /\ BranchOf(k) \notin form[k]
    <3>1. \/ EndsChain(k) /\ outcome[Link(k)] = Value("callback", k)
          \/ outcome[Link(k)] = outcome[Link(k - 1)]
          \/ ~IsError(Link(k - 1)) /\ form[k] \in Except /\ outcome[Link(k)] = Error("callback", k)
      BY <2>1, <2>2, <2>3, <2>7 DEF Passed, Origin, Gave, DefaultGave
    <3>2. CASE EndsChain(k) /\ outcome[Link(k)] = Value("callback", k)
      <4>1. ~IsError(Link(k)) BY <2>3, <3>2 DEF IsError
      <4>2. form[k] \notin Finally BY <3>2 DEF IInv, TypeOK, EndsChain
      <4> QED BY <2>7, <3>2, <4>1, <4>2
    <3>3. CASE outcome[Link(k)] = outcome[Link(k - 1)]
      <4>1. IsError(Link(k)) => IsError(Link(k - 1)) BY <2>2, <3>3 DEF IsError, Settled
      <4> QED BY <2>7, <3>3, <4>1 DEF BranchOf
    <3>4. CASE ~IsError(Link(k - 1)) /\ form[k] \in Except /\ outcome[Link(k)] = Error("callback", k)
      BY <2>3, <2>4, <2>7, <3>4 DEF Except, Finally
    <3> QED BY <3>1, <3>2, <3>3, <3>4
  <2> QED BY <2>5, <2>6, <2>7
<1> QED BY Inductive, <1>1, PTL
=============================================================================
