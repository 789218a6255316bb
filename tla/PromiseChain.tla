---------------------------- MODULE PromiseChain ----------------------------
(***************************************************************************)
(* A chain p0->then(...)->then(...)->finish() of N calls of then(), built  *)
(* by one thread while others settle p0 and the promises that next and     *)
(* handler return.  Whoever makes a promise both settled and bound runs    *)
(* its callback, which settles the next promise of the chain and so runs   *)
(* that one's callback, nested inside its own.                             *)
(*                                                                         *)
(* Each promise is what module Promise shows it to be: settled once, bound *)
(* once, its callback run when it is both.  One step is what happens       *)
(* between two calls of user code (next, handler, finalizer).              *)
(***************************************************************************)
EXTENDS Integers, Sequences

CONSTANTS
    N,      \* calls of then()
    Used,   \* the forms of call that the chain is made of
    None    \* no value and no error

ASSUME LengthAssumption == N \in Nat \ {0}

Stages == 1 .. N
Link(k) == <<"link", k>>    \* p0, and what the k-th then() returns
Inner(k) == <<"inner", k>>  \* nextResult: what next or handler of stage k returns
Links == {Link(k) : k \in 0 .. N}
Inners == {Inner(k) : k \in Stages}
Cells == Links \cup Inners

\* who produced a value or threw an error
Sources == {<<by, k>> : by \in {"source", "callback", "inner", "finalizer"}, k \in 0 .. N}
Value(by, k) == <<"value", <<by, k>>>>
Error(by, k) == <<"error", <<by, k>>>>
Outcomes == {"value", "error"} \X Sources

ASSUME NoneAssumption == None \notin Outcomes

Functions == {"next", "handler", "finalizer"}

\* the functions that each form of call gives a stage: then(), of which there is
\* an overload for a next that returns a promise, a value or nothing; except(),
\* which is then() without a next; finally(), which has neither next nor handler
Then == {given \in SUBSET Functions : "next" \in given}
Except == {{"handler"}}
Finally == {{"finalizer"}}
Forms == Then \cup Except \cup Finally

ASSUME UsedAssumption == Used \subseteq Forms

VARIABLES
    form,       \* the functions given to each stage
    ends_void,  \* the last then() is the overload that returns void
    outcome,    \* PromiseState::result and ::error of each promise
    bound,      \* callbacks_assigned
    completed,  \* the promises in state completed
    at,         \* where the callback of each promise is
    raised,     \* the exception that next or handler of each stage threw
    built,      \* promises bound so far: the chain is built in order
    in_binder,  \* the builder runs the callback of the promise bound last
    lent,       \* the stages whose next or handler has returned a pending promise
    calls,      \* history: the user's functions called at each stage
    broken      \* history: the stages whose finalizer threw

chainVars == <<outcome, bound, completed, at, raised, lent>>
vars == <<form, ends_void, built, in_binder, calls, broken, chainVars>>

\* stage k is the overload of then() or except() that returns void
EndsChain(k) == ends_void /\ k = N

Settled(c) == outcome[c] # None
IsError(c) == Settled(c) /\ outcome[c][1] = "error"

Init ==
    /\ form \in [Stages -> Used]
    /\ ends_void \in BOOLEAN
    /\ ends_void => form[N] \notin Finally
    /\ outcome = [c \in Cells |-> None]
    /\ bound = [c \in Cells |-> FALSE]
    /\ completed = {}
    /\ at = [c \in Cells |-> "none"]
    /\ raised = [k \in Stages |-> None]
    /\ built = 0
    /\ in_binder = FALSE
    /\ lent = {}
    /\ calls = [k \in Stages |-> <<>>]
    /\ broken = {}

\* the callback that a promise bound in a chain begins with: a branch of
\* then(), forward_to()'s, or the terminator
First(c) ==
    IF c \in Inners THEN "forward" ELSE IF c = Link(N) THEN "terminate" ELSE "branch"

\* The callback of c settles d with o.  It goes on when d's callback has
\* returned; if nobody has bound d, it has nothing left to do.
SettleFrom(c, d, o) ==
    /\ outcome' = [outcome EXCEPT ![d] = o]
    /\ at' = [at EXCEPT ![c] = IF bound[d] THEN "below" ELSE "done",
                        ![d] = IF bound[d] THEN First(d) ELSE "none"]
    /\ completed' = IF bound[d] THEN completed ELSE completed \cup {c}

-----------------------------------------------------------------------------
(* Other threads.                                                           *)

SettleSource ==
    /\ ~Settled(Link(0))
    /\ \E o \in {Value("source", 0), Error("source", 0)} :
          outcome' = [outcome EXCEPT ![Link(0)] = o]
    /\ at' = IF bound[Link(0)] THEN [at EXCEPT ![Link(0)] = First(Link(0))] ELSE at
    /\ UNCHANGED <<form, ends_void, built, in_binder, calls, broken, bound, completed, raised, lent>>

SettleInner(k) ==
    /\ k \in lent
    /\ ~Settled(Inner(k))
    /\ \E o \in {Value("inner", k), Error("inner", k)} :
          outcome' = [outcome EXCEPT ![Inner(k)] = o]
    /\ at' = IF bound[Inner(k)] THEN [at EXCEPT ![Inner(k)] = "forward"] ELSE at
    /\ UNCHANGED <<form, ends_void, built, in_binder, calls, broken, bound, completed, raised, lent>>

\* mutant of Bind: the callback is run without a look at the state
BindEager ==
    /\ built <= N
    /\ built' = built + 1
    /\ bound' = [bound EXCEPT ![Link(built)] = TRUE]
    /\ at' = [at EXCEPT ![Link(built)] = First(Link(built))]
    /\ UNCHANGED <<form, ends_void, in_binder, calls, broken, outcome, completed, raised, lent>>

\* then() or finish() on the last promise so far, when the call before has returned
Bind ==
    /\ built <= N
    /\ in_binder => at[Link(built - 1)] \in {"done", "thrown"}
    /\ built' = built + 1
    /\ bound' = [bound EXCEPT ![Link(built)] = TRUE]
    /\ in_binder' = Settled(Link(built))
    /\ at' = IF Settled(Link(built)) THEN [at EXCEPT ![Link(built)] = First(Link(built))] ELSE at
    /\ UNCHANGED <<form, ends_void, calls, broken, outcome, completed, raised, lent>>

-----------------------------------------------------------------------------
(* The callback of stage k, in whichever thread runs it.                    *)

\* next or handler has been called: it threw, or returned a promise that is
\* settled (an immediate value, made a promise by factory(), is one) or not
Called(k, name) ==
    /\ calls' = [calls EXCEPT ![k] = Append(@, name)]
    /\ at' = [at EXCEPT ![Link(k - 1)] = "finally"]
    /\ UNCHANGED <<form, ends_void, built, in_binder, broken, bound, completed>>

\* mutant of Throws: an error that is thrown again is a new one
ThrowsNew(k, error) ==
    /\ raised' = [raised EXCEPT ![k] = Error("callback", k)]
    /\ UNCHANGED <<outcome, lent>>

Throws(k, error) ==
    /\ raised' = [raised EXCEPT ![k] = error]
    /\ UNCHANGED <<outcome, lent>>

Returns(k, o) ==
    /\ outcome' = [outcome EXCEPT ![Inner(k)] = o]
    /\ UNCHANGED <<raised, lent>>

ReturnsPending(k) ==
    /\ lent' = lent \cup {k}
    /\ UNCHANGED <<outcome, raised>>

\* the overload that returns void wraps them in functions that return a value,
\* and those in factory(), which never throws
RunsUserCode(k) ==
    \/ ~EndsChain(k) /\ Throws(k, Error("callback", k))
    \/ Returns(k, Value("callback", k))
    \/ Returns(k, Error("callback", k))
    \/ ~EndsChain(k) /\ ReturnsPending(k)

\* without a next the value goes on, unless it has not the type of what the
\* handler returns
DefaultNext(k) ==
    IF EndsChain(k) THEN Returns(k, Value("callback", k))
    ELSE \/ Returns(k, outcome[Link(k - 1)])
         \/ form[k] \in Except /\ Throws(k, Error("callback", k))

\* without a handler the error is thrown again, but the overload that returns
\* void takes it for handled
DefaultExcept(k) ==
    IF EndsChain(k) THEN Returns(k, Value("callback", k)) ELSE Throws(k, outcome[Link(k - 1)])

\* mutant of ResolveBranch: it runs for a rejected promise, too
ResolveBranchAlways(k) ==
    /\ at[Link(k - 1)] = "branch"
    /\ RunsUserCode(k)
    /\ Called(k, "next")

\* the resolve branch
ResolveBranch(k) ==
    /\ at[Link(k - 1)] = "branch"
    /\ ~IsError(Link(k - 1))
    /\ IF "next" \in form[k] THEN RunsUserCode(k) ELSE DefaultNext(k)
    /\ Called(k, "next")

\* the reject branch
RejectBranch(k) ==
    /\ at[Link(k - 1)] = "branch"
    /\ IsError(Link(k - 1))
    /\ IF "handler" \in form[k] THEN RunsUserCode(k) ELSE DefaultExcept(k)
    /\ Called(k, "handler")

\* call_finally() and what follows it: a finalizer that throws rejects the next
\* promise; after one that returns the exception of next or handler does, or
\* what they returned is forwarded
Finalize(k) ==
    LET c == Link(k - 1) IN
    /\ at[c] = "finally"
    /\ calls' = [calls EXCEPT ![k] = Append(@, "finalizer")]
    /\ \/ /\ "finalizer" \in form[k]
          /\ broken' = broken \cup {k}
          /\ SettleFrom(c, Link(k), Error("finalizer", k))
          /\ UNCHANGED bound
       \/ /\ UNCHANGED broken
          /\ raised[k] # None
          /\ SettleFrom(c, Link(k), raised[k])
          /\ UNCHANGED bound
       \/ /\ UNCHANGED <<broken, outcome>>
          /\ raised[k] = None
          /\ bound' = [bound EXCEPT ![Inner(k)] = TRUE]
          /\ IF Settled(Inner(k))
             THEN at' = [at EXCEPT ![c] = "below_inner", ![Inner(k)] = "forward"] /\ UNCHANGED completed
             ELSE at' = [at EXCEPT ![c] = "done"] /\ completed' = completed \cup {c}
    /\ UNCHANGED <<form, ends_void, built, in_binder, raised, lent>>

\* forward_to()'s callback
Forward(k) ==
    /\ at[Inner(k)] = "forward"
    /\ SettleFrom(Inner(k), Link(k), outcome[Inner(k)])
    /\ UNCHANGED <<form, ends_void, built, in_binder, calls, broken, bound, raised, lent>>

\* mutant of End: the promise is completed even if its callback threw
EndCompletes(c, how) ==
    /\ at' = [at EXCEPT ![c] = how]
    /\ completed' = completed \cup {c}
    /\ UNCHANGED <<form, ends_void, built, in_binder, calls, broken, outcome, bound, raised, lent>>

\* mutant of End: a promise whose callback has settled another one is not completed
EndForgets(c, how) ==
    /\ at' = [at EXCEPT ![c] = how]
    /\ UNCHANGED <<form, ends_void, built, in_binder, calls, broken, completed, outcome, bound, raised, lent>>

\* the callback of c ends, and with it, when it returns, the promise c
End(c, how) ==
    /\ at' = [at EXCEPT ![c] = how]
    /\ completed' = IF how = "done" THEN completed \cup {c} ELSE completed
    /\ UNCHANGED <<form, ends_void, built, in_binder, calls, broken, outcome, bound, raised, lent>>

\* set_terminator()'s callbacks: an error that came this far is thrown
Terminate ==
    /\ at[Link(N)] = "terminate"
    /\ End(Link(N), IF IsError(Link(N)) THEN "thrown" ELSE "done")

\* the callback that d's settlement ran, or the exception it let through, is back
Back(c, d) ==
    /\ at[d] \in {"done", "thrown"}
    /\ End(c, at[d])

ReturnToBranch(k) ==
    \/ at[Link(k - 1)] = "below" /\ Back(Link(k - 1), Link(k))
    \/ at[Link(k - 1)] = "below_inner" /\ Back(Link(k - 1), Inner(k))

ReturnToInner(k) == at[Inner(k)] = "below" /\ Back(Inner(k), Link(k))

Stage(k) ==
    ResolveBranch(k) \/ RejectBranch(k) \/ Finalize(k) \/ Forward(k) \/ ReturnToBranch(k) \/ ReturnToInner(k)

Ended == at[Link(N)] \in {"done", "thrown"} /\ UNCHANGED vars

Next ==
    \/ SettleSource \/ Bind \/ Terminate
    \/ \E k \in Stages : SettleInner(k) \/ Stage(k)
    \/ Ended

\* Threads are scheduled, the user's functions return, the promises they return
\* are settled, and the chain is built to its end: nothing in the code enforces
\* the last three, and without them a chain may wait for ever.
Fairness ==
    /\ WF_vars(SettleSource) /\ WF_vars(Bind) /\ WF_vars(Terminate)
    /\ \A k \in Stages : WF_vars(SettleInner(k)) /\ WF_vars(Stage(k))

Spec == Init /\ [][Next]_vars
FairSpec == Spec /\ Fairness

-----------------------------------------------------------------------------
(* Properties                                                               *)

Places == {"none", "branch", "finally", "forward", "terminate", "below", "below_inner", "done", "thrown"}

\* Every variable keeps its type, and a callback runs only for a promise that is
\* settled and bound.
TypeOK ==
    /\ form \in [Stages -> Forms] /\ (ends_void => form[N] \notin Finally)
    /\ lent \subseteq Stages /\ broken \subseteq Stages
    /\ ends_void \in BOOLEAN /\ in_binder \in BOOLEAN
    /\ outcome \in [Cells -> Outcomes \cup {None}]
    /\ bound \in [Cells -> BOOLEAN]
    /\ completed \subseteq Cells
    /\ at \in [Cells -> Places]
    /\ raised \in [Stages -> Outcomes \cup {None}]
    /\ built \in 0 .. N + 1
    /\ calls \in [Stages -> Seq(Functions)]
    /\ \A c \in Cells : at[c] # "none" => Settled(c) /\ bound[c]

\* At every stage either next or handler is called, as the promise before it was
\* settled, then the finalizer, once each, and the next promise is settled after
\* that and for good (promise.md: "calls either next or handler, always calls
\* finalizer").
BranchOf(k) == IF IsError(Link(k - 1)) THEN "handler" ELSE "next"
CalledInOrder ==
    \A k \in Stages :
        /\ calls[k] \in {<<>>, <<BranchOf(k)>>, <<BranchOf(k), "finalizer">>}
        /\ calls[k] # <<>> => Settled(Link(k - 1))
        /\ Settled(Link(k)) => Len(calls[k]) = 2

\* An error goes down the chain as it is until a handler is called for it, and
\* is replaced only by what a finalizer on the way throws (promise.md: "exception
\* thrown by finally takes priority").  finally() lets both values and errors pass.
\* One exception: the overload of then() that returns void, which can only end a
\* chain, takes an error that it has no handler for as handled (promise.tcc:199).
ErrorsPropagate ==
    \A k \in Stages : Settled(Link(k)) =>
        /\ k \in broken => outcome[Link(k)] = Error("finalizer", k)
        /\ IsError(Link(k - 1)) /\ "handler" \notin form[k] /\ k \notin broken =>
              \/ outcome[Link(k)] = outcome[Link(k - 1)]
              \/ EndsChain(k) /\ ~IsError(Link(k))
        /\ form[k] \in Finally /\ k \notin broken => outcome[Link(k)] = outcome[Link(k - 1)]
        /\ IsError(Link(k)) /\ outcome[Link(k)][2][2] < k =>
              "handler" \notin form[k] /\ k \notin broken /\ outcome[Link(k)] = outcome[Link(k - 1)]

\* A callback is left by an exception, and its promise never completed, only
\* when an error has reached the end of the chain, and then none above it that
\* is still in a call completes either.
AbandonedOnlyByUnhandled ==
    \A k \in 0 .. N : at[Link(k)] = "thrown" =>
        /\ IsError(Link(N))
        /\ at[Link(N)] = "thrown"
        /\ \A j \in k .. N : Link(j) \notin completed

\* The whole chain ends: every promise is completed, except those that an
\* unhandled error went through, and the one that next or handler returned when
\* the finalizer then threw.
Owed(c) ==
    /\ Settled(c) /\ c \notin completed
    /\ at[c] # "thrown"
    /\ \A k \in broken : c # Inner(k)
ChainEnds == <>[](at[Link(N)] \in {"done", "thrown"} /\ \A c \in Cells : ~Owed(c))
=============================================================================
