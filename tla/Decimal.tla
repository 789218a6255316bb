------------------------------ MODULE Decimal ------------------------------
(***************************************************************************)
(* Natural numbers as vectors of digits, least significant first, without  *)
(* leading zeros.  The operators are the members of class decimal; the     *)
(* actions assign to one variable of that type, and the history variable   *)
(* value is the number that it should stand for.                           *)
(*                                                                         *)
(* digits[i] of the code is digits[i + 1] here.                            *)
(***************************************************************************)
EXTENDS Integers, Sequences, FiniteSetsExt

CONSTANTS
    Base,           \* 10 in the code
    MaxValue,       \* bound: no larger number is computed
    MaxOperand,     \* bound: no larger number is assigned, or used as an operand
    MaxPadding,     \* bound: leading zeros of a string
    MaxFactorial,   \* bound: no factorial of a larger number
    Cores,          \* std::thread::hardware_concurrency()
    Chunk           \* digits that are worth a worker of their own: 1000

ASSUME NumbersAssumption ==
    /\ Base \in Nat \ {0, 1}
    /\ Chunk \in Nat \ {0}
    /\ {MaxValue, MaxOperand, MaxPadding, MaxFactorial, Cores} \subseteq Nat

VARIABLES
    digits,         \* decimal::digits
    value,          \* history: the number computed so far
    spoilt,         \* history: a subtraction has failed since it was assigned
    job             \* parallel_multiply: the workers that have not added yet

vars == <<digits, value, spoilt, job>>

Digits == 0 .. Base - 1
Zero == <<0>>
One == <<1>>
Zeros(n) == [i \in 1 .. n |-> 0]
IsZero(d) == d = Zero
IsUnity(d) == d = One
NonZero(d) == ~IsZero(d)

\* the const operator []: zero past the end
At(d, i) == IF i < Len(d) THEN d[i + 1] ELSE 0

Longer(a, b) == IF Len(a) >= Len(b) THEN Len(a) ELSE Len(b)

RemoveLz(d) ==
    LET nonzero == {i \in DOMAIN d : d[i] # 0}
    IN  IF nonzero = {} THEN Zero ELSE SubSeq(d, 1, Max(nonzero))

Power[n \in Nat] == IF n = 0 THEN 1 ELSE Base * Power[n - 1]

\* the numbers that the lowest digits stand for
Low(d) ==
    LET low[n \in Nat] == IF n = 0 THEN 0 ELSE low[n - 1] + At(d, n - 1) * Power[n - 1]
    IN  low

ValueOf(d) == Low(d)[Len(d)]

-----------------------------------------------------------------------------
(* Conversions.                                                             *)

FromInteger(n) ==
    LET reduce[v \in 0 .. n] == IF v = 0 THEN <<>> ELSE <<v % Base>> \o reduce[v \div Base]
    IN  IF n = 0 THEN Zero ELSE reduce[n]

Overflow == -1

\* mutant of ToInteger: the digit to come is not taken into account
ToIntegerLax(d, max) ==
    LET read[k \in 0 .. Len(d)] ==
            IF k = 0 THEN 0
            ELSE LET r == read[k - 1]
                     digit == At(d, Len(d) - k)
                 IN  IF r = Overflow \/ max \div Base < r THEN Overflow ELSE r * Base + digit
    IN  read[Len(d)]

\* r after each digit, from the most significant one
ToInteger(d, max) ==
    LET read[k \in 0 .. Len(d)] ==
            IF k = 0 THEN 0
            ELSE LET r == read[k - 1]
                     digit == At(d, Len(d) - k)
                 IN  IF r = Overflow \/ (max - digit) \div Base < r THEN Overflow
                     ELSE r * Base + digit
    IN  read[Len(d)]

\* Texts are sequences of digits and commas, most significant first.
Comma == -1

\* the text of the lowest digits, of one more each time
ToText(d) ==
    LET text[i \in 0 .. Len(d)] ==
            IF i = 0 THEN <<>>
            ELSE IF i > 1 /\ (i - 1) % 3 = 0 THEN <<At(d, i - 1), Comma>> \o text[i - 1]
            ELSE <<At(d, i - 1)>> \o text[i - 1]
    IN  text[Len(d)]

\* the digits after each character, from the last one on
Reading(text) ==
    LET read[i \in 0 .. Len(text)] ==
            IF i = 0 THEN <<>>
            ELSE LET c == text[Len(text) - i + 1]
                 IN  IF c = Comma THEN read[i - 1] ELSE Append(read[i - 1], c)
    IN  read

FromText(text) == RemoveLz(Reading(text)[Len(text)])

-----------------------------------------------------------------------------
(* Addition and subtraction.                                                *)

\* the carry into each digit of a + b
Carries(a, b, w) ==
    LET carry[i \in 0 .. w] ==
            IF i = 0 THEN 0
            ELSE IF At(a, i - 1) + At(b, i - 1) + carry[i - 1] >= Base THEN 1 ELSE 0
    IN  carry

Sum(a, b) ==
    LET w == Longer(a, b)
        carry == Carries(a, b, w)
        low == [i \in 1 .. w |-> (At(a, i - 1) + At(b, i - 1) + carry[i - 1]) % Base]
    IN  IF carry[w] = 1 THEN Append(low, 1) ELSE low

Plus(a, b) ==
    IF IsZero(a) THEN b
    ELSE IF IsZero(b) THEN a
    ELSE Sum(a, b)

\* the borrow from each digit of a - b
Borrows(a, b) ==
    LET borrow[i \in 0 .. Len(a)] ==
            IF i = 0 THEN 0
            ELSE IF At(a, i - 1) - At(b, i - 1) - borrow[i - 1] < 0 THEN 1 ELSE 0
    IN  borrow

\* mutant of Difference: a negative digit is not given what was borrowed
DifferenceBelow(a, b) ==
    [i \in 1 .. Len(a) |-> At(a, i - 1) - At(b, i - 1) - Borrows(a, b)[i - 1]]

\* what the digits are when the loop ends
Difference(a, b) ==
    [i \in 1 .. Len(a) |-> (At(a, i - 1) - At(b, i - 1) - Borrows(a, b)[i - 1]) % Base]

LastBorrow(a, b) == Borrows(a, b)[Len(a)]
Minus(a, b) == IF IsZero(b) THEN a ELSE RemoveLz(Difference(a, b))

-----------------------------------------------------------------------------
(* Multiplication.                                                          *)

\* the carry into each digit of b * ad
RowCarries(b, ad) ==
    LET carry[j \in 0 .. Len(b)] ==
            IF j = 0 THEN 0 ELSE (At(b, j - 1) * ad + carry[j - 1]) \div Base
    IN  carry

\* b * ad, shifted by i digits: the inner loop
Row(b, ad, i) ==
    LET carry == RowCarries(b, ad)
        row == Zeros(i) \o [j \in 1 .. Len(b) |-> (At(b, j - 1) * ad + carry[j - 1]) % Base]
    IN  IF carry[Len(b)] # 0 THEN Append(row, carry[Len(b)]) ELSE row

\* the digits of a from begin to end - 1, times b
PartialProduct(a, b, begin, end) ==
    LET c[k \in 0 .. end - begin] ==
            IF k = 0 THEN Zeros(Len(a) + Len(b))
            ELSE LET i == begin + k - 1
                 IN  IF At(a, i) = 0 THEN c[k - 1] ELSE Plus(c[k - 1], Row(b, At(a, i), i))
    IN  c[end - begin]

Shorter(a, b) == IF Len(a) <= Len(b) THEN a ELSE b
Other(a, b) == IF Len(a) > Len(b) THEN a ELSE b

Times(l, r) ==
    LET a == Shorter(l, r)
        b == Other(l, r)
    IN  IF IsZero(a) THEN Zero
        ELSE IF IsUnity(a) THEN b
        ELSE RemoveLz(PartialProduct(a, b, 0, Len(a)))

\* r and i of the loop after each of its rounds, which are fewer than x
Factorial(x) ==
    LET loop[n \in 0 .. ValueOf(x)] ==
            IF n = 0 THEN <<x, Minus(x, One)>>
            ELSE LET r == loop[n - 1][1]
                     i == loop[n - 1][2]
                 IN  IF IsUnity(i) THEN <<r, i>> ELSE <<Times(r, i), Minus(i, One)>>
    IN  IF IsZero(x) \/ IsUnity(x) THEN One ELSE loop[ValueOf(x)][1]

-----------------------------------------------------------------------------
(* Comparison.                                                              *)

Sign(n) == IF n > 0 THEN 1 ELSE IF n < 0 THEN -1 ELSE 0

\* mutant of RelationTo: the least significant difference decides
RelationToLow(a, b) ==
    IF Len(a) # Len(b) THEN Sign(Len(a) - Len(b))
    ELSE LET differ == {i \in DOMAIN a : a[i] # b[i]}
         IN  IF differ = {} THEN 0 ELSE Sign(a[Min(differ)] - b[Min(differ)])

RelationTo(a, b) ==
    IF Len(a) # Len(b) THEN Sign(Len(a) - Len(b))
    ELSE LET differ == {i \in DOMAIN a : a[i] # b[i]}
         IN  IF differ = {} THEN 0 ELSE Sign(a[Max(differ)] - b[Max(differ)])

Equal(a, b) == a = b
Unequal(a, b) == ~Equal(a, b)
Greater(a, b) == RelationTo(a, b) > 0
GreaterOrEqual(a, b) == RelationTo(a, b) >= 0
Less(a, b) == RelationTo(a, b) < 0
LessOrEqual(a, b) == RelationTo(a, b) <= 0

-----------------------------------------------------------------------------
(* One variable.                                                            *)

NoJob == [a |-> <<>>, b |-> <<>>, product |-> 0, result |-> <<>>, workers |-> {}]
Numbers == 0 .. MaxOperand

Init ==
    /\ digits = Zero
    /\ value = 0
    /\ spoilt = FALSE
    /\ job = NoJob

Idle == job = NoJob

\* d, which should be n, is assigned; nothing larger than the bound
Becomes(d, n) ==
    /\ Idle
    /\ n <= MaxValue
    /\ digits' = d
    /\ value' = n
    /\ UNCHANGED job

AssignInteger(n) == Becomes(FromInteger(n), n) /\ spoilt' = FALSE

AssignText(n, padding) ==
    /\ Becomes(FromText(Zeros(padding) \o ToText(FromInteger(n))), n)
    /\ spoilt' = FALSE

\* ++x is x += 1
AddAssign(b, n) == Becomes(Plus(digits, b), value + n) /\ UNCHANGED spoilt

Fits(b) == IsZero(b) \/ (Len(b) <= Len(digits) /\ LastBorrow(digits, b) = 0)

\* --x is x -= 1
SubtractAssign(b, n) ==
    /\ Fits(b)
    /\ Becomes(Minus(digits, b), value - n)
    /\ UNCHANGED spoilt

\* -= throws before or after the loop; in the second case the digits have been
\* overwritten, as if there had been one more to borrow from
SubtractUnderflows(b, n) ==
    /\ ~Fits(b)
    /\ IF Len(b) > Len(digits) THEN Idle /\ UNCHANGED vars
       ELSE /\ Becomes(Difference(digits, b), Power[Len(digits)] + value - n)
            /\ spoilt' = TRUE

MultiplyAssign(b, n) == Becomes(Times(digits, b), value * n) /\ UNCHANGED spoilt

FactorialOf[n \in Nat] == IF n = 0 THEN 1 ELSE n * FactorialOf[n - 1]

\* the loop ends at a normalised 1, so a spoilt variable is not given to it
AssignFactorial ==
    /\ ~spoilt
    /\ value <= MaxFactorial
    /\ Becomes(Factorial(digits), FactorialOf[value])
    /\ UNCHANGED spoilt

-----------------------------------------------------------------------------
(* x = parallel_multiply(x, b): the workers add their partial products to   *)
(* the result under a mutex, in any order; the caller waits for all.        *)

Workers(a) == LET chunks == Len(a) \div Chunk IN IF Cores < chunks THEN Cores ELSE chunks

\* mutant of EndOf: the last digit of each range is left out
EndOfShort(a, worker) == (Len(a) * (worker + 1)) \div Workers(a) - 1
BeginOf(a, worker) == (Len(a) * worker) \div Workers(a)
EndOf(a, worker) == (Len(a) * (worker + 1)) \div Workers(a)

InParallel(a) == ~IsZero(a) /\ ~IsUnity(a) /\ Workers(a) > 0

\* without workers it is the product of the operator *
ParallelMultiplyAlone(b, n) ==
    /\ ~InParallel(Shorter(digits, b))
    /\ Becomes(Times(digits, b), value * n)
    /\ UNCHANGED spoilt

ParallelMultiply(b, n) ==
    LET a == Shorter(digits, b)
    IN  /\ InParallel(a)
        /\ Idle
        /\ value * n <= MaxValue
        /\ job' = [a |-> a, b |-> Other(digits, b), product |-> value * n,
                   result |-> Zeros(Len(digits) + Len(b)), workers |-> 0 .. Workers(a) - 1]
        /\ UNCHANGED <<digits, value, spoilt>>

WorkerAdds(worker) ==
    LET part == PartialProduct(job.a, job.b, BeginOf(job.a, worker), EndOf(job.a, worker))
    IN  job' = [job EXCEPT !.result = Plus(@, part), !.workers = @ \ {worker}]

WorkerStep ==
    /\ ~Idle
    /\ \E worker \in job.workers : WorkerAdds(worker)
    /\ UNCHANGED <<digits, value, spoilt>>

ParallelMultiplyReturns ==
    /\ ~Idle
    /\ job.workers = {}
    /\ digits' = RemoveLz(job.result)
    /\ value' = job.product
    /\ job' = NoJob
    /\ UNCHANGED spoilt

\* the operand is another number, or the variable itself
Operation(b, n) ==
    \/ AddAssign(b, n)
    \/ SubtractAssign(b, n)
    \/ SubtractUnderflows(b, n)
    \/ MultiplyAssign(b, n)
    \/ ParallelMultiplyAlone(b, n)
    \/ ParallelMultiply(b, n)

Next ==
    \/ \E n \in Numbers : AssignInteger(n)
    \/ \E n \in Numbers, padding \in 0 .. MaxPadding : AssignText(n, padding)
    \/ \E n \in Numbers : Operation(FromInteger(n), n)
    \/ Operation(digits, value)
    \/ AssignFactorial
    \/ WorkerStep
    \/ ParallelMultiplyReturns

Spec == Init /\ [][Next]_vars

-----------------------------------------------------------------------------
(* Properties.                                                              *)

\* Every variable keeps its type; there is always a digit.
TypeOK ==
    /\ digits \in Seq(Digits) /\ digits # <<>>
    /\ value \in 0 .. MaxValue
    /\ spoilt \in BOOLEAN
    /\ job.result \in Seq(Digits)

\* After any sequence of operations, with themselves as operands or not, the
\* digits stand for the number that the natural numbers give, also when a
\* subtraction has failed half way (one more digit has been borrowed from).
\* Unless one has, they are in normal form, without leading zeros, which ==, the
\* comparisons and isZero() rely on, and a subtraction will fail exactly when
\* the operand is the greater one.
ComputesRight ==
    /\ ValueOf(digits) = value
    /\ ~spoilt => /\ digits = FromInteger(value)
                  /\ \A n \in Numbers : Fits(FromInteger(n)) <=> value >= n

\* Every comparison operator, and the conversion to bool, agrees with the numbers
\* that the digits stand for, relation_to() on either side of it.
ComparesRight ==
    ~spoilt =>
        /\ NonZero(digits) <=> value # 0
        /\ \A n \in Numbers :
              LET b == FromInteger(n)
              IN  /\ Equal(digits, b) <=> value = n
                  /\ Unequal(digits, b) <=> value # n
                  /\ Greater(digits, b) <=> value > n
                  /\ GreaterOrEqual(digits, b) <=> value >= n
                  /\ Less(digits, b) <=> value < n
                  /\ LessOrEqual(digits, b) <=> value <= n
                  /\ RelationTo(b, digits) = Sign(n - value)

\* A conversion to a fixed-width type, whatever its maximum is, yields the number
\* or throws, and throws only when it does not fit; a text reads back as the
\* number it was written from.
ConvertsRight ==
    /\ \A max \in Base .. MaxValue :
          ToInteger(digits, max) = IF value <= max THEN value ELSE Overflow
    /\ ~spoilt => FromText(ToText(digits)) = digits
=============================================================================
