--------------------------- MODULE DecimalProofs ---------------------------
(***************************************************************************)
(* What decimal computes, compares and converts is right, for every base,  *)
(* every number and every order of the workers.                            *)
(*                                                                         *)
(* The code is a set of loops over digits; the operators of Decimal are    *)
(* recursive functions over positions.  A loop is proved by relating the   *)
(* value of the digits below a position to the carry into it: Low(d)[i].   *)
(***************************************************************************)
EXTENDS Decimal, FiniteSetTheorems, WellFoundedInduction, SequenceTheorems, TLAPS

(* Induction, from the well-foundedness of strict inclusion.                *)

\* A set that contains 0 and the successor of each of its numbers contains all.
LEMMA SetInduction ==
    ASSUME NEW S, 0 \in S, \A n \in Nat : n \in S => n + 1 \in S
    PROVE  Nat \subseteq S
<1> SUFFICES ASSUME NEW n \in Nat, n \notin S PROVE FALSE
    OBVIOUS
<1> DEFINE Bad == {m \in 0 .. n : m \notin S}
           Segments == {0 .. m : m \in Bad}
           R == StrictSubsetOrdering(0 .. n)
<1>1. Segments \subseteq FiniteSubsetsOf(0 .. n)
    <2>1. \A m \in 0 .. n : 0 .. m \in SUBSET (0 .. n)
        OBVIOUS
    <2>2. \A m \in 0 .. n : IsFiniteSet(0 .. m)
        BY FS_Interval
    <2> QED BY <2>1, <2>2 DEF FiniteSubsetsOf
<1>2. 0 .. n \in Segments
    OBVIOUS
<1>3. IsWellFoundedOn(R, FiniteSubsetsOf(0 .. n))
    BY FS_StrictSubsetOrderingWellFounded
<1>4. \E x \in Segments : \A y \in Segments : ~ (<<y, x>> \in R)
    <2> HIDE DEF Segments, R
    <2>1. Segments # {} BY <1>2
    <2> QED BY <1>1, <1>3, <2>1, WFMin
<1>5. PICK m \in Bad : \A k \in Bad : ~ (<<0 .. k, 0 .. m>> \in R)
    BY <1>4
<1>6. m - 1 \in Bad
    OBVIOUS
<1>7. <<0 .. m - 1, 0 .. m>> \in R
    <2>1. 0 .. m - 1 \in SUBSET (0 .. n) /\ 0 .. m \in SUBSET (0 .. n)
        OBVIOUS
    <2>2. 0 .. m - 1 \subseteq 0 .. m /\ m \in 0 .. m /\ m \notin 0 .. m - 1
        OBVIOUS
    <2>3. 0 .. m - 1 # 0 .. m
        BY <2>2
    <2> QED BY <2>1, <2>2, <2>3 DEF StrictSubsetOrdering
<1> QED BY <1>5, <1>6, <1>7

\* The same, with all smaller numbers as the hypothesis.
LEMMA StrongInduction ==
    ASSUME NEW S, \A n \in Nat : (\A k \in 0 .. n - 1 : k \in S) => n \in S
    PROVE  Nat \subseteq S
<1> DEFINE T == {n \in Nat : \A k \in 0 .. n - 1 : k \in S}
<1>1. 0 \in T
    OBVIOUS
<1>2. ASSUME NEW n \in Nat, n \in T PROVE n + 1 \in T
    <2>1. n \in S
        BY <1>2
    <2>2. \A k \in 0 .. n : k = n \/ k \in 0 .. n - 1
        OBVIOUS
    <2>3. \A k \in 0 .. n : k \in S
        BY <1>2, <2>1, <2>2
    <2> QED BY <2>3
<1>3. Nat \subseteq T
    <2> HIDE DEF T
    <2> QED BY <1>1, <1>2, SetInduction
<1> QED BY <1>3

(* Recursion: what a recursive definition of a function stands for exists.  *)

Solvable(n, S, c, before, step) ==
    \E g \in [0 .. n -> S] : g[0] = c /\ \A i \in 1 .. n : g[i] = step[i][g[before[i]]]

\* Each value depends on one before it.
LEMMA Recursion ==
    ASSUME NEW n \in Nat, NEW S, NEW c \in S,
           NEW before, \A i \in 1 .. n : before[i] \in 0 .. i - 1,
           NEW step, \A i \in 1 .. n : \A x \in S : step[i][x] \in S
    PROVE  Solvable(n, S, c, before, step)
<1> DEFINE Good(g, m) == g[0] = c /\ \A i \in 1 .. m : g[i] = step[i][g[before[i]]]
           T == {m \in Nat : m <= n => \E g \in [0 .. m -> S] : Good(g, m)}
<1>1. 0 \in T
    <2> DEFINE g == [i \in 0 .. 0 |-> c]
    <2>1. g \in [0 .. 0 -> S] /\ Good(g, 0)
        OBVIOUS
    <2> QED BY <2>1
<1>2. ASSUME NEW m \in Nat, m \in T PROVE m + 1 \in T
    <2> SUFFICES ASSUME m + 1 <= n PROVE \E g \in [0 .. m + 1 -> S] : Good(g, m + 1)
        OBVIOUS
    <2>1. PICK g \in [0 .. m -> S] : Good(g, m)
        BY <1>2
    <2> DEFINE x == step[m + 1][g[before[m + 1]]]
               h == [i \in 0 .. m + 1 |-> IF i = m + 1 THEN x ELSE g[i]]
    <2>2. before[m + 1] \in 0 .. m /\ x \in S
        OBVIOUS
    <2>3. h \in [0 .. m + 1 -> S] /\ h[m + 1] = x /\ \A i \in 0 .. m : h[i] = g[i]
        <3> HIDE DEF x
        <3> QED BY <2>2
    <2>4. \A i \in 1 .. m + 1 : h[i] = step[i][h[before[i]]]
        <3>1. \A i \in 1 .. m + 1 : before[i] \in 0 .. m
            OBVIOUS
        <3>2. \A i \in 1 .. m + 1 : i = m + 1 \/ i \in 1 .. m
            OBVIOUS
        <3> HIDE DEF h
        <3> QED BY <3>1, <3>2, <2>3, <2>1
    <2>5. Good(h, m + 1)
        <3> HIDE DEF h
        <3> QED BY <2>1, <2>3, <2>4
    <2> HIDE DEF h, Good
    <2> QED BY <2>3, <2>5
<1>3. n \in T
    <2> HIDE DEF T
    <2> QED BY <1>1, <1>2, SetInduction
<1> QED BY <1>3 DEF Solvable

Iterable(n, S, c, step) ==
    \E g \in [0 .. n -> S] : g[0] = c /\ \A i \in 1 .. n : g[i] = step[i][g[i - 1]]

\* Each value depends on the one before it.
LEMMA Iteration ==
    ASSUME NEW n \in Nat, NEW S, NEW c \in S, NEW step \in [1 .. n -> [S -> S]]
    PROVE  Iterable(n, S, c, step)
<1> DEFINE before == [i \in 1 .. n |-> i - 1]
<1>1. \A i \in 1 .. n : before[i] \in 0 .. i - 1 /\ before[i] = i - 1
    OBVIOUS
<1>2. \A i \in 1 .. n : \A x \in S : step[i][x] \in S
    OBVIOUS
<1> HIDE DEF before
<1>3. Solvable(n, S, c, before, step)
    BY <1>1, <1>2, Recursion
<1>4. PICK g \in [0 .. n -> S] : g[0] = c /\ \A i \in 1 .. n : g[i] = step[i][g[before[i]]]
    BY <1>3 DEF Solvable
<1>5. \A i \in 1 .. n : g[i] = step[i][g[i - 1]]
    BY <1>1, <1>4
<1> QED BY <1>4, <1>5, Zenon DEF Iterable

Endless(S, c, step) ==
    \E g \in [Nat -> S] : g[0] = c /\ \A i \in Nat : g[i + 1] = step[i][g[i]]

\* The same without an end.
LEMMA EndlessIteration ==
    ASSUME NEW S, NEW c \in S, NEW step \in [Nat -> [S -> S]]
    PROVE  Endless(S, c, step)
<1> DEFINE Good(g, n) == /\ g \in [0 .. n -> S]
                         /\ g[0] = c
                         /\ \A i \in 0 .. n - 1 : g[i + 1] = step[i][g[i]]
           part(n) == CHOOSE g : Good(g, n)
           whole == [n \in Nat |-> part(n)[n]]
<1>1. ASSUME NEW n \in Nat PROVE \E g : Good(g, n)
    <2> DEFINE next == [i \in 1 .. n |-> step[i - 1]]
    <2>1. next \in [1 .. n -> [S -> S]] /\ \A i \in 1 .. n : next[i] = step[i - 1]
        OBVIOUS
    <2> HIDE DEF next
    <2>2. PICK g \in [0 .. n -> S] : g[0] = c /\ \A i \in 1 .. n : g[i] = next[i][g[i - 1]]
        <3>1. Iterable(n, S, c, next)
            BY <2>1, Iteration
        <3> QED BY <3>1 DEF Iterable
    <2>3. \A i \in 0 .. n - 1 : g[i + 1] = step[i][g[i]]
        <3> SUFFICES ASSUME NEW i \in 0 .. n - 1 PROVE g[i + 1] = step[i][g[i]]
            OBVIOUS
        <3>1. i + 1 \in 1 .. n /\ (i + 1) - 1 = i
            OBVIOUS
        <3>2. g[i + 1] = next[i + 1][g[(i + 1) - 1]]
            BY <3>1, <2>2
        <3>3. next[i + 1] = step[(i + 1) - 1]
            BY <3>1, <2>1
        <3> QED BY <3>1, <3>2, <3>3
    <2> QED BY <2>2, <2>3
<1>2. \A n \in Nat : Good(part(n), n)
    <2> HIDE DEF Good
    <2> QED BY <1>1, Zenon
<1>3. \A n \in Nat : /\ part(n) \in [0 .. n -> S]
                     /\ part(n)[0] = c
                     /\ \A i \in 0 .. n - 1 : part(n)[i + 1] = step[i][part(n)[i]]
    <2> HIDE DEF part
    <2> QED BY <1>2
<1> HIDE DEF Good, part
<1>4. ASSUME NEW n \in Nat PROVE part(n + 1)[n] = part(n)[n]
    <2> DEFINE T == {i \in Nat : i <= n => part(n + 1)[i] = part(n)[i]}
    <2>1. 0 \in T
        BY <1>3
    <2>2. ASSUME NEW i \in Nat, i \in T PROVE i + 1 \in T
        <3> SUFFICES ASSUME i + 1 <= n PROVE part(n + 1)[i + 1] = part(n)[i + 1]
            OBVIOUS
        <3>1. i \in 0 .. n - 1 /\ i \in 0 .. (n + 1) - 1 /\ part(n + 1)[i] = part(n)[i]
            BY <2>2
        <3> QED BY <3>1, <1>3
    <2>3. n \in T
        <3> HIDE DEF T
        <3> QED BY <2>1, <2>2, SetInduction
    <2> QED BY <2>3
<1>5. whole \in [Nat -> S] /\ whole[0] = c
    BY <1>3
<1>6. ASSUME NEW n \in Nat PROVE whole[n + 1] = step[n][whole[n]]
    <2>1. part(n + 1)[n + 1] = step[n][part(n + 1)[n]]
        <3>1. n + 1 \in Nat /\ n \in 0 .. (n + 1) - 1
            OBVIOUS
        <3> QED BY <3>1, <1>3
    <2>2. whole[n + 1] = part(n + 1)[n + 1] /\ whole[n] = part(n)[n]
        OBVIOUS
    <2> QED BY <2>1, <2>2, <1>4
<1> HIDE DEF whole
<1> QED BY <1>5, <1>6 DEF Endless

\* A set of positive numbers that is bounded has a greatest one.
LEMMA Greatest ==
    ASSUME NEW n \in Nat, NEW T \in SUBSET (1 .. n), T # {}
    PROVE  Max(T) \in T /\ \A i \in T : i <= Max(T)
<1> DEFINE Topped(U) == \E x \in U : \A y \in U : x >= y
           S == {m \in Nat : \A U \in SUBSET (1 .. m) : U # {} => Topped(U)}
<1>1. 0 \in S
    <2>1. \A U \in SUBSET (1 .. 0) : U = {}
        OBVIOUS
    <2> QED BY <2>1
<1>2. ASSUME NEW m \in Nat, m \in S PROVE m + 1 \in S
    <2> SUFFICES ASSUME NEW U \in SUBSET (1 .. m + 1), U # {} PROVE Topped(U)
        OBVIOUS
    <2>1. CASE m + 1 \in U
        BY <2>1
    <2>2. CASE m + 1 \notin U
        <3>1. \A k \in U : k \in 1 .. m
            BY <2>2
        <3> HIDE DEF Topped
        <3> QED BY <3>1, <1>2
    <2> QED BY <2>1, <2>2
<1>3. n \in S
    <2> HIDE DEF S
    <2> QED BY <1>1, <1>2, SetInduction
<1>4. \E x \in T : \A y \in T : x >= y
    BY <1>3
<1>5. Max(T) \in T /\ \A y \in T : Max(T) >= y
    BY <1>4, Zenon DEF Max
<1> QED BY <1>5

-----------------------------------------------------------------------------
(* Digits and the numbers that they stand for.                              *)

Numerals == {d \in Seq(Digits) : d # <<>>}

LEMMA BaseType == Base \in Nat /\ Base > 1
BY NumbersAssumption

LEMMA NumeralType ==
    ASSUME NEW d \in Numerals
    PROVE  /\ d \in Seq(Digits)
           /\ Len(d) \in Nat \ {0}
           /\ DOMAIN d = 1 .. Len(d)
           /\ \A i \in 1 .. Len(d) : d[i] \in Digits
<1>1. d \in Seq(Digits) /\ d # <<>>
    BY DEF Numerals
<1>2. Len(d) # 0
    BY <1>1, EmptySeq
<1> QED BY <1>1, <1>2

LEMMA DigitType ==
    ASSUME NEW d \in Numerals, NEW i \in Nat
    PROVE  At(d, i) \in Nat /\ At(d, i) < Base
<1>1. CASE i < Len(d)
    <2>1. i + 1 \in 1 .. Len(d)
        BY <1>1, NumeralType
    <2>2. d[i + 1] \in Digits
        BY <2>1, NumeralType
    <2> QED BY <1>1, <2>2, BaseType DEF At, Digits
<1>2. CASE ~ (i < Len(d))
    BY <1>2, BaseType DEF At
<1> QED BY <1>1, <1>2

LEMMA PowerFacts ==
    /\ Power \in [Nat -> Nat \ {0}]
    /\ Power[0] = 1
    /\ \A n \in Nat : Power[n + 1] = Base * Power[n]
<1> DEFINE S == Nat \ {0}
           step == [i \in Nat |-> [x \in S |-> Base * x]]
           Eq(f) == f = [n \in Nat |-> IF n = 0 THEN 1 ELSE Base * f[n - 1]]
<1>1. \A x \in S : Base * x \in S
    BY BaseType
<1>2. step \in [Nat -> [S -> S]] /\ \A i \in Nat : \A x \in S : step[i][x] = Base * x
    BY <1>1
<1>3. 1 \in S
    OBVIOUS
<1> HIDE DEF step, S
<1>4. Endless(S, 1, step)
    BY <1>2, <1>3, EndlessIteration
<1>5. PICK g \in [Nat -> S] : g[0] = 1 /\ \A i \in Nat : g[i + 1] = step[i][g[i]]
    BY <1>4 DEF Endless
<1>6. \A n \in Nat : g[n] = IF n = 0 THEN 1 ELSE Base * g[n - 1]
    <2> SUFFICES ASSUME NEW n \in Nat, n # 0 PROVE g[n] = Base * g[n - 1]
        BY <1>5
    <2>1. n - 1 \in Nat /\ (n - 1) + 1 = n
        OBVIOUS
    <2>2. g[n - 1] \in S
        BY <2>1
    <2> QED BY <2>1, <2>2, <1>2, <1>5
<1>7. Eq(g)
    BY <1>6
<1>8. Eq(Power)
    BY <1>7, Zenon DEF Power
<1>9. \A n \in Nat : Power[n] = IF n = 0 THEN 1 ELSE Base * Power[n - 1]
    BY <1>8
<1>10. Power[0] = 1 /\ \A n \in Nat : Power[n + 1] = Base * Power[n]
    BY <1>9
<1>11. \A n \in Nat : Power[n] \in S
    <2> DEFINE T == {n \in Nat : Power[n] \in S}
    <2>1. 0 \in T
        BY <1>3, <1>10
    <2>2. \A n \in Nat : n \in T => n + 1 \in T
        BY <1>1, <1>10 DEF S
    <2>3. Nat \subseteq T
        <3> HIDE DEF T
        <3> QED BY <2>1, <2>2, SetInduction
    <2> QED BY <2>3
<1>12. Power = [n \in Nat |-> Power[n]]
    BY <1>8
<1> QED BY <1>10, <1>11, <1>12 DEF S

LEMMA PowerType ==
    ASSUME NEW n \in Nat
    PROVE  Power[n] \in Nat /\ Power[n] > 0 /\ Power[n + 1] = Base * Power[n]
BY PowerFacts

LEMMA LowFacts ==
    ASSUME NEW d \in Numerals
    PROVE  /\ Low(d) \in [Nat -> Nat]
           /\ Low(d)[0] = 0
           /\ \A n \in Nat : Low(d)[n + 1] = Low(d)[n] + At(d, n) * Power[n]
<1> DEFINE step == [i \in Nat |-> [x \in Nat |-> x + At(d, i) * Power[i]]]
           Eq(f) == f = [n \in Nat |-> IF n = 0 THEN 0 ELSE f[n - 1] + At(d, n - 1) * Power[n - 1]]
<1>1. \A i \in Nat : At(d, i) * Power[i] \in Nat
    <2> SUFFICES ASSUME NEW i \in Nat PROVE At(d, i) * Power[i] \in Nat
        OBVIOUS
    <2>1. At(d, i) \in Nat /\ Power[i] \in Nat
        BY DigitType, PowerType
    <2> QED BY <2>1
<1>2. step \in [Nat -> [Nat -> Nat]]
      /\ \A i \in Nat : \A x \in Nat : step[i][x] = x + At(d, i) * Power[i]
    BY <1>1
<1> HIDE DEF step
<1>4. Endless(Nat, 0, step)
    BY <1>2, EndlessIteration
<1>5. PICK g \in [Nat -> Nat] : g[0] = 0 /\ \A i \in Nat : g[i + 1] = step[i][g[i]]
    BY <1>4 DEF Endless
<1>6. \A n \in Nat : g[n] = IF n = 0 THEN 0 ELSE g[n - 1] + At(d, n - 1) * Power[n - 1]
    <2> SUFFICES ASSUME NEW n \in Nat, n # 0
                 PROVE  g[n] = g[n - 1] + At(d, n - 1) * Power[n - 1]
        BY <1>5
    <2>1. n - 1 \in Nat /\ (n - 1) + 1 = n
        OBVIOUS
    <2>2. g[n - 1] \in Nat
        BY <2>1
    <2>3. g[n] = step[n - 1][g[n - 1]]
        BY <2>1, <1>5
    <2> QED BY <2>1, <2>2, <2>3, <1>2
<1>7. Eq(g)
    BY <1>6
<1>8. Eq(Low(d))
    BY <1>7, Zenon DEF Low
<1> HIDE DEF Eq
<1>9. Low(d) = [n \in Nat |-> IF n = 0 THEN 0 ELSE Low(d)[n - 1] + At(d, n - 1) * Power[n - 1]]
    BY <1>8 DEF Eq
<1>10. \A n \in Nat : Low(d)[n] = IF n = 0 THEN 0 ELSE Low(d)[n - 1] + At(d, n - 1) * Power[n - 1]
    <2> DEFINE F == Low(d)
    <2>1. F = [n \in Nat |-> IF n = 0 THEN 0 ELSE F[n - 1] + At(d, n - 1) * Power[n - 1]]
        BY <1>9
    <2> HIDE DEF F
    <2>2. \A n \in Nat : F[n] = IF n = 0 THEN 0 ELSE F[n - 1] + At(d, n - 1) * Power[n - 1]
        BY <2>1
    <2> QED BY <2>2 DEF F
<1>11. Low(d)[0] = 0 /\ \A n \in Nat : Low(d)[n + 1] = Low(d)[n] + At(d, n) * Power[n]
    BY <1>10
<1>12. \A n \in Nat : Low(d)[n] \in Nat
    <2> DEFINE T == {n \in Nat : Low(d)[n] \in Nat}
    <2>1. 0 \in T
        BY <1>11
    <2>2. \A n \in Nat : n \in T => n + 1 \in T
        BY <1>1, <1>11
    <2>3. Nat \subseteq T
        <3> HIDE DEF T
        <3> QED BY <2>1, <2>2, SetInduction
    <2> QED BY <2>3
<1>13. \E f : Low(d) = [n \in Nat |-> f[n]]
    <2> DEFINE f == [n \in Nat |-> IF n = 0 THEN 0 ELSE Low(d)[n - 1] + At(d, n - 1) * Power[n - 1]]
    <2>1. Low(d) = [n \in Nat |-> f[n]]
        BY <1>9
    <2> QED BY <2>1
<1> QED BY <1>11, <1>12, <1>13

LEMMA LowType ==
    ASSUME NEW d \in Numerals, NEW n \in Nat
    PROVE  Low(d)[n] \in Nat /\ Low(d)[n + 1] = Low(d)[n] + At(d, n) * Power[n]
BY LowFacts

\* The lowest n digits stand for less than Base^n.
LEMMA LowBound ==
    ASSUME NEW d \in Numerals, NEW n \in Nat
    PROVE  Low(d)[n] < Power[n]
<1> DEFINE T == {i \in Nat : Low(d)[i] < Power[i]}
<1>1. 0 \in T
    BY LowFacts, PowerFacts
<1>2. ASSUME NEW i \in Nat, i \in T PROVE i + 1 \in T
    <2> DEFINE l == Low(d)[i]
               x == At(d, i)
               p == Power[i]
    <2>1. l \in Nat /\ x \in Nat /\ p \in Nat /\ l < p /\ x < Base /\ p > 0
        BY <1>2, LowType, DigitType, PowerType
    <2>2. Low(d)[i + 1] = l + x * p /\ Power[i + 1] = Base * p
        BY LowType, PowerType
    <2> HIDE DEF l, x, p
    <2>3. l + x * p < Base * p
        <3>1. x * p + p <= Base * p
            <4>1. x + 1 <= Base
                BY <2>1, BaseType
            <4>2. (x + 1) * p <= Base * p
                BY <4>1, <2>1, BaseType
            <4>3. (x + 1) * p = x * p + p
                BY <2>1
            <4> QED BY <4>2, <4>3
        <3>2. x * p \in Nat /\ Base * p \in Nat
            BY <2>1, BaseType
        <3> QED BY <3>1, <3>2, <2>1
    <2> QED BY <2>2, <2>3
<1>3. n \in T
    <2> HIDE DEF T
    <2> QED BY <1>1, <1>2, SetInduction
<1> QED BY <1>3

\* Numerals whose digits below n are the same.
LEMMA LowSame ==
    ASSUME NEW d \in Numerals, NEW e \in Numerals, NEW n \in Nat,
           \A i \in 0 .. n - 1 : At(d, i) = At(e, i)
    PROVE  Low(d)[n] = Low(e)[n]
<1> DEFINE T == {i \in Nat : i <= n => Low(d)[i] = Low(e)[i]}
<1>1. 0 \in T
    BY LowFacts
<1>2. ASSUME NEW i \in Nat, i \in T PROVE i + 1 \in T
    <2> SUFFICES ASSUME i + 1 <= n PROVE Low(d)[i + 1] = Low(e)[i + 1]
        OBVIOUS
    <2>1. i \in 0 .. n - 1 /\ Low(d)[i] = Low(e)[i]
        BY <1>2
    <2>2. At(d, i) = At(e, i)
        BY <2>1
    <2> QED BY <2>1, <2>2, LowType
<1>3. n \in T
    <2> HIDE DEF T
    <2> QED BY <1>1, <1>2, SetInduction
<1> QED BY <1>3

\* Numerals whose digits from m to n - 1 are the same.
LEMMA HighSame ==
    ASSUME NEW d \in Numerals, NEW e \in Numerals, NEW m \in Nat, NEW n \in Nat, m <= n,
           \A i \in m .. n - 1 : At(d, i) = At(e, i)
    PROVE  Low(d)[n] - Low(d)[m] = Low(e)[n] - Low(e)[m]
<1> DEFINE T == {i \in Nat : m <= i /\ i <= n => Low(d)[i] - Low(d)[m] = Low(e)[i] - Low(e)[m]}
<1>1. 0 \in T
    <2>1. m = 0 \/ ~ (m <= 0)
        OBVIOUS
    <2> QED BY <2>1, LowType
<1>2. ASSUME NEW i \in Nat, i \in T PROVE i + 1 \in T
    <2> SUFFICES ASSUME m <= i + 1, i + 1 <= n
                 PROVE  Low(d)[i + 1] - Low(d)[m] = Low(e)[i + 1] - Low(e)[m]
        OBVIOUS
    <2>1. CASE m = i + 1
        BY <2>1, LowType
    <2>2. CASE m # i + 1
        <3>1. i \in m .. n - 1 /\ Low(d)[i] - Low(d)[m] = Low(e)[i] - Low(e)[m]
            BY <1>2, <2>2
        <3>2. At(d, i) = At(e, i)
            BY <3>1
        <3>3. /\ Low(d)[i] \in Nat /\ Low(e)[i] \in Nat /\ Low(d)[m] \in Nat /\ Low(e)[m] \in Nat
              /\ Low(d)[i + 1] = Low(d)[i] + At(d, i) * Power[i]
              /\ Low(e)[i + 1] = Low(e)[i] + At(e, i) * Power[i]
            BY LowType
        <3>4. At(d, i) * Power[i] \in Nat
            BY DigitType, PowerType
        <3> QED BY <3>1, <3>2, <3>3, <3>4
    <2> QED BY <2>1, <2>2
<1>3. n \in T
    <2> HIDE DEF T
    <2> QED BY <1>1, <1>2, SetInduction
<1> QED BY <1>3

\* There are only zeros from m on.
LEMMA LowAbove ==
    ASSUME NEW d \in Numerals, NEW m \in Nat, NEW n \in Nat, m <= n,
           \A i \in m .. n - 1 : At(d, i) = 0
    PROVE  Low(d)[n] = Low(d)[m]
<1> DEFINE T == {i \in Nat : m <= i /\ i <= n => Low(d)[i] = Low(d)[m]}
<1>1. 0 \in T
    OBVIOUS
<1>2. ASSUME NEW i \in Nat, i \in T PROVE i + 1 \in T
    <2> SUFFICES ASSUME m <= i + 1, i + 1 <= n PROVE Low(d)[i + 1] = Low(d)[m]
        OBVIOUS
    <2>1. CASE m = i + 1
        BY <2>1
    <2>2. CASE m # i + 1
        <3>1. i \in m .. n - 1 /\ Low(d)[i] = Low(d)[m]
            BY <1>2, <2>2
        <3>2. At(d, i) = 0
            BY <3>1
        <3> QED BY <3>1, <3>2, LowType, PowerType
    <2> QED BY <2>1, <2>2
<1>3. n \in T
    <2> HIDE DEF T
    <2> QED BY <1>1, <1>2, SetInduction
<1> QED BY <1>3

LEMMA LowIsValue ==
    ASSUME NEW d \in Numerals, NEW n \in Nat, Len(d) <= n
    PROVE  Low(d)[n] = ValueOf(d)
<1>1. \A i \in Len(d) .. n - 1 : At(d, i) = 0
    BY NumeralType DEF At
<1> QED BY <1>1, LowAbove, NumeralType DEF ValueOf

LEMMA ValueType ==
    ASSUME NEW d \in Numerals
    PROVE  ValueOf(d) \in Nat /\ ValueOf(d) < Power[Len(d)]
BY LowType, LowBound, NumeralType DEF ValueOf

LEMMA PowerGrows ==
    ASSUME NEW m \in Nat, NEW n \in Nat, m <= n
    PROVE  Power[m] <= Power[n]
<1> DEFINE T == {i \in Nat : m <= i => Power[m] <= Power[i]}
<1>1. 0 \in T
    BY PowerType
<1>2. ASSUME NEW i \in Nat, i \in T PROVE i + 1 \in T
    <2>1. Power[i] <= Power[i + 1]
        <3> DEFINE p == Power[i]
        <3>1. p \in Nat /\ Power[i + 1] = Base * p
            BY PowerType
        <3> HIDE DEF p
        <3>2. p <= Base * p
            BY <3>1, BaseType
        <3> QED BY <3>1, <3>2 DEF p
    <2>2. Power[m] \in Nat /\ Power[i] \in Nat /\ Power[i + 1] \in Nat
        BY PowerType
    <2> QED BY <1>2, <2>1, <2>2
<1>3. n \in T
    <2> HIDE DEF T
    <2> QED BY <1>1, <1>2, SetInduction
<1> QED BY <1>3

LEMMA PowerOfSum ==
    ASSUME NEW m \in Nat, NEW n \in Nat
    PROVE  Power[m + n] = Power[m] * Power[n]
<1> DEFINE T == {i \in Nat : Power[m + i] = Power[m] * Power[i]}
<1>1. 0 \in T
    BY PowerFacts, PowerType
<1>2. ASSUME NEW i \in Nat, i \in T PROVE i + 1 \in T
    <2> DEFINE p == Power[m]
               q == Power[i]
    <2>1. p \in Nat /\ q \in Nat /\ Power[m + i] = p * q /\ Power[i + 1] = Base * q
        BY <1>2, PowerType
    <2>2. Power[(m + i) + 1] = Base * (p * q)
        BY <2>1, PowerType
    <2>3. Base * (p * q) = p * (Base * q)
        <3> HIDE DEF p, q
        <3> QED BY <2>1, BaseType
    <2>4. (m + i) + 1 = m + (i + 1)
        OBVIOUS
    <2> QED BY <2>1, <2>2, <2>3, <2>4
<1>3. n \in T
    <2> HIDE DEF T
    <2> QED BY <1>1, <1>2, SetInduction
<1> QED BY <1>3

-----------------------------------------------------------------------------
Normal(d) == d \in Numerals /\ (Len(d) = 1 \/ d[Len(d)] # 0)

LEMMA NormalType == \A d : Normal(d) => d \in Numerals
BY DEF Normal

LEMMA SmallNumerals ==
    /\ Normal(Zero) /\ ValueOf(Zero) = 0
    /\ Normal(One) /\ ValueOf(One) = 1
<1>1. 0 \in Digits /\ 1 \in Digits
    BY BaseType DEF Digits
<1>2. Zero \in Seq(Digits) /\ One \in Seq(Digits)
    BY <1>1 DEF Zero, One
<1>3. /\ Len(Zero) = 1 /\ Zero[1] = 0 /\ Zero # <<>>
      /\ Len(One) = 1 /\ One[1] = 1 /\ One # <<>>
    BY DEF Zero, One
<1>4. Zero \in Numerals /\ One \in Numerals
    BY <1>2, <1>3 DEF Numerals
<1>5. \A d \in Numerals : Len(d) = 1 => ValueOf(d) = d[1]
    <2> SUFFICES ASSUME NEW d \in Numerals, Len(d) = 1 PROVE ValueOf(d) = d[1]
        OBVIOUS
    <2>1. Low(d)[0 + 1] = Low(d)[0] + At(d, 0) * Power[0]
        BY LowType
    <2>2. At(d, 0) = d[1] /\ d[1] \in Nat
        BY NumeralType DEF At, Digits
    <2> QED BY <2>1, <2>2, LowFacts, PowerFacts DEF ValueOf
<1> QED BY <1>3, <1>4, <1>5 DEF Normal

\* Leading zeros are all that is removed.
LEMMA RemoveLzFacts ==
    ASSUME NEW d \in Numerals
    PROVE  Normal(RemoveLz(d)) /\ ValueOf(RemoveLz(d)) = ValueOf(d)
<1> DEFINE nonzero == {i \in DOMAIN d : d[i] # 0}
           n == Max(nonzero)
           e == SubSeq(d, 1, n)
<1>1. CASE nonzero = {}
    <2>1. RemoveLz(d) = Zero
        BY <1>1, Zenon DEF RemoveLz
    <2>2. \A i \in 0 .. Len(d) - 1 : At(d, i) = 0
        <3> SUFFICES ASSUME NEW i \in 0 .. Len(d) - 1 PROVE At(d, i) = 0
            OBVIOUS
        <3>1. i + 1 \in DOMAIN d
            BY NumeralType
        <3> QED BY <3>1, <1>1 DEF At
    <2>3. ValueOf(d) = 0
        <3>1. Low(d)[Len(d)] = Low(d)[0]
            BY <2>2, LowAbove, NumeralType
        <3> QED BY <3>1, LowFacts DEF ValueOf
    <2> QED BY <2>1, <2>3, SmallNumerals
<1>2. CASE nonzero # {}
    <2>1. RemoveLz(d) = e
        BY <1>2, Zenon DEF RemoveLz
    <2>2. nonzero \subseteq 1 .. Len(d)
        BY NumeralType
    <2>3. n \in nonzero /\ \A i \in nonzero : i <= n
        <3> HIDE DEF nonzero
        <3> QED BY <1>2, <2>2, Greatest, NumeralType
    <2>4. n \in 1 .. Len(d) /\ d[n] # 0 /\ \A i \in n + 1 .. Len(d) : d[i] = 0
        <3> HIDE DEF n
        <3> QED BY <2>3, NumeralType
    <2> HIDE DEF n, nonzero
    <2>5. e \in Seq(Digits) /\ Len(e) = n /\ \A i \in 1 .. n : e[i] = d[i]
        BY <2>4, NumeralType
    <2>6. e \in Numerals
        BY <2>4, <2>5 DEF Numerals
    <2> HIDE DEF e
    <2>7. Normal(e)
        BY <2>4, <2>5, <2>6 DEF Normal
    <2>8. Low(d)[Len(d)] = Low(d)[n]
        <3>1. \A i \in n .. Len(d) - 1 : At(d, i) = 0
            BY <2>4, NumeralType DEF At
        <3> QED BY <3>1, <2>4, LowAbove, NumeralType
    <2>9. Low(d)[n] = Low(e)[n]
        <3>1. \A i \in 0 .. n - 1 : At(d, i) = At(e, i)
            BY <2>4, <2>5, NumeralType DEF At
        <3> QED BY <3>1, <2>4, <2>6, LowSame, NumeralType
    <2> QED BY <2>1, <2>5, <2>7, <2>8, <2>9 DEF ValueOf
<1> QED BY <1>1, <1>2

-----------------------------------------------------------------------------
(* Comparison, and the uniqueness of the normal form.                       *)

\* The more digits, the greater.
LEMMA LongerIsGreater ==
    ASSUME NEW a, NEW b, Normal(a), Normal(b), Len(a) < Len(b)
    PROVE  ValueOf(a) < ValueOf(b)
<1> DEFINE n == Len(b) - 1
<1>1. a \in Numerals /\ b \in Numerals /\ Len(a) \in Nat \ {0} /\ Len(b) \in Nat \ {0}
    BY NumeralType, NormalType
<1>2. n \in Nat /\ Len(a) <= n /\ n + 1 = Len(b)
    BY <1>1
<1>3. At(b, n) \in Nat /\ At(b, n) # 0
    <2>1. b[Len(b)] # 0
        BY <1>1 DEF Normal
    <2>2. At(b, n) = b[n + 1]
        BY <1>2 DEF At
    <2> QED BY <1>1, <1>2, <2>1, <2>2, DigitType
<1>4. ValueOf(b) = Low(b)[n] + At(b, n) * Power[n] /\ Low(b)[n] \in Nat
    BY <1>1, <1>2, LowType DEF ValueOf
<1>5. Power[n] <= At(b, n) * Power[n]
    <2> DEFINE x == At(b, n)
               p == Power[n]
    <2>1. x \in Nat /\ x # 0 /\ p \in Nat
        BY <1>2, <1>3, PowerType
    <2> HIDE DEF x, p
    <2>2. p <= x * p
        BY <2>1
    <2> QED BY <2>2 DEF x, p
<1>6. ValueOf(a) < Power[Len(a)] /\ Power[Len(a)] <= Power[n] /\ ValueOf(a) \in Nat
    BY <1>1, <1>2, ValueType, PowerGrows
<1>7. Power[Len(a)] \in Nat /\ Power[n] \in Nat /\ At(b, n) * Power[n] \in Nat
    <2>1. Power[Len(a)] \in Nat /\ Power[n] \in Nat
        BY <1>1, <1>2, PowerType
    <2> QED BY <1>3, <2>1
<1> HIDE DEF n
<1> QED BY <1>4, <1>5, <1>6, <1>7

\* Of numbers of one length, the most significant difference decides.
LEMMA GreaterDigit ==
    ASSUME NEW a \in Numerals, NEW b \in Numerals, Len(a) = Len(b),
           NEW m \in 1 .. Len(a), a[m] > b[m],
           \A i \in m + 1 .. Len(a) : a[i] = b[i]
    PROVE  ValueOf(a) > ValueOf(b)
<1> DEFINE n == m - 1
           x == At(a, n)
           y == At(b, n)
           p == Power[n]
<1>1. n \in Nat /\ n + 1 = m /\ m \in Nat /\ m <= Len(a) /\ Len(a) \in Nat
    BY NumeralType
<1>2. x \in Nat /\ y \in Nat /\ x >= y + 1
    <2>1. x = a[m] /\ y = b[m]
        <3>1. n < Len(a) /\ n < Len(b)
            BY <1>1
        <3> HIDE DEF n
        <3> QED BY <3>1, <1>1 DEF At
    <2>2. x \in Nat /\ y \in Nat
        BY <1>1, DigitType
    <2> HIDE DEF x, y
    <2> QED BY <2>1, <2>2
<1>3. /\ Low(a)[m] = Low(a)[n] + x * p /\ Low(a)[n] \in Nat
      /\ Low(b)[m] = Low(b)[n] + y * p /\ Low(b)[n] \in Nat /\ Low(b)[n] < p
      /\ p \in Nat
    <2> HIDE DEF n
    <2>1. p \in Nat /\ Low(b)[n] < p
        BY <1>1, LowBound, PowerType
    <2>2. /\ Low(a)[n + 1] = Low(a)[n] + x * p /\ Low(a)[n] \in Nat
          /\ Low(b)[n + 1] = Low(b)[n] + y * p /\ Low(b)[n] \in Nat
        BY <1>1, LowType
    <2> QED BY <1>1, <2>1, <2>2
<1>4. ValueOf(a) - Low(a)[m] = ValueOf(b) - Low(b)[m]
    <2>1. \A i \in m .. Len(a) - 1 : At(a, i) = At(b, i)
        BY <1>1 DEF At
    <2> QED BY <2>1, <1>1, HighSame DEF ValueOf
<1>5. ValueOf(a) \in Nat /\ ValueOf(b) \in Nat
    BY ValueType
<1> HIDE DEF n, x, y, p
<1>6. x * p >= y * p + p /\ x * p \in Nat /\ y * p \in Nat
    <2>1. (y + 1) * p <= x * p
        BY <1>2, <1>3
    <2>2. (y + 1) * p = y * p + p
        BY <1>2, <1>3
    <2> QED BY <2>1, <2>2, <1>2, <1>3
<1> QED BY <1>3, <1>4, <1>5, <1>6

\* relation_to() decides as the numbers do, and yields 0 for equal vectors only.
LEMMA RelationFacts ==
    ASSUME NEW a, NEW b, Normal(a), Normal(b)
    PROVE  /\ RelationTo(a, b) = Sign(ValueOf(a) - ValueOf(b))
           /\ ValueOf(a) = ValueOf(b) <=> a = b
<1> DEFINE differ == {i \in DOMAIN a : a[i] # b[i]}
           m == Max(differ)
<1>1. a \in Numerals /\ b \in Numerals
    BY NormalType
<1>2. /\ Len(a) \in Nat /\ Len(b) \in Nat /\ ValueOf(a) \in Nat /\ ValueOf(b) \in Nat
      /\ DOMAIN a = 1 .. Len(a) /\ DOMAIN b = 1 .. Len(b) /\ a \in Seq(Digits) /\ b \in Seq(Digits)
    BY <1>1, NumeralType, ValueType
<1>3. CASE Len(a) # Len(b)
    <2>1. RelationTo(a, b) = Sign(Len(a) - Len(b))
        BY <1>3 DEF RelationTo
    <2>2. CASE Len(a) < Len(b)
        <3>1. ValueOf(a) < ValueOf(b)
            BY <2>2, LongerIsGreater
        <3> QED BY <3>1, <2>1, <2>2, <1>2 DEF Sign
    <2>3. CASE Len(b) < Len(a)
        <3>1. ValueOf(b) < ValueOf(a)
            BY <2>3, LongerIsGreater
        <3> QED BY <3>1, <2>1, <2>3, <1>2 DEF Sign
    <2>4. Len(a) < Len(b) \/ Len(b) < Len(a)
        <3>1. Len(a) \in Nat /\ Len(b) \in Nat
            BY <1>2
        <3> QED BY <3>1, <1>3
    <2> QED BY <2>2, <2>3, <2>4
<1>4. CASE Len(a) = Len(b) /\ differ = {}
    <2>1. RelationTo(a, b) = 0
        BY <1>4, Zenon DEF RelationTo
    <2>2. a = b
        <3>1. \A i \in 1 .. Len(a) : a[i] = b[i]
            BY <1>2, <1>4
        <3> QED BY <3>1, <1>2, <1>4, SeqEqual
    <2> QED BY <2>1, <2>2, <1>2 DEF Sign
<1>5. CASE Len(a) = Len(b) /\ differ # {}
    <2>1. RelationTo(a, b) = Sign(a[m] - b[m])
        BY <1>5, Zenon DEF RelationTo
    <2>2. differ \subseteq 1 .. Len(a)
        BY <1>2
    <2>3. m \in differ /\ \A i \in differ : i <= m
        <3> HIDE DEF differ
        <3> QED BY <1>2, <1>5, <2>2, Greatest
    <2>4. m \in 1 .. Len(a) /\ a[m] # b[m] /\ \A i \in m + 1 .. Len(a) : a[i] = b[i]
        <3> HIDE DEF m
        <3> QED BY <2>3, <1>2
    <2>5. a[m] \in Nat /\ b[m] \in Nat
        <3> HIDE DEF m
        <3> QED BY <2>4, <1>1, <1>5, NumeralType DEF Digits
    <2>6. a # b
        BY <2>4
    <2> HIDE DEF m, differ
    <2>7. CASE a[m] > b[m]
        <3>1. ValueOf(a) > ValueOf(b)
            BY <2>4, <2>7, <1>1, <1>5, GreaterDigit
        <3> QED BY <3>1, <2>1, <2>5, <2>6, <2>7, <1>2 DEF Sign
    <2>8. CASE b[m] > a[m]
        <3>1. ValueOf(b) > ValueOf(a)
            BY <2>4, <2>8, <1>1, <1>5, GreaterDigit
        <3> QED BY <3>1, <2>1, <2>5, <2>6, <2>8, <1>2 DEF Sign
    <2> QED BY <2>4, <2>5, <2>7, <2>8
<1> QED BY <1>3, <1>4, <1>5

LEMMA SameValue ==
    ASSUME NEW a, NEW b, Normal(a), Normal(b), ValueOf(a) = ValueOf(b)
    PROVE  a = b
BY RelationFacts

\* 0 and 1 are recognised by their digits.
LEMMA SmallAreRecognised ==
    ASSUME NEW d, Normal(d)
    PROVE  (IsZero(d) <=> ValueOf(d) = 0) /\ (IsUnity(d) <=> ValueOf(d) = 1)
BY SmallNumerals, SameValue DEF IsZero, IsUnity

-----------------------------------------------------------------------------
\* An induction that ends.
LEMMA IntervalInduction ==
    ASSUME NEW S, NEW n \in Nat, 0 \in S, \A i \in 1 .. n : i - 1 \in S => i \in S
    PROVE  \A i \in 0 .. n : i \in S
<1> DEFINE T == {i \in Nat : i <= n => i \in S}
<1>1. 0 \in T
    OBVIOUS
<1>2. ASSUME NEW i \in Nat, i \in T PROVE i + 1 \in T
    <2> SUFFICES ASSUME i + 1 <= n PROVE i + 1 \in S
        OBVIOUS
    <2>1. i + 1 \in 1 .. n /\ (i + 1) - 1 = i /\ i \in S
        BY <1>2
    <2> QED BY <2>1
<1>3. Nat \subseteq T
    <2> HIDE DEF T
    <2> QED BY <1>1, <1>2, SetInduction
<1> QED BY <1>3

LEMMA Division ==
    ASSUME NEW n \in Int, NEW b \in Nat, b > 0
    PROVE  /\ n \div b \in Int
           /\ n % b \in 0 .. b - 1
           /\ n = b * (n \div b) + (n % b)
OBVIOUS

LEMMA DivisionIs ==
    ASSUME NEW n \in Int, NEW b \in Nat, b > 0, NEW q \in Int, NEW r \in 0 .. b - 1,
           n = b * q + r
    PROVE  n \div b = q /\ n % b = r
OBVIOUS

-----------------------------------------------------------------------------
(* Addition.                                                                *)

LEMMA CarriesFacts ==
    ASSUME NEW a \in Numerals, NEW b \in Numerals, NEW w \in Nat
    PROVE  /\ \A i \in 0 .. w : Carries(a, b, w)[i] \in {0, 1}
           /\ Carries(a, b, w)[0] = 0
           /\ \A i \in 1 .. w : Carries(a, b, w)[i] =
                 IF At(a, i - 1) + At(b, i - 1) + Carries(a, b, w)[i - 1] >= Base THEN 1 ELSE 0
<1> DEFINE Eq(f) == f = [i \in 0 .. w |->
                IF i = 0 THEN 0
                ELSE IF At(a, i - 1) + At(b, i - 1) + f[i - 1] >= Base THEN 1 ELSE 0]
           step == [i \in 1 .. w |-> [x \in {0, 1} |->
                IF At(a, i - 1) + At(b, i - 1) + x >= Base THEN 1 ELSE 0]]
<1>1. step \in [1 .. w -> [{0, 1} -> {0, 1}]] /\ 0 \in {0, 1}
    OBVIOUS
<1>2. \A i \in 1 .. w : \A x \in {0, 1} :
          step[i][x] = IF At(a, i - 1) + At(b, i - 1) + x >= Base THEN 1 ELSE 0
    OBVIOUS
<1> HIDE DEF step
<1>3. Iterable(w, {0, 1}, 0, step)
    BY <1>1, Iteration
<1>4. PICK g \in [0 .. w -> {0, 1}] : g[0] = 0 /\ \A i \in 1 .. w : g[i] = step[i][g[i - 1]]
    BY <1>3 DEF Iterable
<1>5. \A i \in 1 .. w : g[i - 1] \in {0, 1}
    OBVIOUS
<1>6. Eq(g)
    BY <1>2, <1>4, <1>5
<1>7. Eq(Carries(a, b, w))
    BY <1>6, Zenon DEF Carries
<1>8. \A i \in 0 .. w : Carries(a, b, w)[i] =
          IF i = 0 THEN 0
          ELSE IF At(a, i - 1) + At(b, i - 1) + Carries(a, b, w)[i - 1] >= Base THEN 1 ELSE 0
    BY <1>7
<1> QED BY <1>8

LEMMA SumFacts ==
    ASSUME NEW a \in Numerals, NEW b \in Numerals
    PROVE  /\ Sum(a, b) \in Numerals
           /\ ValueOf(Sum(a, b)) = ValueOf(a) + ValueOf(b)
           /\ Normal(a) /\ Normal(b) => Normal(Sum(a, b))
<1> DEFINE w == Longer(a, b)
           carry == Carries(a, b, w)
           s(i) == At(a, i) + At(b, i) + carry[i]
           low == [i \in 1 .. w |-> s(i - 1) % Base]
           sum == IF carry[w] = 1 THEN Append(low, 1) ELSE low
<1>1. Sum(a, b) = sum
    BY DEF Sum
<1>2. w \in Nat \ {0} /\ Len(a) <= w /\ Len(b) <= w /\ (w = Len(a) \/ w = Len(b))
    BY NumeralType DEF Longer
<1> HIDE DEF w
<1>3. /\ \A i \in 0 .. w : carry[i] \in {0, 1}
      /\ carry[0] = 0
      /\ \A i \in 1 .. w : carry[i] = IF s(i - 1) >= Base THEN 1 ELSE 0
    BY <1>2, CarriesFacts
<1> HIDE DEF carry
<1>4. ASSUME NEW i \in 0 .. w - 1
      PROVE  /\ s(i) \in Nat
             /\ s(i) % Base \in Digits
             /\ s(i) = (s(i) % Base) + carry[i + 1] * Base
             /\ carry[i + 1] = 0 => s(i) % Base = s(i)
    <2>0. i \in Nat /\ i \in 0 .. w
        BY <1>2
    <2>1. /\ At(a, i) \in Nat /\ At(b, i) \in Nat /\ carry[i] \in {0, 1}
          /\ At(a, i) < Base /\ At(b, i) < Base
        <3>1. carry[i] \in {0, 1}
            BY <2>0, <1>3
        <3> QED BY <2>0, <3>1, DigitType
    <2>2. s(i) \in Nat /\ s(i) < 2 * Base
        BY <2>1, BaseType
    <2>3. carry[i + 1] = IF s(i) >= Base THEN 1 ELSE 0
        <3>1. i + 1 \in 1 .. w /\ (i + 1) - 1 = i
            BY <1>2
        <3> HIDE DEF s
        <3> QED BY <3>1, <1>3
    <2> HIDE DEF s
    <2> QED BY <2>2, <2>3, BaseType DEF Digits
<1>5. low \in Seq(Digits) /\ Len(low) = w /\ \A i \in 0 .. w - 1 : low[i + 1] = s(i) % Base
    <2>1. \A i \in 1 .. w : s(i - 1) % Base \in Digits
        BY <1>2, <1>4
    <2> HIDE DEF s
    <2> QED BY <1>2, <2>1
<1> HIDE DEF s, low
<1>6. /\ sum \in Numerals
      /\ Len(sum) = IF carry[w] = 1 THEN w + 1 ELSE w
      /\ \A i \in 0 .. w - 1 : At(sum, i) = s(i) % Base
      /\ carry[w] = 1 => sum[w + 1] = 1
    <2>1. 1 \in Digits
        BY BaseType DEF Digits
    <2>2. sum \in Seq(Digits) /\ Len(sum) = (IF carry[w] = 1 THEN w + 1 ELSE w)
        BY <1>5, <2>1
    <2>3. \A i \in 0 .. w - 1 : sum[i + 1] = low[i + 1]
        BY <1>2, <1>5, <2>1
    <2>4. carry[w] = 1 => sum[w + 1] = 1
        BY <1>2, <1>5, <2>1
    <2> HIDE DEF sum
    <2> QED BY <1>2, <1>5, <2>2, <2>3, <2>4 DEF At, Numerals
<1> HIDE DEF sum
<1>7. \A i \in 0 .. w : Low(sum)[i] + carry[i] * Power[i] = Low(a)[i] + Low(b)[i]
    <2> DEFINE T == {i \in 0 .. w : Low(sum)[i] + carry[i] * Power[i] = Low(a)[i] + Low(b)[i]}
    <2>1. 0 \in T
        <3>1. Low(sum)[0] = 0 /\ Low(a)[0] = 0 /\ Low(b)[0] = 0
            BY <1>6, LowFacts
        <3>2. carry[0] * Power[0] = 0
            BY <1>3, PowerFacts
        <3> QED BY <1>2, <3>1, <3>2
    <2>2. ASSUME NEW i \in 1 .. w, i - 1 \in T PROVE i \in T
        <3> DEFINE j == i - 1
                   p == Power[j]
                   x == At(a, j)
                   y == At(b, j)
                   z == At(sum, j)
                   c == carry[j]
                   d == carry[i]
        <3>1. j \in 0 .. w - 1 /\ j \in Nat /\ i = j + 1
            BY <1>2
        <3>2. p \in Nat /\ x \in Nat /\ y \in Nat /\ z \in Nat /\ c \in Nat /\ d \in Nat
            <4>1. c \in {0, 1} /\ d \in {0, 1}
                <5>1. j \in 0 .. w /\ i \in 0 .. w
                    BY <1>2
                <5> HIDE DEF j
                <5> QED BY <5>1, <1>3
            <4> HIDE DEF j, c, d
            <4>2. p \in Nat /\ x \in Nat /\ y \in Nat /\ z \in Nat
                BY <3>1, <1>6, PowerType, DigitType
            <4> QED BY <4>1, <4>2
        <3>3. x + y + c = z + d * Base
            BY <3>1, <1>4, <1>6 DEF s
        <3>4. Power[i] = Base * p
            BY <3>1, PowerType
        <3>5. /\ Low(a)[i] = Low(a)[j] + x * p /\ Low(a)[j] \in Nat
              /\ Low(b)[i] = Low(b)[j] + y * p /\ Low(b)[j] \in Nat
              /\ Low(sum)[i] = Low(sum)[j] + z * p /\ Low(sum)[j] \in Nat
            BY <3>1, <1>6, LowType
        <3>6. Low(sum)[j] + c * p = Low(a)[j] + Low(b)[j]
            BY <2>2
        <3> HIDE DEF j, p, x, y, z, c, d
        <3>7. x * p + y * p + c * p = z * p + d * (Base * p)
            <4>1. (x + y + c) * p = (z + d * Base) * p
                BY <3>3
            <4>2. (x + y + c) * p = x * p + y * p + c * p
                BY <3>2
            <4>3. (z + d * Base) * p = z * p + d * (Base * p)
                BY <3>2, BaseType
            <4> QED BY <4>1, <4>2, <4>3
        <3>8. /\ x * p \in Nat /\ y * p \in Nat /\ z * p \in Nat /\ c * p \in Nat
              /\ d * (Base * p) \in Nat
            BY <3>2, BaseType
        <3>9. Low(sum)[i] + d * (Base * p) = Low(a)[i] + Low(b)[i]
            BY <3>5, <3>6, <3>7, <3>8
        <3> QED BY <3>4, <3>9 DEF d
    <2>3. \A i \in 0 .. w : i \in T
        <3> HIDE DEF T
        <3> QED BY <1>2, <2>1, <2>2, IntervalInduction
    <2> QED BY <2>3
<1>8. ValueOf(sum) = ValueOf(a) + ValueOf(b)
    <2>1. Low(sum)[w] + carry[w] * Power[w] = ValueOf(a) + ValueOf(b)
        BY <1>2, <1>7, LowIsValue
    <2>2. Low(sum)[w] \in Nat /\ Power[w] \in Nat
        BY <1>2, <1>6, LowType, PowerType
    <2>3. CASE carry[w] = 1
        <3>1. At(sum, w) = 1
            BY <2>3, <1>2, <1>6 DEF At
        <3>2. Low(sum)[w + 1] = Low(sum)[w] + 1 * Power[w]
            BY <3>1, <1>2, <1>6, LowType
        <3> QED BY <3>2, <2>1, <2>2, <2>3, <1>6 DEF ValueOf
    <2>4. CASE carry[w] = 0
        BY <2>1, <2>2, <2>4, <1>6 DEF ValueOf
    <2> QED BY <1>2, <1>3, <2>3, <2>4
<1>9. ASSUME Normal(a), Normal(b) PROVE Normal(sum)
    <2>1. CASE carry[w] = 1
        BY <2>1, <1>6 DEF Normal
    <2>2. CASE carry[w] = 0 /\ w # 1
        <3> DEFINE j == w - 1
        <3>1. j \in 0 .. w - 1 /\ j \in Nat /\ j + 1 = w
            BY <1>2
        <3>2. At(a, j) \in Nat /\ At(b, j) \in Nat /\ carry[j] \in {0, 1}
            BY <3>1, <1>3, DigitType
        <3>3. At(a, j) # 0 \/ At(b, j) # 0
            <4>1. a[Len(a)] # 0 \/ Len(a) # w
                BY <1>9, <2>2 DEF Normal
            <4>2. b[Len(b)] # 0 \/ Len(b) # w
                BY <1>9, <2>2 DEF Normal
            <4> QED BY <4>1, <4>2, <3>1, <1>2 DEF At
        <3>4. s(j) # 0
            BY <3>2, <3>3 DEF s
        <3>5. At(sum, j) # 0
            BY <3>1, <3>4, <2>2, <1>4, <1>6
        <3>6. sum[w] # 0
            BY <3>1, <3>5, <2>2, <1>6 DEF At
        <3> QED BY <3>6, <2>2, <1>6 DEF Normal
    <2>3. CASE carry[w] = 0 /\ w = 1
        BY <2>3, <1>6 DEF Normal
    <2> QED BY <1>2, <1>3, <2>1, <2>2, <2>3
<1> QED BY <1>1, <1>6, <1>8, <1>9

LEMMA PlusFacts ==
    ASSUME NEW a \in Numerals, NEW b \in Numerals
    PROVE  /\ Plus(a, b) \in Numerals
           /\ ValueOf(Plus(a, b)) = ValueOf(a) + ValueOf(b)
           /\ Normal(a) /\ Normal(b) => Normal(Plus(a, b))
<1>1. CASE IsZero(a)
    BY <1>1, SmallNumerals, ValueType DEF Plus, IsZero
<1>2. CASE ~ IsZero(a) /\ IsZero(b)
    BY <1>2, SmallNumerals, ValueType DEF Plus, IsZero
<1>3. CASE ~ IsZero(a) /\ ~ IsZero(b)
    <2>1. Plus(a, b) = Sum(a, b)
        BY <1>3 DEF Plus
    <2> QED BY <2>1, SumFacts
<1> QED BY <1>1, <1>2, <1>3

-----------------------------------------------------------------------------
(* Subtraction.                                                             *)

LEMMA BorrowsFacts ==
    ASSUME NEW a \in Numerals, NEW b \in Numerals
    PROVE  /\ \A i \in 0 .. Len(a) : Borrows(a, b)[i] \in {0, 1}
           /\ Borrows(a, b)[0] = 0
           /\ \A i \in 1 .. Len(a) : Borrows(a, b)[i] =
                 IF At(a, i - 1) - At(b, i - 1) - Borrows(a, b)[i - 1] < 0 THEN 1 ELSE 0
<1> DEFINE w == Len(a)
           Eq(f) == f = [i \in 0 .. w |->
                IF i = 0 THEN 0
                ELSE IF At(a, i - 1) - At(b, i - 1) - f[i - 1] < 0 THEN 1 ELSE 0]
           step == [i \in 1 .. w |-> [x \in {0, 1} |->
                IF At(a, i - 1) - At(b, i - 1) - x < 0 THEN 1 ELSE 0]]
<1>1. step \in [1 .. w -> [{0, 1} -> {0, 1}]] /\ 0 \in {0, 1}
    OBVIOUS
<1>2. \A i \in 1 .. w : \A x \in {0, 1} :
          step[i][x] = IF At(a, i - 1) - At(b, i - 1) - x < 0 THEN 1 ELSE 0
    OBVIOUS
<1>3. w \in Nat
    BY NumeralType
<1> HIDE DEF step
<1>4. Iterable(w, {0, 1}, 0, step)
    <2> HIDE DEF w
    <2> QED BY <1>1, <1>3, Iteration
<1>5. PICK g \in [0 .. w -> {0, 1}] : g[0] = 0 /\ \A i \in 1 .. w : g[i] = step[i][g[i - 1]]
    BY <1>4 DEF Iterable
<1>6. \A i \in 1 .. w : g[i - 1] \in {0, 1}
    BY <1>3
<1>7. Eq(g)
    <2> HIDE DEF w
    <2> QED BY <1>2, <1>3, <1>5, <1>6
<1>8. Eq(Borrows(a, b))
    BY <1>7, Zenon DEF Borrows
<1>9. \A i \in 0 .. w : Borrows(a, b)[i] =
          IF i = 0 THEN 0
          ELSE IF At(a, i - 1) - At(b, i - 1) - Borrows(a, b)[i - 1] < 0 THEN 1 ELSE 0
    BY <1>8
<1> QED BY <1>3, <1>9

\* What the loop leaves: the difference, as if there were a digit more of a to
\* borrow from when the last one has had to.
LEMMA DifferenceFacts ==
    ASSUME NEW a \in Numerals, NEW b \in Numerals
    PROVE  /\ Difference(a, b) \in Numerals
           /\ LastBorrow(a, b) \in {0, 1}
           /\ Len(b) <= Len(a) =>
                 ValueOf(Difference(a, b)) =
                     ValueOf(a) - ValueOf(b) + LastBorrow(a, b) * Power[Len(a)]
<1> DEFINE w == Len(a)
           borrow == Borrows(a, b)
           s(i) == At(a, i) - At(b, i) - borrow[i]
           d == [i \in 1 .. w |-> s(i - 1) % Base]
<1>1. Difference(a, b) = d /\ LastBorrow(a, b) = borrow[w]
    BY DEF Difference, LastBorrow
<1>2. w \in Nat \ {0} /\ w = Len(a)
    BY NumeralType
<1>3. /\ \A i \in 0 .. w : borrow[i] \in {0, 1}
      /\ borrow[0] = 0
      /\ \A i \in 1 .. w : borrow[i] = IF s(i - 1) < 0 THEN 1 ELSE 0
    BY BorrowsFacts
<1> HIDE DEF borrow
<1>4. ASSUME NEW i \in 0 .. w - 1
      PROVE  /\ s(i) \in Int
             /\ s(i) % Base \in Digits
             /\ s(i) = (s(i) % Base) - borrow[i + 1] * Base
    <2>1. i \in Nat /\ i \in 0 .. w /\ i + 1 \in 1 .. w /\ (i + 1) - 1 = i
        BY <1>2
    <2>2. borrow[i] \in {0, 1} /\ borrow[i + 1] = IF s(i) < 0 THEN 1 ELSE 0
        <3> HIDE DEF w, s
        <3> QED BY <2>1, <1>3
    <2>3. s(i) \in Int /\ s(i) < Base /\ s(i) >= - Base
        <3>1. /\ At(a, i) \in Nat /\ At(b, i) \in Nat
              /\ At(a, i) < Base /\ At(b, i) < Base
            BY <2>1, DigitType
        <3> HIDE DEF w
        <3> QED BY <3>1, <2>2, BaseType
    <2> HIDE DEF s, w
    <2> QED BY <2>2, <2>3, BaseType DEF Digits
<1> HIDE DEF w
<1>5. d \in Numerals /\ Len(d) = w /\ \A i \in 0 .. w - 1 : At(d, i) = s(i) % Base
    <2>1. \A i \in 1 .. w : s(i - 1) % Base \in Digits
        BY <1>2, <1>4
    <2> HIDE DEF s
    <2>2. d \in Seq(Digits) /\ Len(d) = w /\ \A i \in 0 .. w - 1 : d[i + 1] = s(i) % Base
        BY <1>2, <2>1
    <2> HIDE DEF d
    <2> QED BY <1>2, <2>2 DEF At, Numerals
<1> HIDE DEF s, d
<1>6. ASSUME Len(b) <= w
      PROVE  ValueOf(d) = ValueOf(a) - ValueOf(b) + borrow[w] * Power[w]
    <2> DEFINE T == {i \in 0 .. w : Low(d)[i] = Low(a)[i] - Low(b)[i] + borrow[i] * Power[i]}
    <2>1. 0 \in T
        <3>1. Low(d)[0] = 0 /\ Low(a)[0] = 0 /\ Low(b)[0] = 0
            BY <1>5, LowFacts
        <3>2. borrow[0] * Power[0] = 0
            BY <1>3, PowerFacts
        <3> QED BY <1>2, <3>1, <3>2
    <2>2. ASSUME NEW i \in 1 .. w, i - 1 \in T PROVE i \in T
        <3> DEFINE j == i - 1
                   p == Power[j]
                   x == At(a, j)
                   y == At(b, j)
                   z == At(d, j)
                   c == borrow[j]
                   e == borrow[i]
        <3>1. j \in 0 .. w - 1 /\ j \in Nat /\ i = j + 1
            BY <1>2
        <3>2. p \in Nat /\ x \in Nat /\ y \in Nat /\ z \in Nat /\ c \in Nat /\ e \in Nat
            <4>1. c \in {0, 1} /\ e \in {0, 1}
                <5>1. j \in 0 .. w /\ i \in 0 .. w
                    BY <1>2
                <5> HIDE DEF j
                <5> QED BY <5>1, <1>3
            <4> HIDE DEF j, c, e
            <4>2. p \in Nat /\ x \in Nat /\ y \in Nat /\ z \in Nat
                BY <3>1, <1>5, PowerType, DigitType
            <4> QED BY <4>1, <4>2
        <3>3. x - y - c = z - e * Base
            BY <3>1, <1>4, <1>5 DEF s
        <3>4. Power[i] = Base * p
            BY <3>1, PowerType
        <3>5. /\ Low(a)[i] = Low(a)[j] + x * p /\ Low(a)[j] \in Nat
              /\ Low(b)[i] = Low(b)[j] + y * p /\ Low(b)[j] \in Nat
              /\ Low(d)[i] = Low(d)[j] + z * p /\ Low(d)[j] \in Nat
            BY <3>1, <1>5, LowType
        <3>6. Low(d)[j] = Low(a)[j] - Low(b)[j] + c * p
            BY <2>2
        <3> HIDE DEF j, p, x, y, z, c, e
        <3>7. x * p - y * p - c * p = z * p - e * (Base * p)
            <4>1. (x - y - c) * p = (z - e * Base) * p
                BY <3>3
            <4>2. (x - y - c) * p = x * p - y * p - c * p
                BY <3>2
            <4>3. (z - e * Base) * p = z * p - e * (Base * p)
                BY <3>2, BaseType
            <4> QED BY <4>1, <4>2, <4>3
        <3>8. /\ x * p \in Nat /\ y * p \in Nat /\ z * p \in Nat /\ c * p \in Nat
              /\ e * (Base * p) \in Nat
            BY <3>2, BaseType
        <3>9. Low(d)[i] = Low(a)[i] - Low(b)[i] + e * (Base * p)
            BY <3>5, <3>6, <3>7, <3>8
        <3> QED BY <3>4, <3>9 DEF e
    <2>3. \A i \in 0 .. w : i \in T
        <3> HIDE DEF T
        <3> QED BY <1>2, <2>1, <2>2, IntervalInduction
    <2>4. w \in 0 .. w
        BY <1>2
    <2>5. Low(d)[w] = Low(a)[w] - Low(b)[w] + borrow[w] * Power[w]
        BY <2>3, <2>4
    <2>6. Low(b)[w] = ValueOf(b)
        BY <1>2, <1>6, LowIsValue
    <2> QED BY <2>5, <2>6, <1>2, <1>5 DEF ValueOf
<1>7. borrow[w] \in {0, 1}
    <2>1. w \in 0 .. w
        BY <1>2
    <2> QED BY <2>1, <1>3
<1> QED BY <1>1, <1>2, <1>5, <1>6, <1>7

\* Exactly what may be subtracted is.
LEMMA MinusFacts ==
    ASSUME NEW a \in Numerals, NEW b \in Numerals
    PROVE  /\ Minus(a, b) \in Numerals
           /\ Normal(a) => Normal(Minus(a, b))
           /\ IsZero(b) \/ (Len(b) <= Len(a) /\ LastBorrow(a, b) = 0) =>
                 ValueOf(Minus(a, b)) = ValueOf(a) - ValueOf(b)
<1>1. CASE IsZero(b)
    BY <1>1, SmallNumerals, ValueType DEF Minus, IsZero
<1>2. CASE ~ IsZero(b)
    <2>1. Minus(a, b) = RemoveLz(Difference(a, b)) /\ Difference(a, b) \in Numerals
        BY <1>2, DifferenceFacts DEF Minus
    <2>2. /\ Normal(Minus(a, b))
          /\ ValueOf(Minus(a, b)) = ValueOf(Difference(a, b))
        BY <2>1, RemoveLzFacts
    <2>3. ASSUME Len(b) <= Len(a), LastBorrow(a, b) = 0
          PROVE  ValueOf(Difference(a, b)) = ValueOf(a) - ValueOf(b)
        <3>1. Power[Len(a)] \in Nat
            BY PowerType, NumeralType
        <3>2. ValueOf(Difference(a, b)) = ValueOf(a) - ValueOf(b) + 0 * Power[Len(a)]
            BY <2>3, DifferenceFacts
        <3> QED BY <3>1, <3>2, ValueType
    <2> QED BY <1>2, <2>2, <2>3, NormalType
<1> QED BY <1>1, <1>2

\* The check after the loop fails when it should: b is the greater one.
LEMMA BorrowMeansLess ==
    ASSUME NEW a \in Numerals, NEW b \in Numerals, Len(b) <= Len(a)
    PROVE  LastBorrow(a, b) = 0 <=> ValueOf(a) >= ValueOf(b)
<1>1. /\ ValueOf(Difference(a, b)) \in Nat /\ ValueOf(Difference(a, b)) < Power[Len(a)]
      /\ ValueOf(a) \in Nat /\ ValueOf(b) \in Nat /\ Power[Len(a)] \in Nat
    <2>1. Len(Difference(a, b)) = Len(a)
        BY NumeralType DEF Difference
    <2> QED BY <2>1, DifferenceFacts, ValueType, PowerType, NumeralType
<1>2. CASE LastBorrow(a, b) = 0
    BY <1>1, <1>2, DifferenceFacts
<1>3. CASE LastBorrow(a, b) = 1
    BY <1>1, <1>3, DifferenceFacts
<1> QED BY <1>2, <1>3, DifferenceFacts

-----------------------------------------------------------------------------
(* Multiplication.                                                          *)

LEMMA RowCarriesFacts ==
    ASSUME NEW b \in Numerals, NEW ad \in Digits
    PROVE  /\ \A j \in 0 .. Len(b) : RowCarries(b, ad)[j] \in Digits
           /\ RowCarries(b, ad)[0] = 0
           /\ \A j \in 1 .. Len(b) :
                 RowCarries(b, ad)[j] = (At(b, j - 1) * ad + RowCarries(b, ad)[j - 1]) \div Base
<1> DEFINE w == Len(b)
           Eq(f) == f = [j \in 0 .. w |->
                IF j = 0 THEN 0 ELSE (At(b, j - 1) * ad + f[j - 1]) \div Base]
           step == [j \in 1 .. w |-> [x \in Digits |-> (At(b, j - 1) * ad + x) \div Base]]
<1>1. w \in Nat /\ 0 \in Digits
    BY NumeralType, BaseType DEF Digits
<1>2. \A j \in 1 .. w : \A x \in Digits : (At(b, j - 1) * ad + x) \div Base \in Digits
    <2> SUFFICES ASSUME NEW j \in 1 .. w, NEW x \in Digits
                 PROVE  (At(b, j - 1) * ad + x) \div Base \in Digits
        OBVIOUS
    <2> DEFINE y == At(b, j - 1)
               n == y * ad + x
    <2>1. y \in 0 .. Base - 1 /\ ad \in 0 .. Base - 1 /\ x \in 0 .. Base - 1
        BY <1>1, DigitType, BaseType DEF Digits
    <2> HIDE DEF y
    <2>2. n \in Nat /\ n < Base * Base
        <3>1. y * ad <= (Base - 1) * (Base - 1) /\ y * ad \in Nat
            BY <2>1, BaseType
        <3>2. (Base - 1) * (Base - 1) = Base * Base - 2 * Base + 1
            BY BaseType
        <3>3. Base * Base \in Nat
            BY BaseType
        <3> QED BY <3>1, <3>2, <3>3, <2>1, BaseType
    <2> HIDE DEF n
    <2>3. n \div Base \in Nat /\ n \div Base < Base
        BY <2>2, BaseType
    <2> QED BY <2>3, BaseType DEF Digits, n, y
<1>3. step \in [1 .. w -> [Digits -> Digits]]
    BY <1>2
<1>4. \A j \in 1 .. w : \A x \in Digits : step[j][x] = (At(b, j - 1) * ad + x) \div Base
    OBVIOUS
<1> HIDE DEF step, w
<1>5. Iterable(w, Digits, 0, step)
    BY <1>1, <1>3, Iteration
<1>6. PICK g \in [0 .. w -> Digits] : g[0] = 0 /\ \A j \in 1 .. w : g[j] = step[j][g[j - 1]]
    BY <1>5 DEF Iterable
<1>7. \A j \in 1 .. w : g[j - 1] \in Digits
    BY <1>1
<1>8. Eq(g)
    BY <1>1, <1>4, <1>6, <1>7
<1>9. Eq(RowCarries(b, ad))
    BY <1>8, Zenon DEF RowCarries, w
<1> DEFINE F == RowCarries(b, ad)
<1>10. F = [j \in 0 .. w |-> IF j = 0 THEN 0 ELSE (At(b, j - 1) * ad + F[j - 1]) \div Base]
    BY <1>9
<1> HIDE DEF F
<1>11. F[0] = 0 /\ \A j \in 1 .. w : F[j] = (At(b, j - 1) * ad + F[j - 1]) \div Base
    BY <1>1, <1>10
<1>12. \A j \in 0 .. w : F[j] \in Digits
    <2> DEFINE T == {j \in 0 .. w : F[j] \in Digits}
    <2>1. 0 \in T
        BY <1>1, <1>11
    <2>2. \A j \in 1 .. w : j - 1 \in T => j \in T
        BY <1>2, <1>11
    <2>3. \A j \in 0 .. w : j \in T
        <3> HIDE DEF T
        <3> QED BY <1>1, <2>1, <2>2, IntervalInduction
    <2> QED BY <2>3
<1> QED BY <1>11, <1>12 DEF F, w

\* One digit times a number, shifted.
LEMMA RowFacts ==
    ASSUME NEW b \in Numerals, NEW ad \in Digits, NEW i \in Nat
    PROVE  Row(b, ad, i) \in Numerals /\ ValueOf(Row(b, ad, i)) = ad * Power[i] * ValueOf(b)
<1> DEFINE w == Len(b)
           carry == RowCarries(b, ad)
           s(j) == At(b, j) * ad + carry[j]
           up == [j \in 1 .. w |-> s(j - 1) % Base]
           short == Zeros(i) \o up
           row == IF carry[w] # 0 THEN Append(short, carry[w]) ELSE short
<1>1. Row(b, ad, i) = row
    BY DEF Row
<1>2. w \in Nat \ {0} /\ w = Len(b) /\ 0 \in Digits
    BY NumeralType, BaseType DEF Digits
<1>3. /\ \A j \in 0 .. w : carry[j] \in Digits
      /\ carry[0] = 0
      /\ \A j \in 1 .. w : carry[j] = s(j - 1) \div Base
    BY RowCarriesFacts
<1> HIDE DEF carry
<1>4. ASSUME NEW j \in 0 .. w - 1
      PROVE  /\ s(j) \in Nat
             /\ s(j) % Base \in Digits
             /\ s(j) = (s(j) % Base) + carry[j + 1] * Base
    <2>1. j \in Nat /\ j \in 0 .. w /\ j + 1 \in 1 .. w /\ (j + 1) - 1 = j
        BY <1>2
    <2>2. carry[j] \in Nat /\ carry[j + 1] = s(j) \div Base
        <3> HIDE DEF w, s
        <3> QED BY <2>1, <1>3, BaseType DEF Digits
    <2>3. s(j) \in Nat
        <3>1. At(b, j) \in Nat /\ ad \in Nat
            BY <2>1, DigitType, BaseType DEF Digits
        <3> QED BY <3>1, <2>2
    <2> HIDE DEF s, w
    <2>4. s(j) % Base \in 0 .. Base - 1 /\ s(j) = Base * (s(j) \div Base) + (s(j) % Base)
          /\ s(j) \div Base \in Int
        <3> DEFINE n == s(j)
        <3>1. n \in Int
            BY <2>3
        <3> HIDE DEF n
        <3>2. n % Base \in 0 .. Base - 1 /\ n = Base * (n \div Base) + (n % Base) /\ n \div Base \in Int
            BY <3>1, Division, BaseType
        <3> QED BY <3>2 DEF n
    <2> QED BY <2>2, <2>3, <2>4, BaseType DEF Digits
<1> HIDE DEF w
<1>5. up \in Seq(Digits) /\ Len(up) = w /\ \A j \in 0 .. w - 1 : up[j + 1] = s(j) % Base
    <2>1. \A j \in 1 .. w : s(j - 1) % Base \in Digits
        BY <1>2, <1>4
    <2> HIDE DEF s
    <2> QED BY <1>2, <2>1
<1>6. Zeros(i) \in Seq(Digits) /\ Len(Zeros(i)) = i /\ \A k \in 1 .. i : Zeros(i)[k] = 0
    BY <1>2 DEF Zeros
<1> HIDE DEF s, up
<1>7. /\ short \in Seq(Digits) /\ Len(short) = i + w
      /\ \A k \in 0 .. i - 1 : short[k + 1] = 0
      /\ \A j \in 0 .. w - 1 : short[(i + j) + 1] = s(j) % Base
    <2>1. /\ short \in Seq(Digits) /\ Len(short) = i + w
          /\ \A k \in 1 .. i + w : short[k] = IF k <= i THEN Zeros(i)[k] ELSE up[k - i]
        <3>1. Zeros(i) \in Seq(Digits) /\ up \in Seq(Digits)
            BY <1>5, <1>6
        <3>2. Len(Zeros(i)) = i /\ Len(up) = w
            BY <1>5, <1>6
        <3> DEFINE zeros == Zeros(i)
        <3> HIDE DEF zeros
        <3>3. /\ zeros \o up \in Seq(Digits) /\ Len(zeros \o up) = Len(zeros) + Len(up)
              /\ \A k \in 1 .. Len(zeros) + Len(up) :
                    (zeros \o up)[k] = IF k <= Len(zeros) THEN zeros[k] ELSE up[k - Len(zeros)]
            BY <3>1, ConcatProperties DEF zeros
        <3> QED BY <3>2, <3>3 DEF zeros
    <2> HIDE DEF short
    <2>2. \A k \in 0 .. i - 1 : short[k + 1] = 0
        BY <1>2, <1>6, <2>1
    <2>3. ASSUME NEW j \in 0 .. w - 1 PROVE short[(i + j) + 1] = s(j) % Base
        <3>1. (i + j) + 1 \in 1 .. i + w /\ ~ ((i + j) + 1 <= i) /\ ((i + j) + 1) - i = j + 1
            BY <1>2
        <3> QED BY <3>1, <2>1, <1>5
    <2> QED BY <2>1, <2>2, <2>3
<1> HIDE DEF short
<1>8. carry[w] \in Digits
    <2>1. w \in 0 .. w
        BY <1>2
    <2> QED BY <2>1, <1>3
<1>9. /\ row \in Numerals
      /\ Len(row) = IF carry[w] # 0 THEN i + w + 1 ELSE i + w
      /\ \A k \in 0 .. i - 1 : At(row, k) = 0
      /\ \A j \in 0 .. w - 1 : At(row, i + j) = s(j) % Base
      /\ carry[w] # 0 => At(row, i + w) = carry[w]
    <2>0. /\ row \in Seq(Digits)
          /\ Len(row) = (IF carry[w] # 0 THEN i + w + 1 ELSE i + w)
          /\ \A k \in 1 .. i + w : row[k] = short[k]
          /\ carry[w] # 0 => row[i + w + 1] = carry[w]
        <3> DEFINE x == carry[w]
                   l == i + w
                   longer == Append(short, x)
        <3>1. l \in Nat /\ Len(short) = l /\ short \in Seq(Digits) /\ x \in Digits
            BY <1>2, <1>7, <1>8
        <3> HIDE DEF x, l
        <3>2. /\ longer \in Seq(Digits) /\ Len(longer) = l + 1 /\ longer[l + 1] = x
              /\ \A k \in 1 .. l : longer[k] = short[k]
            BY <3>1
        <3> HIDE DEF longer
        <3>3. row = IF x # 0 THEN longer ELSE short
            BY DEF x, longer
        <3> HIDE DEF row
        <3>4. /\ row \in Seq(Digits)
              /\ Len(row) = (IF x # 0 THEN l + 1 ELSE l)
              /\ \A k \in 1 .. l : row[k] = short[k]
              /\ x # 0 => row[l + 1] = x
            BY <3>1, <3>2, <3>3
        <3> QED BY <3>4 DEF x, l
    <2>1. row \in Seq(Digits) /\ Len(row) = (IF carry[w] # 0 THEN i + w + 1 ELSE i + w)
        BY <2>0
    <2>2. \A k \in 1 .. i + w : row[k] = short[k]
        BY <2>0
    <2>3. carry[w] # 0 => row[i + w + 1] = carry[w]
        BY <2>0
    <2> HIDE DEF row
    <2>4. row \in Numerals
        BY <1>2, <2>1 DEF Numerals
    <2>5. \A k \in 0 .. i + w - 1 : At(row, k) = short[k + 1]
        BY <1>2, <2>1, <2>2 DEF At
    <2>6. carry[w] # 0 => At(row, i + w) = carry[w]
        BY <1>2, <2>1, <2>3 DEF At
    <2>7. \A k \in 0 .. i - 1 : At(row, k) = 0
        BY <1>2, <1>7, <2>5
    <2>8. \A j \in 0 .. w - 1 : At(row, i + j) = s(j) % Base
        BY <1>2, <1>7, <2>5
    <2> QED BY <2>1, <2>4, <2>6, <2>7, <2>8
<1> HIDE DEF row
<1> DEFINE m == ad * Power[i]
<1>10. m \in Nat /\ ad \in Nat
    BY PowerType, BaseType DEF Digits
<1>11. \A j \in 0 .. w : Low(row)[i + j] + carry[j] * Power[i + j] = m * Low(b)[j]
    <2> DEFINE T == {j \in 0 .. w : Low(row)[i + j] + carry[j] * Power[i + j] = m * Low(b)[j]}
    <2>1. 0 \in T
        <3>1. Low(row)[i] = Low(row)[0]
            BY <1>9, LowAbove
        <3>2. Low(row)[0] = 0 /\ Low(b)[0] = 0 /\ i + 0 = i
            BY <1>9, LowFacts
        <3>3. carry[0] * Power[i] = 0
            BY <1>3, PowerType
        <3>4. m * 0 = 0
            BY <1>10
        <3> QED BY <1>2, <3>1, <3>2, <3>3, <3>4
    <2>2. ASSUME NEW j \in 1 .. w, j - 1 \in T PROVE j \in T
        <3> DEFINE k == j - 1
                   p == Power[i + k]
                   q == Power[k]
                   y == At(b, k)
                   z == At(row, i + k)
                   c == carry[k]
                   d == carry[j]
        <3>1. k \in 0 .. w - 1 /\ k \in Nat /\ j = k + 1 /\ i + j = (i + k) + 1 /\ i + k \in Nat
            BY <1>2
        <3>2. p \in Nat /\ q \in Nat /\ y \in Nat /\ z \in Nat /\ c \in Nat /\ d \in Nat
            <4>1. c \in Digits /\ d \in Digits
                <5>1. k \in 0 .. w /\ j \in 0 .. w
                    BY <1>2
                <5> HIDE DEF k
                <5> QED BY <5>1, <1>3
            <4> HIDE DEF k, c, d
            <4>2. p \in Nat /\ q \in Nat /\ y \in Nat /\ z \in Nat
                BY <3>1, <1>9, PowerType, DigitType
            <4> QED BY <4>1, <4>2, BaseType DEF Digits
        <3>3. y * ad + c = z + d * Base
            BY <3>1, <1>4, <1>9 DEF s
        <3>4. Power[i + j] = Base * p /\ p = Power[i] * q
            BY <3>1, PowerType, PowerOfSum
        <3>5. /\ Low(b)[j] = Low(b)[k] + y * q /\ Low(b)[k] \in Nat
              /\ Low(row)[i + j] = Low(row)[i + k] + z * p /\ Low(row)[i + k] \in Nat
            BY <3>1, <1>9, LowType
        <3>6. Low(row)[i + k] + c * p = m * Low(b)[k]
            BY <2>2
        <3>7. Power[i] \in Nat
            BY PowerType
        <3> DEFINE r == Power[i]
                   u == Low(b)[k]
                   v == Low(row)[i + k]
        <3> HIDE DEF k, p, q, y, z, c, d, r, u, v
        <3>8. (y * ad) * p + c * p = z * p + d * (Base * p)
            <4>1. (y * ad + c) * p = (z + d * Base) * p
                BY <3>3
            <4>2. (y * ad + c) * p = (y * ad) * p + c * p
                BY <3>2, <1>10
            <4>3. (z + d * Base) * p = z * p + d * (Base * p)
                BY <3>2, BaseType
            <4> QED BY <4>1, <4>2, <4>3
        <3>9. m * (u + y * q) = m * u + (y * ad) * p
            <4>1. m = ad * r /\ p = r * q
                BY <3>4 DEF r
            <4>2. r \in Nat /\ u \in Nat
                BY <3>5, <3>7 DEF r, u
            <4> HIDE DEF m
            <4>3. m * (u + y * q) = m * u + m * (y * q)
                BY <3>2, <4>2, <1>10
            <4>4. m * (y * q) = (y * ad) * p
                BY <3>2, <4>1, <4>2, <1>10
            <4> QED BY <4>3, <4>4
        <3> HIDE DEF m
        <3>10. /\ (y * ad) * p \in Nat /\ z * p \in Nat /\ c * p \in Nat
               /\ d * (Base * p) \in Nat /\ m * u \in Nat /\ v \in Nat
            BY <3>2, <3>5, <1>10, BaseType DEF u, v
        <3>11. v + c * p = m * u
            BY <3>6 DEF u, v
        <3>12. (v + z * p) + d * (Base * p) = m * (u + y * q)
            BY <3>8, <3>9, <3>10, <3>11
        <3>13. Low(row)[i + j] + d * Power[i + j] = m * Low(b)[j]
            BY <3>4, <3>5, <3>12 DEF u, v
        <3> QED BY <3>13 DEF d, m
    <2>3. \A j \in 0 .. w : j \in T
        <3> HIDE DEF T
        <3> QED BY <1>2, <2>1, <2>2, IntervalInduction
    <2> QED BY <2>3
<1>12. ValueOf(row) = m * ValueOf(b)
    <2>1. Low(row)[i + w] + carry[w] * Power[i + w] = m * ValueOf(b)
        BY <1>2, <1>11 DEF ValueOf
    <2>2. i + w \in Nat /\ Low(row)[i + w] \in Nat /\ Power[i + w] \in Nat
        <3> DEFINE l == i + w
        <3>1. l \in Nat
            BY <1>2
        <3> HIDE DEF l
        <3>2. Low(row)[l] \in Nat /\ Power[l] \in Nat
            BY <3>1, <1>9, LowType, PowerType
        <3> QED BY <3>1, <3>2 DEF l
    <2>3. CASE carry[w] # 0
        <3>1. Low(row)[(i + w) + 1] = Low(row)[i + w] + carry[w] * Power[i + w]
            BY <2>2, <2>3, <1>9, LowType
        <3> QED BY <3>1, <2>1, <2>2, <2>3, <1>9 DEF ValueOf
    <2>4. CASE carry[w] = 0
        BY <2>1, <2>2, <2>4, <1>9 DEF ValueOf
    <2> QED BY <2>3, <2>4
<1> QED BY <1>1, <1>9, <1>12

-----------------------------------------------------------------------------
LEMMA ZerosFacts ==
    ASSUME NEW n \in Nat \ {0}
    PROVE  Zeros(n) \in Numerals /\ ValueOf(Zeros(n)) = 0
<1> DEFINE d == Zeros(n)
<1>1. d \in Seq(Digits) /\ Len(d) = n /\ \A i \in 1 .. n : d[i] = 0
    BY BaseType DEF Zeros, Digits
<1> HIDE DEF d
<1>2. d \in Numerals
    BY <1>1 DEF Numerals
<1>3. \A i \in 0 .. n - 1 : At(d, i) = 0
    BY <1>1 DEF At
<1>4. Low(d)[n] = Low(d)[0] /\ Low(d)[0] = 0
    BY <1>2, <1>3, LowAbove, LowFacts
<1> QED BY <1>1, <1>2, <1>4 DEF ValueOf, d

\* A worker's share: the digits of a in its range, times b.
LEMMA PartialProductFacts ==
    ASSUME NEW a \in Numerals, NEW b \in Numerals, NEW begin \in Nat, NEW end \in Nat, begin <= end
    PROVE  /\ PartialProduct(a, b, begin, end) \in Numerals
           /\ ValueOf(PartialProduct(a, b, begin, end)) =
                 ValueOf(b) * (Low(a)[end] - Low(a)[begin])
<1> DEFINE w == end - begin
           zeros == Zeros(Len(a) + Len(b))
           place(k) == begin + k - 1
           Eq(f) == f = [k \in 0 .. w |->
                IF k = 0 THEN zeros
                ELSE LET i == begin + k - 1
                     IN  IF At(a, i) = 0 THEN f[k - 1] ELSE Plus(f[k - 1], Row(b, At(a, i), i))]
           step == [k \in 1 .. w |-> [x \in Numerals |->
                IF At(a, place(k)) = 0 THEN x
                ELSE Plus(x, Row(b, At(a, place(k)), place(k)))]]
<1>1. w \in Nat /\ zeros \in Numerals /\ ValueOf(zeros) = 0
    <2>1. Len(a) + Len(b) \in Nat \ {0}
        BY NumeralType
    <2> QED BY <2>1, ZerosFacts
<1>2. ASSUME NEW k \in 1 .. w, NEW x \in Numerals
      PROVE  /\ place(k) \in Nat
             /\ Plus(x, Row(b, At(a, place(k)), place(k))) \in Numerals
             /\ ValueOf(Plus(x, Row(b, At(a, place(k)), place(k)))) =
                   ValueOf(x) + At(a, place(k)) * Power[place(k)] * ValueOf(b)
    <2>1. place(k) \in Nat
        OBVIOUS
    <2> HIDE DEF place
    <2>2. At(a, place(k)) \in Digits
        BY <2>1, DigitType, BaseType DEF Digits
    <2>3. /\ Row(b, At(a, place(k)), place(k)) \in Numerals
          /\ ValueOf(Row(b, At(a, place(k)), place(k))) = At(a, place(k)) * Power[place(k)] * ValueOf(b)
        BY <2>1, <2>2, RowFacts
    <2> QED BY <2>1, <2>3, PlusFacts
<1> HIDE DEF place, w, zeros
<1>3. step \in [1 .. w -> [Numerals -> Numerals]]
    BY <1>2
<1>4. \A k \in 1 .. w : \A x \in Numerals :
          step[k][x] = IF At(a, place(k)) = 0 THEN x
                       ELSE Plus(x, Row(b, At(a, place(k)), place(k)))
    OBVIOUS
<1> HIDE DEF step
<1>5. Iterable(w, Numerals, zeros, step)
    BY <1>1, <1>3, Iteration
<1>6. PICK g \in [0 .. w -> Numerals] : g[0] = zeros /\ \A k \in 1 .. w : g[k] = step[k][g[k - 1]]
    BY <1>5 DEF Iterable
<1>7. \A k \in 1 .. w : g[k - 1] \in Numerals
    BY <1>1
<1>8. Eq(g)
    <2>1. \A k \in 1 .. w : g[k] = IF At(a, begin + k - 1) = 0 THEN g[k - 1]
                     ELSE Plus(g[k - 1], Row(b, At(a, begin + k - 1), begin + k - 1))
        BY <1>4, <1>6, <1>7 DEF place
    <2> QED BY <1>1, <1>6, <2>1
<1> DEFINE F == CHOOSE f : Eq(f)
<1>9. PartialProduct(a, b, begin, end) = F[w]
    BY DEF PartialProduct, w, zeros
<1>10. Eq(F)
    BY <1>8, Zenon
<1> HIDE DEF F
<1>11. /\ F[0] = zeros
       /\ \A k \in 1 .. w : F[k] = IF At(a, place(k)) = 0 THEN F[k - 1]
                                   ELSE Plus(F[k - 1], Row(b, At(a, place(k)), place(k)))
    BY <1>1, <1>10 DEF place
<1> DEFINE Right(k) == /\ F[k] \in Numerals
                       /\ ValueOf(F[k]) = ValueOf(b) * (Low(a)[begin + k] - Low(a)[begin])
           T == {k \in 0 .. w : Right(k)}
<1>12. 0 \in T
    <2>1. ValueOf(b) * (Low(a)[begin + 0] - Low(a)[begin]) = 0
        <3> DEFINE u == ValueOf(b)
                   l == Low(a)[begin]
        <3>1. u \in Nat /\ l \in Nat /\ begin + 0 = begin
            BY ValueType, LowType
        <3> HIDE DEF u, l
        <3>2. u * (l - l) = 0
            BY <3>1
        <3> QED BY <3>1, <3>2 DEF u, l
    <2> QED BY <1>1, <1>11, <2>1
<1>13. ASSUME NEW k \in 1 .. w, k - 1 \in T PROVE k \in T
    <2> DEFINE i == place(k)
               x == At(a, i)
               p == Power[i]
               v == ValueOf(b)
               l == Low(a)[begin]
               m == Low(a)[i]
    <2>1. i \in Nat /\ begin + k = i + 1 /\ begin + (k - 1) = i
        BY <1>1 DEF place
    <2>2. x \in Nat /\ p \in Nat /\ v \in Nat /\ l \in Nat /\ m \in Nat /\ Low(a)[begin + k] = m + x * p
        BY <2>1, DigitType, PowerType, ValueType, LowType
    <2>3. F[k - 1] \in Numerals /\ ValueOf(F[k - 1]) = v * (m - l)
        BY <1>13, <2>1
    <2>4. CASE x = 0
        <3>1. F[k] = F[k - 1]
            BY <1>11, <2>4
        <3>2. Low(a)[begin + k] = m
            BY <2>2, <2>4
        <3> QED BY <3>1, <3>2, <2>3
    <2>5. CASE x # 0
        <3>1. F[k] = Plus(F[k - 1], Row(b, x, i))
            BY <1>11, <2>5
        <3>2. F[k] \in Numerals /\ ValueOf(F[k]) = v * (m - l) + x * p * v
            BY <1>2, <2>3, <3>1
        <3>3. v * (m - l) + x * p * v = v * ((m + x * p) - l)
            <4> HIDE DEF x, p, v, m, l
            <4>1. v * ((m + x * p) - l) = v * m + v * (x * p) - v * l
                BY <2>2
            <4>2. v * (m - l) = v * m - v * l
                BY <2>2
            <4>3. v * (x * p) = x * p * v
                BY <2>2
            <4>4. v * m \in Nat /\ v * l \in Nat /\ v * (x * p) \in Nat
                BY <2>2
            <4> QED BY <4>1, <4>2, <4>3, <4>4
        <3> QED BY <3>2, <3>3, <2>2
    <2> QED BY <2>4, <2>5
<1>14. \A k \in 0 .. w : k \in T
    <2> HIDE DEF T
    <2> QED BY <1>1, <1>12, <1>13, IntervalInduction
<1>15. Right(w)
    <2>1. w \in 0 .. w
        BY <1>1
    <2> QED BY <2>1, <1>14
<1> QED BY <1>9, <1>15 DEF w

LEMMA TimesFacts ==
    ASSUME NEW l \in Numerals, NEW r \in Numerals
    PROVE  /\ Times(l, r) \in Numerals
           /\ ValueOf(Times(l, r)) = ValueOf(l) * ValueOf(r)
           /\ Normal(l) /\ Normal(r) => Normal(Times(l, r))
<1> DEFINE a == Shorter(l, r)
           b == Other(l, r)
           c == PartialProduct(a, b, 0, Len(a))
<1>1. \/ a = l /\ b = r
      \/ a = r /\ b = l
    <2>1. Len(l) \in Nat /\ Len(r) \in Nat
        BY NumeralType
    <2> QED BY <2>1 DEF Shorter, Other
<1>2. Times(l, r) = IF IsZero(a) THEN Zero ELSE IF IsUnity(a) THEN b ELSE RemoveLz(c)
    BY DEF Times
<1> HIDE DEF a, b
<1>3. a \in Numerals /\ b \in Numerals /\ (Normal(l) /\ Normal(r) => Normal(b))
    BY <1>1
<1>4. ValueOf(a) \in Nat /\ ValueOf(b) \in Nat /\ ValueOf(a) * ValueOf(b) = ValueOf(l) * ValueOf(r)
    <2>1. ValueOf(l) \in Nat /\ ValueOf(r) \in Nat
        BY ValueType
    <2>2. ValueOf(l) * ValueOf(r) = ValueOf(r) * ValueOf(l)
        <3> DEFINE u == ValueOf(l)
                   v == ValueOf(r)
        <3> HIDE DEF u, v
        <3>1. u \in Nat /\ v \in Nat => u * v = v * u
            OBVIOUS
        <3> QED BY <2>1, <3>1 DEF u, v
    <2> QED BY <1>1, <2>1, <2>2
<1>5. CASE IsZero(a)
    <2>1. ValueOf(a) = 0
        BY <1>5, SmallNumerals DEF IsZero
    <2> QED BY <2>1, <1>2, <1>4, <1>5, SmallNumerals, NormalType
<1>6. CASE ~ IsZero(a) /\ IsUnity(a)
    <2>1. ValueOf(a) = 1
        BY <1>6, SmallNumerals DEF IsUnity
    <2> QED BY <2>1, <1>2, <1>3, <1>4, <1>6
<1>7. CASE ~ IsZero(a) /\ ~ IsUnity(a)
    <2>1. c \in Numerals /\ ValueOf(c) = ValueOf(b) * (Low(a)[Len(a)] - Low(a)[0])
        BY <1>3, PartialProductFacts, NumeralType
    <2>2. Low(a)[Len(a)] = ValueOf(a) /\ Low(a)[0] = 0
        BY <1>3, LowFacts DEF ValueOf
    <2> HIDE DEF c
    <2>3. ValueOf(c) = ValueOf(a) * ValueOf(b)
        <3> DEFINE u == ValueOf(a)
                   v == ValueOf(b)
        <3>1. u \in Nat /\ v \in Nat /\ ValueOf(c) = v * (u - 0)
            BY <2>1, <2>2, <1>4
        <3> HIDE DEF u, v
        <3>2. ValueOf(c) = u * v
            BY <3>1
        <3> QED BY <3>2 DEF u, v
    <2>4. Times(l, r) = RemoveLz(c)
        BY <1>2, <1>7
    <2> QED BY <2>1, <2>3, <2>4, <1>4, RemoveLzFacts, NormalType
<1> QED BY <1>5, <1>6, <1>7

LEMMA FactorialOfFacts ==
    /\ FactorialOf[0] = 1
    /\ \A n \in Nat : FactorialOf[n] \in Nat /\ FactorialOf[n + 1] = (n + 1) * FactorialOf[n]
<1> DEFINE step == [i \in Nat |-> [x \in Nat |-> (i + 1) * x]]
           Eq(f) == f = [n \in Nat |-> IF n = 0 THEN 1 ELSE n * f[n - 1]]
<1>1. step \in [Nat -> [Nat -> Nat]] /\ \A i \in Nat : \A x \in Nat : step[i][x] = (i + 1) * x
    OBVIOUS
<1> HIDE DEF step
<1>2. Endless(Nat, 1, step)
    BY <1>1, EndlessIteration
<1>3. PICK g \in [Nat -> Nat] : g[0] = 1 /\ \A i \in Nat : g[i + 1] = step[i][g[i]]
    BY <1>2 DEF Endless
<1>4. ASSUME NEW n \in Nat PROVE g[n] = IF n = 0 THEN 1 ELSE n * g[n - 1]
    <2>1. CASE n # 0
        <3> DEFINE m == n - 1
        <3>1. m \in Nat /\ m + 1 = n
            BY <2>1
        <3> HIDE DEF m
        <3>2. g[m + 1] = (m + 1) * g[m]
            BY <3>1, <1>1, <1>3
        <3> QED BY <3>1, <3>2, <2>1 DEF m
    <2> QED BY <2>1, <1>3
<1>5. Eq(g)
    BY <1>4
<1>6. Eq(FactorialOf)
    BY <1>5, Zenon DEF FactorialOf
<1>7. \A n \in Nat : FactorialOf[n] = IF n = 0 THEN 1 ELSE n * FactorialOf[n - 1]
    BY <1>6
<1>8. FactorialOf[0] = 1 /\ \A n \in Nat : FactorialOf[n + 1] = (n + 1) * FactorialOf[n]
    BY <1>7
<1>9. \A n \in Nat : FactorialOf[n] \in Nat
    <2> DEFINE T == {n \in Nat : FactorialOf[n] \in Nat}
    <2>1. 0 \in T /\ \A n \in Nat : n \in T => n + 1 \in T
        BY <1>8
    <2>2. Nat \subseteq T
        <3> HIDE DEF T
        <3> QED BY <2>1, SetInduction
    <2> QED BY <2>2
<1> QED BY <1>8, <1>9

LEMMA FactorialFacts ==
    ASSUME NEW x, Normal(x)
    PROVE  Normal(Factorial(x)) /\ ValueOf(Factorial(x)) = FactorialOf[ValueOf(x)]
<1> DEFINE v == ValueOf(x)
           S == Numerals \X Numerals
           c == <<x, Minus(x, One)>>
           round(p) == IF IsUnity(p[2]) THEN <<p[1], p[2]>>
                       ELSE <<Times(p[1], p[2]), Minus(p[2], One)>>
           Eq(f) == f = [n \in 0 .. v |-> IF n = 0 THEN c ELSE round(f[n - 1])]
           step == [n \in 1 .. v |-> [p \in S |-> round(p)]]
           F == CHOOSE f : Eq(f)
<1>1. x \in Numerals /\ One \in Numerals /\ v \in Nat
    BY NormalType, SmallNumerals, ValueType
<1>2. CASE IsZero(x) \/ IsUnity(x)
    <2>1. FactorialOf[0] = 1 /\ FactorialOf[0 + 1] = (0 + 1) * FactorialOf[0]
        BY FactorialOfFacts
    <2>2. v = 0 \/ v = 1
        BY <1>2, SmallAreRecognised
    <2>3. Factorial(x) = One
        BY <1>2 DEF Factorial
    <2> QED BY <2>1, <2>2, <2>3, SmallNumerals
<1>3. CASE ~ IsZero(x) /\ ~ IsUnity(x)
    <2>1. v >= 2
        BY <1>1, <1>3, SmallAreRecognised
    <2>2. Factorial(x) = F[v][1]
        BY <1>3, Zenon DEF Factorial
    <2>3. c \in S /\ \A p \in S : round(p) \in S
        BY <1>1, TimesFacts, MinusFacts
    <2> HIDE DEF c, round, S, v
    <2>4. step \in [1 .. v -> [S -> S]] /\ \A n \in 1 .. v : \A p \in S : step[n][p] = round(p)
        BY <2>3
    <2> HIDE DEF step
    <2>6. Iterable(v, S, c, step)
        BY <1>1, <2>3, <2>4, Iteration
    <2>7. PICK g \in [0 .. v -> S] : g[0] = c /\ \A n \in 1 .. v : g[n] = step[n][g[n - 1]]
        BY <2>6 DEF Iterable
    <2>8. Eq(g)
        <3>1. \A n \in 1 .. v : g[n - 1] \in S
            BY <1>1
        <3> QED BY <1>1, <2>4, <2>7, <3>1
    <2>9. Eq(F)
        BY <2>8, Zenon
    <2> HIDE DEF F
    <2>10. F[0] = c /\ \A n \in 1 .. v : F[n] = round(F[n - 1])
        BY <1>1, <2>9
    <2>11. \A n \in 1 .. v :
               /\ IsUnity(F[n - 1][2]) => F[n][1] = F[n - 1][1] /\ F[n][2] = F[n - 1][2]
               /\ ~ IsUnity(F[n - 1][2]) =>
                     F[n][1] = Times(F[n - 1][1], F[n - 1][2]) /\ F[n][2] = Minus(F[n - 1][2], One)
        <3>1. \A p : /\ IsUnity(p[2]) => round(p)[1] = p[1] /\ round(p)[2] = p[2]
                     /\ ~ IsUnity(p[2]) =>
                           round(p)[1] = Times(p[1], p[2]) /\ round(p)[2] = Minus(p[2], One)
            BY DEF round
        <3> QED BY <2>10, <3>1
    <2>0. F[0][1] = x /\ F[0][2] = Minus(x, One)
        BY <2>10 DEF c
    <2> USE DEF v
    <2> DEFINE r(n) == F[n][1]
               i(n) == F[n][2]
               Right(n) == /\ Normal(r(n)) /\ Normal(i(n))
                           /\ ValueOf(i(n)) >= 1
                           /\ ValueOf(i(n)) = 1 \/ ValueOf(i(n)) <= v - 1 - n
                           /\ ValueOf(r(n)) * FactorialOf[ValueOf(i(n))] = FactorialOf[v]
               T == {n \in 0 .. v : Right(n)}
    <2>12. \A d : Normal(d) /\ ValueOf(d) >= 1 =>
               Normal(Minus(d, One)) /\ ValueOf(Minus(d, One)) = ValueOf(d) - 1
        <3> SUFFICES ASSUME NEW d, Normal(d), ValueOf(d) >= 1
                     PROVE  Normal(Minus(d, One)) /\ ValueOf(Minus(d, One)) = ValueOf(d) - 1
            OBVIOUS
        <3>1. d \in Numerals /\ Len(One) = 1 /\ Len(d) \in Nat \ {0} /\ ValueOf(One) = 1
            BY NormalType, NumeralType, SmallNumerals DEF One
        <3>2. LastBorrow(d, One) = 0
            BY <1>1, <3>1, BorrowMeansLess
        <3>3. Len(One) <= Len(d)
            BY <3>1
        <3>4. ValueOf(Minus(d, One)) = ValueOf(d) - ValueOf(One)
            BY <1>1, <3>1, <3>2, <3>3, MinusFacts
        <3> QED BY <1>1, <3>1, <3>4, MinusFacts
    <2>13. 0 \in T
        <3>1. r(0) = x /\ i(0) = Minus(x, One)
            BY <2>0
        <3>2. Normal(i(0)) /\ ValueOf(i(0)) = v - 1
            BY <1>1, <2>1, <2>12, <3>1
        <3> DEFINE m == v - 1
        <3>3. m \in Nat /\ m + 1 = v
            BY <2>1, <1>1
        <3>4. FactorialOf[m + 1] = (m + 1) * FactorialOf[m]
            BY <3>3, FactorialOfFacts
        <3>5. v * FactorialOf[m] = FactorialOf[v]
            <4> HIDE DEF m, v
            <4> QED BY <3>3, <3>4
        <3> QED BY <3>1, <3>2, <3>5, <2>1, <1>1
    <2>14. ASSUME NEW n \in 1 .. v, n - 1 \in T PROVE n \in T
        <3> DEFINE k == n - 1
        <3>1. Right(k)
            BY <2>14
        <3>2. CASE IsUnity(i(k))
            <4>1. r(n) = r(k) /\ i(n) = i(k)
                BY <2>11, <3>2
            <4>2. ValueOf(i(k)) = 1
                BY <3>1, <3>2, SmallAreRecognised
            <4> QED BY <3>1, <4>1, <4>2
        <3>3. CASE ~ IsUnity(i(k))
            <4>1. r(n) = Times(r(k), i(k)) /\ i(n) = Minus(i(k), One)
                BY <2>11, <3>3
            <4> DEFINE u == ValueOf(i(k))
                       t == ValueOf(r(k))
                       m == u - 1
            <4>2. r(k) \in Numerals /\ i(k) \in Numerals
                BY <3>1, NormalType
            <4>3. u \in Nat /\ t \in Nat /\ u # 1 /\ u >= 1
                BY <3>1, <3>3, <4>2, ValueType, SmallAreRecognised
            <4>4. Normal(r(n)) /\ ValueOf(r(n)) = t * u
                BY <3>1, <4>1, <4>2, TimesFacts
            <4>5. Normal(i(n)) /\ ValueOf(i(n)) = m
                BY <3>1, <4>1, <2>12
            <4>6. m \in Nat /\ m >= 1 /\ m + 1 = u /\ m <= v - 1 - n
                <5>1. u <= v - 1 - k
                    BY <3>1, <4>3
                <5> HIDE DEF u
                <5> QED BY <4>3, <5>1, <1>1
            <4>7. (t * u) * FactorialOf[m] = FactorialOf[v]
                <5>1. FactorialOf[m] \in Nat /\ FactorialOf[m + 1] = (m + 1) * FactorialOf[m]
                    BY <4>6, FactorialOfFacts
                <5>2. t * FactorialOf[u] = FactorialOf[v]
                    BY <3>1
                <5> DEFINE y == FactorialOf[m]
                <5>3. FactorialOf[u] = u * y /\ y \in Nat
                    BY <4>6, <5>1
                <5> HIDE DEF t, u, y
                <5>4. t * (u * y) = (t * u) * y
                    BY <4>3, <5>3
                <5> QED BY <5>2, <5>3, <5>4 DEF y
            <4> QED BY <4>4, <4>5, <4>6, <4>7
        <3> QED BY <3>2, <3>3
    <2>15. \A n \in 0 .. v : n \in T
        <3> HIDE DEF T, v
        <3> QED BY <1>1, <2>13, <2>14, IntervalInduction
    <2>16. Right(v)
        <3>1. v \in 0 .. v
            BY <1>1
        <3> HIDE DEF v, Right
        <3> QED BY <2>15, <3>1
    <2>17. ValueOf(i(v)) = 1
        BY <2>16, <1>1, ValueType, NormalType
    <2>18. FactorialOf[1] = 1
        <3>1. FactorialOf[0] = 1 /\ FactorialOf[0 + 1] = (0 + 1) * FactorialOf[0]
            BY FactorialOfFacts
        <3> QED BY <3>1
    <2>19. ValueOf(r(v)) \in Nat
        BY <2>16, NormalType, ValueType
    <2>20. ValueOf(r(v)) = FactorialOf[v]
        <3> HIDE DEF r, i, v
        <3> QED BY <2>16, <2>17, <2>18, <2>19
    <2> QED BY <2>2, <2>16, <2>20
<1> QED BY <1>2, <1>3

-----------------------------------------------------------------------------
(* Conversions from and to integers.                                        *)

\* A least significant digit more.
LEMMA PrependFacts ==
    ASSUME NEW d \in Numerals, NEW x \in Digits
    PROVE  /\ <<x>> \o d \in Numerals
           /\ Len(<<x>> \o d) = Len(d) + 1
           /\ (<<x>> \o d)[Len(d) + 1] = d[Len(d)]
           /\ ValueOf(<<x>> \o d) = x + Base * ValueOf(d)
<1> DEFINE e == <<x>> \o d
           w == Len(d)
<1>1. w \in Nat \ {0} /\ d \in Seq(Digits) /\ x \in Nat
    BY NumeralType, BaseType DEF Digits
<1>2. /\ e \in Seq(Digits) /\ Len(e) = w + 1 /\ e[1] = x
      /\ \A i \in 1 .. w : e[i + 1] = d[i]
    BY <1>1
<1> HIDE DEF e, w
<1>3. e \in Numerals
    BY <1>1, <1>2 DEF Numerals
<1>4. At(e, 0) = x /\ \A i \in 0 .. w - 1 : At(e, i + 1) = At(d, i)
    BY <1>1, <1>2 DEF At, w
<1>5. \A i \in 0 .. w : Low(e)[i + 1] = x + Base * Low(d)[i]
    <2> DEFINE T == {i \in 0 .. w : Low(e)[i + 1] = x + Base * Low(d)[i]}
    <2>1. 0 \in T
        <3>1. Low(e)[0 + 1] = Low(e)[0] + At(e, 0) * Power[0]
            BY <1>3, LowType
        <3>2. Low(e)[0] = 0 /\ Low(d)[0] = 0 /\ Power[0] = 1
            BY <1>3, LowFacts, PowerFacts
        <3>3. Low(e)[1] = x
            BY <3>1, <3>2, <1>1, <1>4
        <3>4. Base * 0 = 0
            BY BaseType
        <3> QED BY <3>2, <3>3, <3>4, <1>1
    <2>2. ASSUME NEW i \in 1 .. w, i - 1 \in T PROVE i \in T
        <3> DEFINE j == i - 1
                   l == Low(d)[j]
                   y == At(d, j)
                   p == Power[j]
        <3>1. j \in 0 .. w - 1 /\ j \in Nat /\ j + 1 = i
            BY <1>1
        <3>2. l \in Nat /\ y \in Nat /\ p \in Nat
            BY <3>1, LowType, DigitType, PowerType
        <3>3. Low(d)[i] = l + y * p /\ Power[i] = Base * p
            BY <3>1, LowType, PowerType
        <3>4. Low(e)[i + 1] = Low(e)[i] + At(e, i) * Power[i]
            BY <1>3, LowType
        <3>5. Low(e)[i] = x + Base * l /\ At(e, i) = y
            BY <2>2, <3>1, <1>4
        <3> HIDE DEF j, l, y, p
        <3>6. (x + Base * l) + y * (Base * p) = x + Base * (l + y * p)
            BY <3>2, <1>1, BaseType
        <3> QED BY <3>3, <3>4, <3>5, <3>6
    <2>3. \A i \in 0 .. w : i \in T
        <3> HIDE DEF T
        <3> QED BY <1>1, <2>1, <2>2, IntervalInduction
    <2> QED BY <2>3
<1>6. Low(e)[w + 1] = x + Base * Low(d)[w]
    BY <1>1, <1>5
<1> QED BY <1>1, <1>2, <1>3, <1>6 DEF ValueOf, e, w

LEMMA FromIntegerFacts ==
    ASSUME NEW n \in Nat
    PROVE  Normal(FromInteger(n)) /\ ValueOf(FromInteger(n)) = n
<1> DEFINE S == Seq(Digits)
           before == [v \in 1 .. n |-> v \div Base]
           step == [v \in 1 .. n |-> [d \in S |-> <<v % Base>> \o d]]
           Eq(f) == f = [v \in 0 .. n |-> IF v = 0 THEN <<>> ELSE <<v % Base>> \o f[v \div Base]]
           F == CHOOSE f : Eq(f)
<1>1. ASSUME NEW v \in 1 .. n
      PROVE  v \div Base \in 0 .. v - 1 /\ v % Base \in Digits
    BY BaseType DEF Digits
<1>2. \A v \in 1 .. n : before[v] \in 0 .. v - 1 /\ before[v] = v \div Base
    BY <1>1
<1>3. <<>> \in S /\ \A v \in 1 .. n : \A d \in S : <<v % Base>> \o d \in S
    BY <1>1
<1>4. \A v \in 1 .. n : \A d \in S : step[v][d] = <<v % Base>> \o d
    OBVIOUS
<1> HIDE DEF before, step, S
<1>5. Solvable(n, S, <<>>, before, step)
    BY <1>2, <1>3, <1>4, Recursion
<1>6. PICK g \in [0 .. n -> S] : g[0] = <<>> /\ \A v \in 1 .. n : g[v] = step[v][g[before[v]]]
    BY <1>5 DEF Solvable
<1>7. Eq(g)
    <2>1. \A v \in 1 .. n : v \div Base \in 0 .. n
        BY <1>1
    <2>2. \A v \in 1 .. n : g[v] = <<v % Base>> \o g[v \div Base]
        BY <1>2, <1>4, <1>6, <2>1
    <2> QED BY <1>6, <2>2
<1>8. Eq(F)
    BY <1>7, Zenon
<1>0. n # 0 => FromInteger(n) = F[n]
    BY Zenon DEF FromInteger
<1> HIDE DEF F
<1>9. F[0] = <<>> /\ \A v \in 1 .. n : F[v] = <<v % Base>> \o F[v \div Base]
    <2>1. \A v \in 0 .. n : F[v] = IF v = 0 THEN <<>> ELSE <<v % Base>> \o F[v \div Base]
        BY <1>8
    <2>2. 0 \in 0 .. n /\ \A v \in 1 .. n : v \in 0 .. n /\ v # 0
        OBVIOUS
    <2> QED BY <2>1, <2>2, Zenon
<1> DEFINE Right(v) == F[v] \in Numerals /\ F[v][Len(F[v])] # 0 /\ ValueOf(F[v]) = v
           T == {v \in Nat : v \in 1 .. n => Right(v)}
<1>10. ASSUME NEW v \in Nat, \A k \in 0 .. v - 1 : k \in T PROVE v \in T
    <2> SUFFICES ASSUME v \in 1 .. n PROVE Right(v)
        OBVIOUS
    <2> DEFINE q == v \div Base
               x == v % Base
    <2>1. q \in 0 .. v - 1 /\ x \in Digits /\ x \in 0 .. Base - 1 /\ v = Base * q + x
        <3>1. q \in 0 .. v - 1 /\ x \in Digits
            BY <1>1
        <3>2. x \in 0 .. Base - 1 /\ v = Base * q + x
            BY Division, BaseType
        <3> QED BY <3>1, <3>2
    <2>2. F[v] = <<x>> \o F[q]
        BY <1>9
    <2> HIDE DEF q, x
    <2>3. CASE q = 0
        <3>1. F[v] = <<x>> /\ x = v /\ x \in Nat
            BY <2>1, <2>2, <2>3, <1>9, BaseType
        <3> DEFINE d == <<x>>
        <3>2. d \in Seq(Digits) /\ Len(d) = 1 /\ d[1] = x
            BY <2>1
        <3> HIDE DEF d
        <3>3. d \in Numerals
            BY <3>2 DEF Numerals
        <3>4. Low(d)[0 + 1] = Low(d)[0] + At(d, 0) * Power[0]
            BY <3>3, LowType
        <3>5. ValueOf(d) = x
            <4>1. At(d, 0) = x /\ Low(d)[0] = 0 /\ Power[0] = 1
                BY <3>2, <3>3, LowFacts, PowerFacts DEF At
            <4>2. Low(d)[1] = x
                BY <3>1, <3>4, <4>1
            <4> QED BY <3>2, <4>2 DEF ValueOf
        <3>6. F[v] = d
            BY <3>1 DEF d
        <3> QED BY <3>1, <3>2, <3>3, <3>5, <3>6
    <2>4. CASE q # 0
        <3>1. Right(q)
            BY <1>10, <2>1, <2>4
        <3>2. /\ F[v] \in Numerals /\ Len(F[v]) = Len(F[q]) + 1
              /\ F[v][Len(F[q]) + 1] = F[q][Len(F[q])]
              /\ ValueOf(F[v]) = x + Base * ValueOf(F[q])
            BY <2>1, <2>2, <3>1, PrependFacts
        <3>3. x + Base * q = v
            BY <2>1, BaseType
        <3> QED BY <3>1, <3>2, <3>3
    <2> QED BY <2>3, <2>4
<1>11. Nat \subseteq T
    <2> HIDE DEF T
    <2> QED BY <1>10, StrongInduction
<1>12. CASE n = 0
    BY <1>12, SmallNumerals DEF FromInteger
<1>13. CASE n # 0
    <2>1. FromInteger(n) = F[n]
        BY <1>0, <1>13
    <2>2. Right(n)
        BY <1>11, <1>13
    <2> QED BY <2>1, <2>2 DEF Normal
<1> QED BY <1>12, <1>13

\* The digits in normal form are those of the number.
LEMMA NormalIsFromInteger ==
    ASSUME NEW d, Normal(d)
    PROVE  d = FromInteger(ValueOf(d))
BY NormalType, ValueType, FromIntegerFacts, SameValue

\* The number, or an exception when it does not fit.
LEMMA ToIntegerFacts ==
    ASSUME NEW d \in Numerals, NEW max \in Nat, Base <= max
    PROVE  ToInteger(d, max) = IF ValueOf(d) <= max THEN ValueOf(d) ELSE Overflow
<1> DEFINE w == Len(d)
           S == Nat \cup {Overflow}
           digit(k) == At(d, w - k)
           more(k, r) == IF r = Overflow \/ (max - digit(k)) \div Base < r THEN Overflow
                         ELSE r * Base + digit(k)
           step == [k \in 1 .. w |-> [r \in S |-> more(k, r)]]
           Eq(f) == f = [k \in 0 .. w |->
               IF k = 0 THEN 0
               ELSE LET r == f[k - 1]
                        x == At(d, w - k)
                    IN  IF r = Overflow \/ (max - x) \div Base < r THEN Overflow
                        ELSE r * Base + x]
           F == CHOOSE f : Eq(f)
<1>1. w \in Nat /\ 0 \in S
    BY NumeralType
<1>2. \A k \in 1 .. w : digit(k) \in Nat /\ digit(k) < Base
    <2> SUFFICES ASSUME NEW k \in 1 .. w PROVE digit(k) \in Nat /\ digit(k) < Base
        OBVIOUS
    <2>1. w - k \in Nat
        BY <1>1
    <2> QED BY <2>1, DigitType
<1>3. ASSUME NEW k \in 1 .. w, NEW r \in Nat
      PROVE  /\ r * Base + digit(k) \in Nat
             /\ (max - digit(k)) \div Base < r <=> r * Base + digit(k) > max
    <2> DEFINE x == digit(k)
               m == max - x
               q == m \div Base
    <2>1. x \in Nat /\ x < Base
        BY <1>2
    <2>2. m \in Nat /\ max = m + x
        <3> HIDE DEF x
        <3> QED BY <2>1, BaseType
    <2> HIDE DEF x, m
    <2>3. q \in Int /\ m % Base \in 0 .. Base - 1 /\ m = Base * q + (m % Base)
        BY <2>2, Division, BaseType
    <2>4. q < r <=> r * Base > m
        <3> DEFINE y == m % Base
        <3> HIDE DEF q, y
        <3>0. y \in 0 .. Base - 1 /\ m = Base * q + y
            BY <2>3 DEF y
        <3>1. CASE q < r
            <4>1. Base * (q + 1) <= Base * r
                BY <2>3, <3>1, BaseType
            <4>2. Base * (q + 1) = Base * q + Base
                BY <2>3, BaseType
            <4>3. Base * r = r * Base /\ Base * r \in Nat /\ Base * q \in Int
                BY <2>3, BaseType
            <4> QED BY <3>0, <3>1, <4>1, <4>2, <4>3, BaseType
        <3>2. CASE q >= r
            <4>1. Base * r <= Base * q
                BY <2>3, <3>2, BaseType
            <4>2. Base * r = r * Base /\ Base * r \in Nat /\ Base * q \in Int
                BY <2>3, BaseType
            <4> QED BY <2>3, <3>0, <3>2, <4>1, <4>2, BaseType
        <3> QED BY <2>3, <3>1, <3>2
    <2>5. r * Base \in Nat
        BY BaseType
    <2>6. q < r <=> r * Base + x > max
        <3> HIDE DEF q
        <3> QED BY <2>1, <2>2, <2>4, <2>5
    <2> QED BY <2>1, <2>5, <2>6 DEF x, m
<1> HIDE DEF digit, w
<1>4. \A k \in 1 .. w : \A r \in S : more(k, r) \in S
    BY <1>3
<1>5. step \in [1 .. w -> [S -> S]] /\ \A k \in 1 .. w : \A r \in S : step[k][r] = more(k, r)
    <2> HIDE DEF more, S
    <2> QED BY <1>4
<1> HIDE DEF step, S
<1>6. Iterable(w, S, 0, step)
    BY <1>1, <1>5, Iteration
<1>7. PICK g \in [0 .. w -> S] : g[0] = 0 /\ \A k \in 1 .. w : g[k] = step[k][g[k - 1]]
    BY <1>6 DEF Iterable
<1>8. Eq(g)
    <2>1. \A k \in 1 .. w : g[k - 1] \in S
        BY <1>1
    <2>2. \A k \in 1 .. w : g[k] = more(k, g[k - 1])
        BY <1>5, <1>7, <2>1
    <2>3. g = [k \in 0 .. w |-> IF k = 0 THEN 0 ELSE more(k, g[k - 1])]
        <3> HIDE DEF more
        <3> QED BY <1>1, <1>7, <2>2
    <2> QED BY <2>3, Zenon DEF digit
<1>9. ToInteger(d, max) = F[w]
    BY Zenon DEF ToInteger, w
<1>10. Eq(F)
    BY <1>8, Zenon
<1> HIDE DEF F
<1>11. F[0] = 0 /\ \A k \in 1 .. w : F[k] = more(k, F[k - 1])
    <2>1. F = [k \in 0 .. w |-> IF k = 0 THEN 0 ELSE more(k, F[k - 1])]
        BY <1>10, Zenon DEF digit
    <2> HIDE DEF more
    <2> QED BY <1>1, <2>1
<1> DEFINE v == ValueOf(d)
           Right(k) == IF F[k] = Overflow THEN v > max
                       ELSE /\ F[k] \in Nat /\ F[k] <= max
                            /\ F[k] * Power[w - k] + Low(d)[w - k] = v
           T == {k \in 0 .. w : Right(k)}
<1>12. v \in Nat /\ v = Low(d)[w]
    BY ValueType DEF ValueOf, w
<1>13. 0 \in T
    <2>1. 0 * Power[w - 0] = 0 /\ w - 0 = w
        <3>1. w - 0 = w
            BY <1>1
        <3>2. Power[w] \in Nat
            BY <1>1, PowerType
        <3> QED BY <3>1, <3>2
    <2>2. 0 # Overflow
        BY DEF Overflow
    <2> QED BY <1>1, <1>11, <1>12, <2>1, <2>2
<1>14. ASSUME NEW k \in 1 .. w, k - 1 \in T PROVE k \in T
    <2> DEFINE r == F[k - 1]
               i == w - k
               p == Power[i]
               l == Low(d)[i]
               x == digit(k)
    <2>1. i \in Nat /\ w - (k - 1) = i + 1
        BY <1>1
    <2>2. F[k] = more(k, r)
        BY <1>11
    <2>3. CASE r = Overflow
        <3>1. F[k] = Overflow /\ v > max
            BY <1>14, <2>2, <2>3
        <3> QED BY <3>1
    <2>4. CASE r # Overflow
        <3>1. r \in Nat /\ r * Power[i + 1] + Low(d)[i + 1] = v
            BY <1>14, <2>1, <2>4
        <3>2. p \in Nat /\ p > 0 /\ l \in Nat /\ x \in Nat
            BY <1>2, <2>1, PowerType, LowType
        <3>3. Power[i + 1] = Base * p /\ Low(d)[i + 1] = l + x * p
            BY <2>1, PowerType, LowType DEF digit
        <3>4. (r * Base + x) * p + l = v
            <4> HIDE DEF r, p, l, x
            <4>1. r * (Base * p) + (l + x * p) = (r * Base + x) * p + l
                BY <3>1, <3>2, BaseType
            <4> QED BY <3>1, <3>3, <4>1
        <3>5. r * Base + x \in Nat /\ ((max - x) \div Base < r <=> r * Base + x > max)
            BY <1>3, <3>1
        <3>6. r * Base + x <= v
            <4> DEFINE m == r * Base + x
            <4>1. m \in Nat /\ m * p + l = v
                BY <3>4, <3>5
            <4> HIDE DEF m, p, l, v
            <4>2. m <= m * p
                BY <3>2, <4>1
            <4> QED BY <1>12, <3>2, <4>1, <4>2 DEF m
        <3>7. CASE r * Base + x > max
            <4>1. F[k] = Overflow
                BY <2>2, <3>5, <3>7
            <4>2. v > max
                BY <1>12, <3>5, <3>6, <3>7
            <4> QED BY <4>1, <4>2
        <3>8. CASE ~ (r * Base + x > max)
            <4>1. F[k] = r * Base + x
                BY <2>2, <2>4, <3>5, <3>8
            <4>2. F[k] # Overflow
                BY <3>5, <4>1 DEF Overflow
            <4> QED BY <3>4, <3>5, <3>8, <4>1, <4>2
        <3> QED BY <3>7, <3>8
    <2> QED BY <2>3, <2>4
<1>15. Right(w)
    <2>1. \A k \in 0 .. w : k \in T
        <3> HIDE DEF T
        <3> QED BY <1>1, <1>13, <1>14, IntervalInduction
    <2> QED BY <1>1, <2>1
<1>16. CASE F[w] = Overflow
    BY <1>9, <1>12, <1>15, <1>16
<1>17. CASE F[w] # Overflow
    <2>1. F[w] \in Nat /\ F[w] <= max /\ F[w] * Power[0] + Low(d)[0] = v
        BY <1>1, <1>15, <1>17
    <2>2. F[w] = v
        <3>1. Power[0] = 1 /\ Low(d)[0] = 0
            BY PowerFacts, LowFacts
        <3> QED BY <2>1, <3>1
    <2> QED BY <1>9, <2>1, <2>2
<1> QED BY <1>16, <1>17

-----------------------------------------------------------------------------
(* Conversions to and from texts.                                           *)

Characters == Digits \cup {Comma}
Texts == Seq(Characters)
DigitsIn(text) == Reading(text)[Len(text)]

LEMMA ReadingFacts ==
    ASSUME NEW text \in Texts
    PROVE  /\ \A i \in 0 .. Len(text) : Reading(text)[i] \in Seq(Digits)
           /\ Reading(text)[0] = <<>>
           /\ \A i \in 1 .. Len(text) : Reading(text)[i] =
                 LET c == text[Len(text) - i + 1]
                 IN  IF c = Comma THEN Reading(text)[i - 1] ELSE Append(Reading(text)[i - 1], c)
<1> DEFINE w == Len(text)
           S == Seq(Digits)
           char(i) == text[w - i + 1]
           more(i, x) == IF char(i) = Comma THEN x ELSE Append(x, char(i))
           Eq(f) == f = [i \in 0 .. w |->
               IF i = 0 THEN <<>>
               ELSE LET c == text[w - i + 1]
                    IN  IF c = Comma THEN f[i - 1] ELSE Append(f[i - 1], c)]
           step == [i \in 1 .. w |-> [x \in S |-> more(i, x)]]
           F == Reading(text)
<1>1. w \in Nat /\ <<>> \in S /\ \A i \in 1 .. w : char(i) \in Characters
    BY DEF Texts
<1> HIDE DEF char, w
<1>2. \A i \in 1 .. w : \A x \in S : more(i, x) \in S
    BY <1>1 DEF Characters
<1> HIDE DEF S
<1>3. step \in [1 .. w -> [S -> S]] /\ \A i \in 1 .. w : \A x \in S : step[i][x] = more(i, x)
    <2> HIDE DEF more
    <2> QED BY <1>2
<1> HIDE DEF step
<1>4. Iterable(w, S, <<>>, step)
    BY <1>1, <1>3, Iteration
<1>5. PICK g \in [0 .. w -> S] : g[0] = <<>> /\ \A i \in 1 .. w : g[i] = step[i][g[i - 1]]
    BY <1>4 DEF Iterable
<1>6. \A i \in 1 .. w : g[i - 1] \in S
    BY <1>1
<1>7. g = [i \in 0 .. w |-> IF i = 0 THEN <<>> ELSE more(i, g[i - 1])]
    <2> HIDE DEF more
    <2> QED BY <1>1, <1>3, <1>5, <1>6
<1>8. Eq(g)
    BY <1>7, Zenon DEF char
<1>9. Eq(F)
    BY <1>8, Zenon DEF Reading, w
<1>10. F = [i \in 0 .. w |-> IF i = 0 THEN <<>> ELSE more(i, F[i - 1])]
    BY <1>9, Zenon DEF char
<1> HIDE DEF F
<1>11. F[0] = <<>> /\ \A i \in 1 .. w : F[i] = more(i, F[i - 1])
    <2> HIDE DEF more
    <2> QED BY <1>1, <1>10
<1> DEFINE T == {i \in 0 .. w : F[i] \in S}
<1>12. 0 \in T /\ \A i \in 1 .. w : i - 1 \in T => i \in T
    <2> HIDE DEF more
    <2> QED BY <1>1, <1>2, <1>11
<1>13. \A i \in 0 .. w : i \in T
    <2> HIDE DEF T
    <2> QED BY <1>1, <1>12, IntervalInduction
<1>14. \A i \in 0 .. w : F[i] \in S
    BY <1>13
<1> QED BY <1>11, <1>14, Zenon DEF char, F, w, S

\* A character before all others is read last.
LEMMA DigitsInLonger ==
    ASSUME NEW text \in Texts, NEW c \in Characters
    PROVE  /\ <<c>> \o text \in Texts
           /\ DigitsIn(<<c>> \o text) =
                 IF c = Comma THEN DigitsIn(text) ELSE Append(DigitsIn(text), c)
<1> DEFINE w == Len(text)
           long == <<c>> \o text
           R == Reading(text)
           Q == Reading(long)
<1>1. w \in Nat
    BY DEF Texts
<1>2. /\ long \in Texts /\ Len(long) = w + 1 /\ long[1] = c
      /\ \A i \in 1 .. w : long[i + 1] = text[i]
    BY DEF Texts
<1> HIDE DEF long
<1>3. /\ Q[0] = <<>>
      /\ \A i \in 1 .. w + 1 : Q[i] =
            IF long[(w + 1) - i + 1] = Comma THEN Q[i - 1]
            ELSE Append(Q[i - 1], long[(w + 1) - i + 1])
    BY <1>2, ReadingFacts
<1>4. /\ R[0] = <<>>
      /\ \A i \in 1 .. w : R[i] =
            IF text[w - i + 1] = Comma THEN R[i - 1] ELSE Append(R[i - 1], text[w - i + 1])
    BY ReadingFacts
<1> HIDE DEF R, Q, w
<1> DEFINE T == {i \in 0 .. w : Q[i] = R[i]}
<1>5. 0 \in T
    BY <1>1, <1>3, <1>4
<1>6. ASSUME NEW i \in 1 .. w, i - 1 \in T PROVE i \in T
    <2>1. w - i + 1 \in 1 .. w /\ (w + 1) - i + 1 = (w - i + 1) + 1 /\ i \in 1 .. w + 1
        BY <1>1
    <2>2. long[(w + 1) - i + 1] = text[w - i + 1]
        BY <1>2, <2>1
    <2> QED BY <1>3, <1>4, <1>6, <2>1, <2>2
<1>7. \A i \in 0 .. w : i \in T
    <2> HIDE DEF T
    <2> QED BY <1>1, <1>5, <1>6, IntervalInduction
<1>8. Q[w] = R[w]
    BY <1>1, <1>7
<1>9. Q[w + 1] = IF c = Comma THEN Q[w] ELSE Append(Q[w], c)
    <2>1. w + 1 \in 1 .. w + 1 /\ (w + 1) - (w + 1) + 1 = 1 /\ (w + 1) - 1 = w
        BY <1>1
    <2> QED BY <1>2, <1>3, <2>1
<1> QED BY <1>2, <1>8, <1>9 DEF DigitsIn, R, Q, w, long

\* What is written is read, with as many zeros in front as one likes.
LEMMA WrittenIsRead ==
    ASSUME NEW d \in Numerals
    PROVE  ToText(d) \in Texts /\ DigitsIn(ToText(d)) = d
<1> DEFINE w == Len(d)
           more(i, x) == IF i > 1 /\ (i - 1) % 3 = 0 THEN <<At(d, i - 1), Comma>> \o x
                         ELSE <<At(d, i - 1)>> \o x
           Eq(f) == f = [i \in 0 .. w |-> IF i = 0 THEN <<>> ELSE more(i, f[i - 1])]
           step == [i \in 1 .. w |-> [x \in Texts |-> more(i, x)]]
           F == CHOOSE f : Eq(f)
<1>1. w \in Nat /\ d \in Seq(Digits) /\ <<>> \in Texts
    BY NumeralType DEF Texts
<1>2. \A i \in 1 .. w : At(d, i - 1) \in Digits /\ At(d, i - 1) = d[i]
    BY <1>1, NumeralType DEF At
<1>3. Comma \notin Digits
    BY BaseType DEF Comma, Digits
<1>4. ASSUME NEW i \in 1 .. w, NEW x \in Texts
      PROVE  more(i, x) \in Texts /\ DigitsIn(more(i, x)) = Append(DigitsIn(x), d[i])
    <2> DEFINE y == At(d, i - 1)
    <2>1. y \in Characters /\ y # Comma /\ Comma \in Characters /\ y = d[i]
        BY <1>2, <1>3 DEF Characters
    <2> HIDE DEF y
    <2>2. CASE i > 1 /\ (i - 1) % 3 = 0
        <3>1. /\ <<Comma>> \o x \in Texts /\ DigitsIn(<<Comma>> \o x) = DigitsIn(x)
            BY <2>1, DigitsInLonger
        <3>2. /\ <<y>> \o (<<Comma>> \o x) \in Texts
              /\ DigitsIn(<<y>> \o (<<Comma>> \o x)) = Append(DigitsIn(x), y)
            BY <2>1, <3>1, DigitsInLonger
        <3>3. <<y, Comma>> \o x = <<y>> \o (<<Comma>> \o x)
            <4>2. x \in Seq(Characters) /\ <<y>> \in Seq(Characters) /\ <<Comma>> \in Seq(Characters)
                BY <2>1 DEF Texts
            <4>1. <<y>> \o <<Comma>> = <<y, Comma>>
                <5> DEFINE s == <<y>> \o <<Comma>>
                           t == <<y, Comma>>
                <5>1. s \in Seq(Characters) /\ Len(s) = 2 /\ s[1] = y /\ s[2] = Comma
                    BY <2>1
                <5>2. t \in Seq(Characters) /\ Len(t) = 2 /\ t[1] = y /\ t[2] = Comma
                    BY <2>1
                <5> HIDE DEF s, t
                <5>3. \A k \in 1 .. 2 : k = 1 \/ k = 2
                    OBVIOUS
                <5>4. s = t
                    BY <5>1, <5>2, <5>3, SeqEqual
                <5> QED BY <5>4 DEF s, t
            <4> QED BY <4>1, <4>2, ConcatAssociative
        <3>4. more(i, x) = <<y, Comma>> \o x
            BY <2>2 DEF y
        <3> QED BY <2>1, <3>2, <3>3, <3>4
    <2>3. CASE ~ (i > 1 /\ (i - 1) % 3 = 0)
        <3>1. more(i, x) = <<y>> \o x
            BY <2>3 DEF y
        <3> QED BY <2>1, <3>1, DigitsInLonger
    <2> QED BY <2>2, <2>3
<1>5. ToText(d) = F[w]
    BY Zenon DEF ToText
<1> HIDE DEF more, w
<1>6. step \in [1 .. w -> [Texts -> Texts]]
      /\ \A i \in 1 .. w : \A x \in Texts : step[i][x] = more(i, x)
    BY <1>4
<1> HIDE DEF step
<1>7. Iterable(w, Texts, <<>>, step)
    BY <1>1, <1>6, Iteration
<1>8. PICK g \in [0 .. w -> Texts] : g[0] = <<>> /\ \A i \in 1 .. w : g[i] = step[i][g[i - 1]]
    BY <1>7 DEF Iterable
<1>9. Eq(g)
    <2>1. \A i \in 1 .. w : g[i - 1] \in Texts
        BY <1>1
    <2> QED BY <1>1, <1>6, <1>8, <2>1
<1>10. Eq(F)
    BY <1>9, Zenon
<1> HIDE DEF F
<1>11. F[0] = <<>> /\ \A i \in 1 .. w : F[i] = more(i, F[i - 1])
    BY <1>1, <1>10
<1> DEFINE Right(i) == /\ F[i] \in Texts
                       /\ DigitsIn(F[i]) \in Seq(Digits)
                       /\ Len(DigitsIn(F[i])) = i
                       /\ \A k \in 1 .. i : DigitsIn(F[i])[k] = d[k]
           T == {i \in 0 .. w : Right(i)}
<1>12. 0 \in T
    <2>1. Len(<<>>) = 0 /\ <<>> \in Texts /\ <<>> \in Seq(Digits)
        BY <1>1
    <2>2. DigitsIn(<<>>) = <<>>
        BY <2>1, ReadingFacts DEF DigitsIn
    <2>3. \A k \in 1 .. 0 : FALSE
        OBVIOUS
    <2> DEFINE e == DigitsIn(F[0])
    <2>4. F[0] \in Texts /\ e = <<>>
        BY <1>11, <2>1, <2>2
    <2> HIDE DEF e
    <2>5. e \in Seq(Digits) /\ Len(e) = 0
        BY <2>1, <2>4
    <2>6. 0 \in 0 .. w
        BY <1>1
    <2> QED BY <2>3, <2>4, <2>5, <2>6 DEF e
<1>13. ASSUME NEW i \in 1 .. w, i - 1 \in T PROVE i \in T
    <2> DEFINE x == F[i - 1]
               e == DigitsIn(x)
    <2>1. F[i] \in Texts /\ DigitsIn(F[i]) = Append(e, d[i])
        BY <1>4, <1>11, <1>13
    <2>2. d[i] \in Digits
        BY <1>2
    <2>3. e \in Seq(Digits) /\ Len(e) = i - 1 /\ \A k \in 1 .. i - 1 : e[k] = d[k]
        BY <1>13
    <2> HIDE DEF x, e
    <2>4. /\ Append(e, d[i]) \in Seq(Digits)
          /\ Len(Append(e, d[i])) = i
          /\ \A k \in 1 .. i : Append(e, d[i])[k] = d[k]
        BY <2>2, <2>3
    <2> QED BY <2>1, <2>4
<1>14. \A i \in 0 .. w : i \in T
    <2> HIDE DEF T
    <2> QED BY <1>1, <1>12, <1>13, IntervalInduction
<1>15. Right(w)
    BY <1>1, <1>14
<1>16. DigitsIn(F[w]) = d
    <2> DEFINE e == DigitsIn(F[w])
    <2>1. e \in Seq(Digits) /\ Len(e) = Len(d) /\ \A k \in 1 .. Len(e) : e[k] = d[k]
        BY <1>15 DEF w
    <2> HIDE DEF e
    <2>2. e = d
        BY <1>1, <2>1, SeqEqual
    <2> QED BY <2>2 DEF e
<1> QED BY <1>5, <1>15, <1>16

LEMMA PaddedIsRead ==
    ASSUME NEW text \in Texts, NEW n \in Nat
    PROVE  LET e == DigitsIn(Zeros(n) \o text)
               d == DigitsIn(text)
           IN  /\ e \in Seq(Digits)
               /\ Len(e) = Len(d) + n
               /\ \A i \in 1 .. Len(e) : e[i] = IF i <= Len(d) THEN d[i] ELSE 0
<1> DEFINE d == DigitsIn(text)
           e(m) == DigitsIn(Zeros(m) \o text)
           Right(m) == /\ Zeros(m) \o text \in Texts
                       /\ e(m) \in Seq(Digits)
                       /\ Len(e(m)) = Len(d) + m
                       /\ \A i \in 1 .. Len(d) + m : e(m)[i] = IF i <= Len(d) THEN d[i] ELSE 0
           T == {m \in Nat : Right(m)}
<1>1. 0 \in Digits /\ 0 \in Characters /\ 0 # Comma
    BY BaseType DEF Digits, Characters, Comma
<1>2. d \in Seq(Digits) /\ Len(d) \in Nat
    <2>1. Len(text) \in Nat
        BY DEF Texts
    <2>2. Len(text) \in 0 .. Len(text)
        BY <2>1
    <2>3. d \in Seq(Digits)
        BY <2>2, ReadingFacts DEF DigitsIn
    <2> QED BY <2>3
<1>3. 0 \in T
    <2>1. Zeros(0) = <<>>
        BY DEF Zeros
    <2>2. Zeros(0) \o text = text
        BY <2>1 DEF Texts
    <2> HIDE DEF d
    <2>3. e(0) = d
        BY <2>2 DEF d
    <2> HIDE DEF e
    <2>4. e(0) \in Seq(Digits) /\ Len(e(0)) = Len(d) + 0
          /\ \A i \in 1 .. Len(d) + 0 : e(0)[i] = IF i <= Len(d) THEN d[i] ELSE 0
        BY <1>2, <2>3
    <2> QED BY <2>2, <2>4
<1>4. ASSUME NEW m \in Nat, m \in T PROVE m + 1 \in T
    <2>1. Zeros(m + 1) \o text = <<0>> \o (Zeros(m) \o text)
        <3>1. Zeros(m + 1) = <<0>> \o Zeros(m)
            <4>1. Zeros(m + 1) \in Seq(Digits) /\ Zeros(m) \in Seq(Digits)
                BY <1>1 DEF Zeros
            <4>2. Len(Zeros(m + 1)) = m + 1 /\ \A i \in 1 .. m + 1 : Zeros(m + 1)[i] = 0
                BY DEF Zeros
            <4>3. Len(Zeros(m)) = m /\ \A i \in 1 .. m : Zeros(m)[i] = 0
                BY DEF Zeros
            <4> DEFINE z == Zeros(m)
                       s == <<0>> \o z
            <4>4. s \in Seq(Digits) /\ Len(s) = m + 1 /\ \A i \in 1 .. m + 1 : s[i] = 0
                <5> HIDE DEF z
                <5>1. z \in Seq(Digits) /\ Len(z) = m /\ \A i \in 1 .. m : z[i] = 0
                    BY <4>1, <4>3 DEF z
                <5>2. s \in Seq(Digits) /\ Len(s) = m + 1 /\ s[1] = 0
                      /\ \A i \in 1 .. m : s[i + 1] = z[i]
                    BY <1>1, <5>1
                <5> HIDE DEF s
                <5>3. \A i \in 2 .. m + 1 : i - 1 \in 1 .. m /\ (i - 1) + 1 = i
                    OBVIOUS
                <5>4. \A i \in 1 .. m + 1 : i = 1 \/ i \in 2 .. m + 1
                    OBVIOUS
                <5> QED BY <5>1, <5>2, <5>3, <5>4
            <4> HIDE DEF s
            <4>5. Zeros(m + 1) = s
                BY <4>1, <4>2, <4>4, SeqEqual
            <4> QED BY <4>5 DEF s
        <3>2. Zeros(m) \in Seq(Characters) /\ <<0>> \in Seq(Characters) /\ text \in Seq(Characters)
            BY <1>1 DEF Texts, Zeros
        <3> DEFINE z == Zeros(m)
        <3> HIDE DEF z
        <3>3. (<<0>> \o z) \o text = <<0>> \o (z \o text)
            BY <3>2, ConcatAssociative DEF z
        <3> QED BY <3>1, <3>3 DEF z
    <2>2. Zeros(m) \o text \in Texts
        BY <1>4
    <2>3. Zeros(m + 1) \o text \in Texts /\ e(m + 1) = Append(e(m), 0)
        <3> DEFINE t == Zeros(m) \o text
        <3> HIDE DEF t
        <3>1. <<0>> \o t \in Texts /\ DigitsIn(<<0>> \o t) = Append(DigitsIn(t), 0)
            BY <1>1, <2>2, DigitsInLonger DEF t
        <3> QED BY <2>1, <3>1 DEF t
    <2> DEFINE f == e(m)
    <2>4. f \in Seq(Digits) /\ Len(f) = Len(d) + m
          /\ \A i \in 1 .. Len(d) + m : f[i] = IF i <= Len(d) THEN d[i] ELSE 0
        BY <1>4
    <2> HIDE DEF e, d, f
    <2>5. e(m + 1) = Append(f, 0)
        BY <2>3 DEF f
    <2> DEFINE g == Append(f, 0)
    <2>6. g \in Seq(Digits) /\ Len(g) = Len(d) + m + 1 /\ g[Len(d) + m + 1] = 0
          /\ \A i \in 1 .. Len(d) + m : g[i] = f[i]
        BY <1>1, <1>2, <2>4
    <2> HIDE DEF g
    <2>7. \A i \in 1 .. Len(d) + (m + 1) : g[i] = IF i <= Len(d) THEN d[i] ELSE 0
        <3>1. \A i \in 1 .. Len(d) + (m + 1) : i \in 1 .. Len(d) + m \/ i = Len(d) + m + 1
            BY <1>2
        <3>2. ~ (Len(d) + m + 1 <= Len(d))
            BY <1>2
        <3> QED BY <2>4, <2>6, <3>1, <3>2
    <2>8. e(m + 1) = g
        BY <2>5 DEF g
    <2>9. m + 1 \in Nat /\ Len(g) = Len(d) + (m + 1)
        BY <1>2, <2>6
    <2> QED BY <2>3, <2>6, <2>7, <2>8, <2>9
<1>5. n \in T
    <2> HIDE DEF T
    <2> QED BY <1>3, <1>4, SetInduction
<1> QED BY <1>5

LEMMA TextFacts ==
    ASSUME NEW d, Normal(d), NEW n \in Nat
    PROVE  FromText(Zeros(n) \o ToText(d)) = d
<1> DEFINE e == DigitsIn(Zeros(n) \o ToText(d))
<1>1. d \in Numerals /\ Len(d) \in Nat \ {0}
    BY NormalType, NumeralType
<1>2. /\ e \in Seq(Digits)
      /\ Len(e) = Len(d) + n
      /\ \A i \in 1 .. Len(e) : e[i] = IF i <= Len(d) THEN d[i] ELSE 0
    <2>1. ToText(d) \in Texts /\ DigitsIn(ToText(d)) = d
        BY <1>1, WrittenIsRead
    <2> QED BY <2>1, PaddedIsRead
<1>3. FromText(Zeros(n) \o ToText(d)) = RemoveLz(e)
    BY DEF FromText, DigitsIn
<1> HIDE DEF e
<1>4. e \in Numerals
    BY <1>1, <1>2 DEF Numerals
<1>5. \A i \in 0 .. Len(e) - 1 : At(e, i) = At(d, i)
    BY <1>1, <1>2 DEF At
<1>6. Low(e)[Len(e)] = Low(d)[Len(e)] /\ Low(d)[Len(e)] = ValueOf(d)
    BY <1>1, <1>2, <1>4, <1>5, LowSame, LowIsValue
<1>7. Normal(RemoveLz(e)) /\ ValueOf(RemoveLz(e)) = ValueOf(d)
    BY <1>4, <1>6, RemoveLzFacts DEF ValueOf
<1> QED BY <1>3, <1>7, SameValue

-----------------------------------------------------------------------------
(* The workers of parallel_multiply.                                        *)

\* Each begins where the one before it ends, the first at 0; the last ends at the
\* last digit.
LEMMA RangesFacts ==
    ASSUME NEW a \in Numerals, Workers(a) > 0
    PROVE  /\ Workers(a) \in Nat
           /\ \A k \in Nat : BeginOf(a, k) \in Nat /\ BeginOf(a, k) <= EndOf(a, k)
           /\ \A k \in Nat : EndOf(a, k) = BeginOf(a, k + 1)
           /\ BeginOf(a, 0) = 0
           /\ BeginOf(a, Workers(a)) = Len(a)
<1> DEFINE w == Workers(a)
           l == Len(a)
<1>1. l \in Nat /\ w \in Nat /\ w > 0
    <2>1. l \in Nat /\ Cores \in Nat /\ l \div Chunk \in Nat
        BY NumeralType, NumbersAssumption
    <2> QED BY <2>1 DEF Workers
<1> HIDE DEF w, l
<1>2. ASSUME NEW k \in Nat
      PROVE  (l * k) \div w \in Nat /\ (l * k) \div w <= (l * (k + 1)) \div w
    <2> DEFINE m == l * k
               n == l * (k + 1)
    <2>1. m \in Nat /\ n \in Nat /\ m <= n
        <3>1. l * (k + 1) = l * k + l /\ l * k \in Nat
            BY <1>1
        <3> QED BY <3>1, <1>1
    <2> HIDE DEF m, n
    <2> DEFINE p == m \div w
               q == n \div w
               r == m % w
               s == n % w
    <2>2. p \in Nat /\ q \in Nat
        BY <1>1, <2>1
    <2>3. r \in 0 .. w - 1 /\ m = w * p + r /\ s \in 0 .. w - 1 /\ n = w * q + s
        BY <1>1, <2>1, Division
    <2> HIDE DEF p, q, r, s
    <2>4. p <= q
        <3> SUFFICES ASSUME p >= q + 1 PROVE FALSE
            BY <2>2
        <3>1. w * p >= w * (q + 1)
            BY <1>1, <2>2
        <3>2. w * (q + 1) = w * q + w /\ w * q \in Nat /\ w * p \in Nat
            BY <1>1, <2>2
        <3> QED BY <1>1, <2>1, <2>3, <3>1, <3>2
    <2> QED BY <2>2, <2>4 DEF m, n, p, q
<1>3. (l * 0) \div w = 0
    <2>1. l * 0 = 0
        BY <1>1
    <2> QED BY <2>1, <1>1
<1>4. (l * w) \div w = l
    <2> DEFINE n == l * w
    <2>1. n \in Nat /\ n = w * l + 0 /\ 0 \in 0 .. w - 1
        BY <1>1
    <2> HIDE DEF n
    <2>2. n \div w = l
        BY <1>1, <2>1, DivisionIs
    <2> QED BY <2>2 DEF n
<1> QED BY <1>1, <1>2, <1>3, <1>4 DEF BeginOf, EndOf, w, l

\* what each worker will add, and the sum of it over those below each number
Share(a, b) == [k \in Nat |-> ValueOf(b) * (Low(a)[EndOf(a, k)] - Low(a)[BeginOf(a, k)])]

Due(workers, share) ==
    LET due[k \in Nat] ==
            IF k = 0 THEN 0 ELSE due[k - 1] + IF k - 1 \in workers THEN share[k - 1] ELSE 0
    IN  due

LEMMA ShareType ==
    ASSUME NEW a \in Numerals, NEW b \in Numerals, Workers(a) > 0
    PROVE  Share(a, b) \in [Nat -> Int]
<1> SUFFICES ASSUME NEW k \in Nat
             PROVE  ValueOf(b) * (Low(a)[EndOf(a, k)] - Low(a)[BeginOf(a, k)]) \in Int
    BY DEF Share
<1> DEFINE v == ValueOf(b)
           m == Low(a)[EndOf(a, k)]
           l == Low(a)[BeginOf(a, k)]
<1>1. v \in Nat /\ m \in Nat /\ l \in Nat
    <2>1. BeginOf(a, k) \in Nat /\ EndOf(a, k) \in Nat
        <3>1. k + 1 \in Nat
            OBVIOUS
        <3> QED BY <3>1, RangesFacts
    <2> QED BY <2>1, ValueType, LowType
<1> HIDE DEF v, m, l
<1>2. v * (m - l) \in Int
    BY <1>1
<1> QED BY <1>2 DEF v, m, l

LEMMA DueFacts ==
    ASSUME NEW workers, NEW share \in [Nat -> Int]
    PROVE  /\ \A k \in Nat : Due(workers, share)[k] \in Int
           /\ Due(workers, share)[0] = 0
           /\ \A k \in Nat : Due(workers, share)[k + 1] =
                 Due(workers, share)[k] + IF k \in workers THEN share[k] ELSE 0
<1> DEFINE more(k) == IF k \in workers THEN share[k] ELSE 0
           step == [k \in Nat |-> [x \in Int |-> x + more(k)]]
           Eq(f) == f = [k \in Nat |-> IF k = 0 THEN 0
                                       ELSE f[k - 1] + IF k - 1 \in workers THEN share[k - 1] ELSE 0]
           F == Due(workers, share)
<1>1. \A k \in Nat : more(k) \in Int
    OBVIOUS
<1> HIDE DEF more
<1>2. step \in [Nat -> [Int -> Int]] /\ \A k \in Nat : \A x \in Int : step[k][x] = x + more(k)
    BY <1>1
<1> HIDE DEF step
<1>3. Endless(Int, 0, step)
    BY <1>2, EndlessIteration
<1>4. PICK g \in [Nat -> Int] : g[0] = 0 /\ \A k \in Nat : g[k + 1] = step[k][g[k]]
    BY <1>3 DEF Endless
<1>5. ASSUME NEW k \in Nat PROVE g[k] = IF k = 0 THEN 0 ELSE g[k - 1] + more(k - 1)
    <2>1. CASE k # 0
        <3> DEFINE j == k - 1
        <3>1. j \in Nat /\ j + 1 = k
            BY <2>1
        <3> HIDE DEF j
        <3>2. g[j + 1] = g[j] + more(j)
            BY <3>1, <1>2, <1>4
        <3> QED BY <3>1, <3>2, <2>1 DEF j
    <2> QED BY <2>1, <1>4
<1>6. g = [k \in Nat |-> IF k = 0 THEN 0 ELSE g[k - 1] + more(k - 1)]
    BY <1>5
<1>7. Eq(g)
    BY <1>6, Zenon DEF more
<1>8. Eq(F)
    BY <1>7, Zenon DEF Due
<1>9. F = [k \in Nat |-> IF k = 0 THEN 0 ELSE F[k - 1] + more(k - 1)]
    BY <1>8, Zenon DEF more
<1> HIDE DEF F
<1>10. F[0] = 0 /\ \A k \in Nat : F[k + 1] = F[k] + more(k)
    <2>1. \A k \in Nat : F[k] = IF k = 0 THEN 0 ELSE F[k - 1] + more(k - 1)
        BY <1>9
    <2>2. \A k \in Nat : k + 1 \in Nat /\ k + 1 # 0 /\ (k + 1) - 1 = k
        OBVIOUS
    <2> QED BY <2>1, <2>2
<1> DEFINE T == {k \in Nat : F[k] \in Int}
<1>11. 0 \in T /\ \A k \in Nat : k \in T => k + 1 \in T
    BY <1>1, <1>10
<1>12. Nat \subseteq T
    <2> HIDE DEF T
    <2> QED BY <1>11, SetInduction
<1>13. \A k \in Nat : F[k] \in Int
    BY <1>12
<1> QED BY <1>10, <1>13 DEF F, more

\* Nothing is due when no worker is left.
LEMMA DueOfNone ==
    ASSUME NEW share \in [Nat -> Int], NEW n \in Nat
    PROVE  Due({}, share)[n] = 0
<1> DEFINE T == {k \in Nat : Due({}, share)[k] = 0}
<1>1. 0 \in T /\ \A k \in Nat : k \in T => k + 1 \in T
    BY DueFacts
<1>2. Nat \subseteq T
    <2> HIDE DEF T
    <2> QED BY <1>1, SetInduction
<1> QED BY <1>2

\* A worker's share is no longer due once it has added it.
LEMMA DueOfOthers ==
    ASSUME NEW workers, NEW share \in [Nat -> Int], NEW w \in Nat, w \in workers,
           NEW n \in Nat, w < n
    PROVE  Due(workers \ {w}, share)[n] + share[w] = Due(workers, share)[n]
<1> DEFINE D == Due(workers, share)
           E == Due(workers \ {w}, share)
           T == {k \in Nat : E[k] + (IF w < k THEN share[w] ELSE 0) = D[k]}
<1>1. /\ \A k \in Nat : D[k] \in Int /\ E[k] \in Int
      /\ D[0] = 0 /\ E[0] = 0
      /\ \A k \in Nat : D[k + 1] = D[k] + IF k \in workers THEN share[k] ELSE 0
      /\ \A k \in Nat : E[k + 1] = E[k] + IF k \in workers \ {w} THEN share[k] ELSE 0
    BY DueFacts
<1> HIDE DEF D, E
<1>2. 0 \in T
    BY <1>1
<1>3. ASSUME NEW k \in Nat, k \in T PROVE k + 1 \in T
    <2>1. share[k] \in Int /\ share[w] \in Int
        OBVIOUS
    <2>2. CASE k = w
        <3>1. E[k + 1] = E[k] + 0 /\ D[k + 1] = D[k] + share[w] /\ ~ (w < k) /\ w < k + 1
            BY <1>1, <2>2
        <3> QED BY <1>1, <1>3, <2>1, <3>1
    <2>3. CASE k # w
        <3>1. (w < k <=> w < k + 1) /\ (k \in workers <=> k \in workers \ {w})
            BY <2>3
        <3> QED BY <1>1, <1>3, <2>1, <3>1
    <2> QED BY <2>2, <2>3
<1>4. n \in T
    <2> HIDE DEF T
    <2> QED BY <1>2, <1>3, SetInduction
<1>5. E[n] + share[w] = D[n]
    BY <1>4
<1> QED BY <1>5 DEF D, E

\* The product is due when all have to add theirs.
LEMMA DueOfAll ==
    ASSUME NEW a \in Numerals, NEW b \in Numerals, Workers(a) > 0
    PROVE  Due(0 .. Workers(a) - 1, Share(a, b))[Workers(a)] = ValueOf(a) * ValueOf(b)
<1> DEFINE w == Workers(a)
           share == Share(a, b)
           D == Due(0 .. w - 1, share)
           v == ValueOf(b)
           low(k) == Low(a)[BeginOf(a, k)]
           T == {k \in 0 .. w : D[k] = v * low(k)}
<1>1. w \in Nat /\ BeginOf(a, 0) = 0 /\ BeginOf(a, w) = Len(a)
    BY RangesFacts
<1>2. v \in Nat /\ \A k \in Nat : low(k) \in Nat
    BY RangesFacts, ValueType, LowType
<1>3. \A k \in Nat : share[k] = v * (low(k + 1) - low(k))
    BY RangesFacts DEF Share
<1>4. D[0] = 0 /\ \A k \in Nat : D[k + 1] = D[k] + IF k \in 0 .. w - 1 THEN share[k] ELSE 0
    <2>1. share \in [Nat -> Int]
        BY ShareType
    <2> DEFINE all == 0 .. w - 1
    <2> HIDE DEF share, w, all
    <2>2. /\ Due(all, share)[0] = 0
          /\ \A k \in Nat : Due(all, share)[k + 1] =
                 Due(all, share)[k] + IF k \in all THEN share[k] ELSE 0
        BY <2>1, DueFacts
    <2> QED BY <2>2 DEF all
<1>5. low(0) = 0
    BY <1>1, LowFacts
<1> HIDE DEF w, share, D, v, low
<1>6. 0 \in T
    <2>1. v * 0 = 0
        BY <1>2
    <2>2. D[0] = v * low(0)
        BY <1>4, <1>5, <2>1
    <2>3. 0 \in 0 .. w
        BY <1>1
    <2> QED BY <2>2, <2>3
<1>7. ASSUME NEW k \in 1 .. w, k - 1 \in T PROVE k \in T
    <2> DEFINE j == k - 1
    <2>1. j \in Nat /\ j \in 0 .. w - 1 /\ j + 1 = k
        BY <1>1
    <2>2. D[j] = v * low(j)
        BY <1>7
    <2> HIDE DEF j
    <2>3. D[j + 1] = v * low(j) + v * (low(j + 1) - low(j))
        BY <1>3, <1>4, <2>1, <2>2
    <2>4. v * low(j) + v * (low(j + 1) - low(j)) = v * low(j + 1)
        <3> DEFINE x == low(j)
                   y == low(j + 1)
        <3>1. x \in Nat /\ y \in Nat
            BY <1>2, <2>1
        <3> HIDE DEF x, y
        <3>2. v * x + v * (y - x) = v * y
            BY <1>2, <3>1
        <3> QED BY <3>2 DEF x, y
    <2> QED BY <2>1, <2>3, <2>4
<1>8. \A k \in 0 .. w : k \in T
    <2> HIDE DEF T
    <2> QED BY <1>1, <1>6, <1>7, IntervalInduction
<1>9. D[w] = v * low(w)
    BY <1>1, <1>8
<1>10. low(w) = ValueOf(a)
    BY <1>1 DEF low, ValueOf
<1>11. v * ValueOf(a) = ValueOf(a) * v
    <2> DEFINE u == ValueOf(a)
    <2>1. u \in Nat
        BY ValueType
    <2> HIDE DEF u
    <2>2. v * u = u * v
        BY <1>2, <2>1
    <2> QED BY <2>2 DEF u
<1> QED BY <1>9, <1>10, <1>11 DEF w, share, D, v

-----------------------------------------------------------------------------
(* The variable.                                                            *)

\* The digits stand for the number, in normal form unless a subtraction failed.
DigitsRight ==
    /\ digits \in Numerals
    /\ ValueOf(digits) = value
    /\ value \in 0 .. MaxValue
    /\ spoilt \in BOOLEAN
    /\ ~ spoilt => Normal(digits)

Jobs == [a : Numerals, b : Numerals, product : 0 .. MaxValue, result : Numerals, workers : SUBSET Nat]

\* What has been added and what is still due are the product together.
JobRight ==
    job # NoJob =>
        /\ job \in Jobs
        /\ Workers(job.a) > 0
        /\ job.workers \subseteq 0 .. Workers(job.a) - 1
        /\ ValueOf(job.result) + Due(job.workers, Share(job.a, job.b))[Workers(job.a)] = job.product

Inv == DigitsRight /\ JobRight

LEMMA BoundsType == MaxValue \in Nat /\ MaxOperand \in Nat /\ MaxPadding \in Nat
BY NumbersAssumption

LEMMA InvInit == Init => Inv
<1> SUFFICES ASSUME Init PROVE Inv
    OBVIOUS
<1>1. digits = Zero /\ value = 0 /\ spoilt = FALSE /\ job = NoJob
    BY DEF Init
<1>2. DigitsRight
    <2>1. Normal(Zero) /\ Zero \in Numerals /\ ValueOf(Zero) = 0 /\ 0 \in 0 .. MaxValue
        BY SmallNumerals, NormalType, BoundsType
    <2> QED BY <1>1, <2>1 DEF DigitsRight
<1> QED BY <1>1, <1>2 DEF Inv, JobRight

LEMMA BecomesRight ==
    ASSUME Inv, NEW d \in Numerals, NEW n, Becomes(d, n), ValueOf(d) = n,
           spoilt' \in BOOLEAN, ~ spoilt' => Normal(d)
    PROVE  Inv'
<1>1. digits' = d /\ value' = n /\ n <= MaxValue /\ job' = job /\ job = NoJob
    BY DEF Becomes, Idle
<1>2. n \in 0 .. MaxValue
    BY <1>1, ValueType, BoundsType
<1>3. DigitsRight'
    BY <1>1, <1>2 DEF DigitsRight
<1>4. JobRight'
    BY <1>1 DEF JobRight
<1> QED BY <1>3, <1>4 DEF Inv

\* The same, when it is not another number that is assigned.
LEMMA UpdateRight ==
    ASSUME Inv, NEW d \in Numerals, NEW n, Becomes(d, n), ValueOf(d) = n,
           spoilt' = spoilt, ~ spoilt => Normal(d)
    PROVE  Inv'
<1>1. spoilt \in BOOLEAN
    BY DEF Inv, DigitsRight
<1>2. spoilt' \in BOOLEAN /\ (~ spoilt' => Normal(d))
    BY <1>1
<1> QED BY <1>2, BecomesRight

LEMMA NumberFacts ==
    ASSUME NEW n \in Numbers
    PROVE  /\ n \in Nat /\ FromInteger(n) \in Numerals
           /\ Normal(FromInteger(n)) /\ ValueOf(FromInteger(n)) = n
<1>1. n \in Nat
    BY BoundsType DEF Numbers
<1> QED BY <1>1, FromIntegerFacts, NormalType

LEMMA AssignmentsRight ==
    ASSUME Inv, NEW n \in Numbers
    PROVE  /\ AssignInteger(n) => Inv'
           /\ \A padding \in 0 .. MaxPadding : AssignText(n, padding) => Inv'
<1>1. ASSUME AssignInteger(n) PROVE Inv'
    <2>1. Becomes(FromInteger(n), n) /\ spoilt' = FALSE
        BY <1>1 DEF AssignInteger
    <2> QED BY <2>1, NumberFacts, BecomesRight
<1>2. ASSUME NEW padding \in 0 .. MaxPadding, AssignText(n, padding) PROVE Inv'
    <2>1. /\ Becomes(FromText(Zeros(padding) \o ToText(FromInteger(n))), n)
          /\ spoilt' = FALSE
        BY <1>2 DEF AssignText
    <2>2. padding \in Nat
        BY BoundsType
    <2> DEFINE d == FromInteger(n)
    <2>3. Normal(d) /\ d \in Numerals /\ ValueOf(d) = n
        BY NumberFacts
    <2> HIDE DEF d
    <2>4. FromText(Zeros(padding) \o ToText(d)) = d
        BY <2>2, <2>3, TextFacts
    <2>5. Becomes(d, n)
        BY <2>1, <2>4 DEF d
    <2> QED BY <2>1, <2>3, <2>5, BecomesRight
<1> QED BY <1>1, <1>2

LEMMA ArithmeticRight ==
    ASSUME Inv, NEW b \in Numerals, NEW n \in Nat, ValueOf(b) = n, ~ spoilt => Normal(b)
    PROVE  /\ AddAssign(b, n) => Inv'
           /\ SubtractAssign(b, n) => Inv'
           /\ SubtractUnderflows(b, n) => Inv'
           /\ MultiplyAssign(b, n) => Inv'
           /\ ParallelMultiplyAlone(b, n) => Inv'
<1>1. /\ digits \in Numerals /\ ValueOf(digits) = value /\ value \in Nat
      /\ ~ spoilt => Normal(digits)
    BY BoundsType DEF Inv, DigitsRight
<1>2. ASSUME AddAssign(b, n) PROVE Inv'
    <2>1. Becomes(Plus(digits, b), value + n) /\ spoilt' = spoilt
        BY <1>2 DEF AddAssign
    <2>2. Plus(digits, b) \in Numerals /\ ValueOf(Plus(digits, b)) = value + n
        BY <1>1, PlusFacts
    <2>3. ASSUME ~ spoilt PROVE Normal(Plus(digits, b))
        <3>1. Normal(digits) /\ Normal(b)
            BY <1>1, <2>3
        <3> QED BY <1>1, <3>1, PlusFacts
    <2> QED BY <2>1, <2>2, <2>3, UpdateRight
<1>3. ASSUME SubtractAssign(b, n) PROVE Inv'
    <2>1. Fits(b) /\ Becomes(Minus(digits, b), value - n) /\ spoilt' = spoilt
        BY <1>3 DEF SubtractAssign
    <2>2. Minus(digits, b) \in Numerals
        BY <1>1, MinusFacts
    <2>4. ASSUME ~ spoilt PROVE Normal(Minus(digits, b))
        <3>1. Normal(digits)
            BY <1>1, <2>4
        <3> QED BY <1>1, <3>1, MinusFacts
    <2>3. ValueOf(Minus(digits, b)) = value - n
        BY <1>1, <2>1, MinusFacts DEF Fits
    <2> QED BY <2>1, <2>2, <2>3, <2>4, UpdateRight
<1>4. ASSUME SubtractUnderflows(b, n) PROVE Inv'
    <2>1. CASE Len(b) > Len(digits)
        <3>1. UNCHANGED vars
            BY <1>4, <2>1 DEF SubtractUnderflows
        <3> QED BY <3>1 DEF vars, Inv, DigitsRight, JobRight
    <2>2. CASE ~ (Len(b) > Len(digits))
        <3>1. /\ ~ Fits(b)
              /\ Becomes(Difference(digits, b), Power[Len(digits)] + value - n)
              /\ spoilt' = TRUE
            BY <1>4, <2>2 DEF SubtractUnderflows
        <3>2. Len(b) <= Len(digits) /\ Len(digits) \in Nat
            BY <1>1, <2>2, NumeralType
        <3>3. LastBorrow(digits, b) = 1
            BY <1>1, <3>1, <3>2, DifferenceFacts DEF Fits
        <3>4. /\ Difference(digits, b) \in Numerals
              /\ ValueOf(Difference(digits, b)) = value - n + 1 * Power[Len(digits)]
            BY <1>1, <3>2, <3>3, DifferenceFacts
        <3>5. Power[Len(digits)] \in Nat
            BY <3>2, PowerType
        <3>6. ValueOf(Difference(digits, b)) = Power[Len(digits)] + value - n
            BY <1>1, <3>4, <3>5
        <3> QED BY <3>1, <3>4, <3>6, BecomesRight
    <2> QED BY <2>1, <2>2
<1>5. Times(digits, b) \in Numerals /\ ValueOf(Times(digits, b)) = value * n
    BY <1>1, TimesFacts
<1>8. ASSUME ~ spoilt PROVE Normal(Times(digits, b))
    <2>1. Normal(digits) /\ Normal(b)
        BY <1>1, <1>8
    <2> QED BY <1>1, <2>1, TimesFacts
<1>6. ASSUME MultiplyAssign(b, n) PROVE Inv'
    <2>1. Becomes(Times(digits, b), value * n) /\ spoilt' = spoilt
        BY <1>6 DEF MultiplyAssign
    <2> QED BY <1>5, <1>8, <2>1, UpdateRight
<1>7. ASSUME ParallelMultiplyAlone(b, n) PROVE Inv'
    <2>1. Becomes(Times(digits, b), value * n) /\ spoilt' = spoilt
        BY <1>7 DEF ParallelMultiplyAlone
    <2> QED BY <1>5, <1>8, <2>1, UpdateRight
<1> QED BY <1>2, <1>3, <1>4, <1>6, <1>7

LEMMA FactorialRight == Inv /\ AssignFactorial => Inv'
<1> SUFFICES ASSUME Inv, AssignFactorial PROVE Inv'
    OBVIOUS
<1>1. ~ spoilt /\ spoilt' = spoilt /\ Becomes(Factorial(digits), FactorialOf[value])
    BY DEF AssignFactorial
<1>2. Normal(digits) /\ ValueOf(digits) = value /\ spoilt \in BOOLEAN
    BY <1>1 DEF Inv, DigitsRight
<1>3. Normal(Factorial(digits)) /\ ValueOf(Factorial(digits)) = FactorialOf[value]
    BY <1>2, FactorialFacts
<1> QED BY <1>1, <1>2, <1>3, NormalType, BecomesRight

LEMMA StartRight ==
    ASSUME Inv, NEW b \in Numerals, NEW n \in Nat, ValueOf(b) = n, ParallelMultiply(b, n)
    PROVE  Inv'
<1> DEFINE a == Shorter(digits, b)
           o == Other(digits, b)
           w == Workers(a)
           z == Zeros(Len(digits) + Len(b))
<1>1. /\ digits \in Numerals /\ ValueOf(digits) = value /\ value \in Nat
    BY BoundsType DEF Inv, DigitsRight
<1>2. Len(digits) \in Nat \ {0} /\ Len(b) \in Nat \ {0}
    BY <1>1, NumeralType
<1>3. (a = digits /\ o = b) \/ (a = b /\ o = digits)
    BY <1>2 DEF Shorter, Other
<1>4. /\ w > 0 /\ value * n <= MaxValue /\ UNCHANGED <<digits, value, spoilt>>
      /\ job' = [a |-> a, b |-> o, product |-> value * n, result |-> z, workers |-> 0 .. w - 1]
    BY DEF ParallelMultiply, InParallel
<1>5. z \in Numerals /\ ValueOf(z) = 0
    <2>1. Len(digits) + Len(b) \in Nat \ {0}
        BY <1>2
    <2> QED BY <2>1, ZerosFacts
<1> HIDE DEF a, o, w, z
<1>6. a \in Numerals /\ o \in Numerals /\ ValueOf(a) * ValueOf(o) = value * n
    <2>1. value * n = n * value
        BY <1>1
    <2> QED BY <1>1, <1>3, <2>1
<1>7. w \in Nat
    BY <1>4, <1>6, RangesFacts DEF w
<1>8. value * n \in 0 .. MaxValue
    <2>1. value * n \in Nat
        BY <1>1
    <2> QED BY <2>1, <1>4, BoundsType
<1>9. /\ job'.a = a /\ job'.b = o /\ job'.product = value * n /\ job'.result = z
      /\ job'.workers = 0 .. w - 1
    BY <1>4
<1>10. job' \in Jobs
    <2>1. 0 .. w - 1 \in SUBSET Nat
        BY <1>7
    <2> QED BY <1>4, <1>5, <1>6, <1>8, <2>1 DEF Jobs
<1>11. Due(0 .. w - 1, Share(a, o))[w] = value * n
    BY <1>4, <1>6, DueOfAll DEF w
<1>12. JobRight'
    <2>1. ValueOf(z) + Due(0 .. w - 1, Share(a, o))[w] = value * n
        BY <1>5, <1>8, <1>11
    <2> QED BY <1>4, <1>9, <1>10, <2>1 DEF JobRight, w
<1>13. DigitsRight'
    BY <1>4 DEF Inv, DigitsRight
<1> QED BY <1>12, <1>13 DEF Inv

LEMMA WorkerRight == Inv /\ WorkerStep => Inv'
<1> SUFFICES ASSUME Inv, WorkerStep PROVE Inv'
    OBVIOUS
<1>1. PICK k \in job.workers : WorkerAdds(k)
    BY DEF WorkerStep
<1>2. job # NoJob /\ UNCHANGED <<digits, value, spoilt>>
    BY DEF WorkerStep, Idle
<1> DEFINE a == job.a
           b == job.b
           w == Workers(a)
           share == Share(a, b)
           part == PartialProduct(a, b, BeginOf(a, k), EndOf(a, k))
           sum == Plus(job.result, part)
<1>3. /\ job \in Jobs /\ w > 0 /\ job.workers \subseteq 0 .. w - 1
      /\ ValueOf(job.result) + Due(job.workers, share)[w] = job.product
    BY <1>2 DEF Inv, JobRight
<1>4. job' = [job EXCEPT !.result = sum, !.workers = job.workers \ {k}]
    BY <1>1 DEF WorkerAdds
<1>5. a \in Numerals /\ b \in Numerals /\ job.result \in Numerals /\ job.product \in Nat
    BY <1>3, BoundsType DEF Jobs
<1>6. w \in Nat /\ k \in Nat /\ k < w
    <2>1. w \in Nat
        BY <1>3, <1>5, RangesFacts
    <2> HIDE DEF w
    <2> QED BY <1>3, <2>1
<1>7. /\ part \in Numerals /\ ValueOf(part) = share[k] /\ share \in [Nat -> Int]
    <2>1. BeginOf(a, k) \in Nat /\ EndOf(a, k) \in Nat /\ BeginOf(a, k) <= EndOf(a, k)
        <3>1. k + 1 \in Nat
            BY <1>6
        <3> HIDE DEF a
        <3> QED BY <1>3, <1>5, <1>6, <3>1, RangesFacts DEF a
    <2>2. part \in Numerals
          /\ ValueOf(part) = ValueOf(b) * (Low(a)[EndOf(a, k)] - Low(a)[BeginOf(a, k)])
        BY <1>5, <2>1, PartialProductFacts
    <2> QED BY <1>3, <1>5, <1>6, <2>2, ShareType DEF Share
<1> HIDE DEF part
<1>8. sum \in Numerals /\ ValueOf(sum) = ValueOf(job.result) + share[k]
    BY <1>5, <1>7, PlusFacts
<1> HIDE DEF sum
<1>9. Due(job.workers \ {k}, share)[w] + share[k] = Due(job.workers, share)[w]
    BY <1>6, <1>7, DueOfOthers
<1>10. /\ job' \in Jobs /\ job'.a = a /\ job'.b = b /\ job'.product = job.product
       /\ job'.result = sum /\ job'.workers = job.workers \ {k}
    BY <1>3, <1>4, <1>8 DEF Jobs
<1>11. JobRight'
    <2>1. /\ ValueOf(job.result) \in Nat /\ share[k] \in Int
          /\ Due(job.workers, share)[w] \in Int /\ Due(job.workers \ {k}, share)[w] \in Int
        <3> HIDE DEF share, w
        <3> QED BY <1>5, <1>6, <1>7, ValueType, DueFacts
    <2>2. ValueOf(sum) + Due(job.workers \ {k}, share)[w] = job.product
        <3> HIDE DEF share, w
        <3> QED BY <1>3, <1>8, <1>9, <2>1
    <2> QED BY <1>3, <1>10, <2>2 DEF JobRight
<1>12. DigitsRight'
    BY <1>2 DEF Inv, DigitsRight
<1> QED BY <1>11, <1>12 DEF Inv

LEMMA ReturnRight == Inv /\ ParallelMultiplyReturns => Inv'
<1> SUFFICES ASSUME Inv, ParallelMultiplyReturns PROVE Inv'
    OBVIOUS
<1>1. /\ job # NoJob /\ job.workers = {} /\ digits' = RemoveLz(job.result)
      /\ value' = job.product /\ job' = NoJob /\ spoilt' = spoilt
    BY DEF ParallelMultiplyReturns, Idle
<1> DEFINE a == job.a
           w == Workers(a)
           share == Share(a, job.b)
<1>2. /\ job \in Jobs /\ w > 0
      /\ ValueOf(job.result) + Due({}, share)[w] = job.product
    BY <1>1 DEF Inv, JobRight
<1>3. /\ a \in Numerals /\ job.b \in Numerals /\ job.result \in Numerals
      /\ job.product \in 0 .. MaxValue
    BY <1>2 DEF Jobs
<1>4. Due({}, share)[w] = 0
    <2>1. w \in Nat /\ share \in [Nat -> Int]
        BY <1>2, <1>3, RangesFacts, ShareType
    <2> QED BY <2>1, DueOfNone
<1>5. Normal(digits') /\ ValueOf(digits') = job.product
    <2>1. ValueOf(job.result) \in Nat
        BY <1>3, ValueType
    <2>2. ValueOf(job.result) = job.product
        BY <1>2, <1>4, <2>1
    <2> QED BY <1>1, <1>3, <2>2, RemoveLzFacts
<1>6. spoilt \in BOOLEAN
    BY DEF Inv, DigitsRight
<1>7. DigitsRight'
    BY <1>1, <1>3, <1>5, <1>6, NormalType DEF DigitsRight
<1> QED BY <1>1, <1>7 DEF Inv, JobRight

LEMMA OperationRight ==
    ASSUME Inv, NEW b \in Numerals, NEW n \in Nat, ValueOf(b) = n, ~ spoilt => Normal(b),
           Operation(b, n)
    PROVE  Inv'
BY ArithmeticRight, StartRight DEF Operation

LEMMA InvNext == Inv /\ [Next]_vars => Inv'
<1> SUFFICES ASSUME Inv, [Next]_vars PROVE Inv'
    OBVIOUS
<1>1. ASSUME NEW n \in Numbers, AssignInteger(n) PROVE Inv'
    BY <1>1, AssignmentsRight
<1>2. ASSUME NEW n \in Numbers, NEW padding \in 0 .. MaxPadding, AssignText(n, padding)
      PROVE  Inv'
    BY <1>2, AssignmentsRight
<1>3. ASSUME NEW n \in Numbers, Operation(FromInteger(n), n) PROVE Inv'
    BY <1>3, NumberFacts, OperationRight
<1>4. CASE Operation(digits, value)
    <2>1. /\ digits \in Numerals /\ ValueOf(digits) = value /\ value \in Nat
          /\ ~ spoilt => Normal(digits)
        BY BoundsType DEF Inv, DigitsRight
    <2> QED BY <1>4, <2>1, OperationRight
<1>5. CASE UNCHANGED vars
    BY <1>5 DEF vars, Inv, DigitsRight, JobRight
<1> QED BY <1>1, <1>2, <1>3, <1>4, <1>5, FactorialRight, WorkerRight, ReturnRight DEF Next

\* The invariant holds for every base, every length and every number of workers.
\* After each operation of decimal.cpp the digits are the ones of the number it
\* should have computed, and while parallel_multiply() runs what its workers have
\* added and what is left to them make the product.
THEOREM Inductive == Spec => []Inv
BY InvInit, InvNext, PTL DEF Spec

\* The digits stay in 0 .. Base - 1 in every state, those in which a failed
\* subtraction has left them included.
THEOREM Typing == Spec => []TypeOK
<1>1. Inv => TypeOK
    <2> SUFFICES ASSUME Inv PROVE TypeOK
        OBVIOUS
    <2>1. digits \in Seq(Digits) /\ digits # <<>> /\ value \in 0 .. MaxValue /\ spoilt \in BOOLEAN
        BY DEF Inv, DigitsRight, Numerals
    <2>2. job.result \in Seq(Digits)
        <3>1. CASE job = NoJob
            BY <3>1 DEF NoJob
        <3>2. CASE job # NoJob
            BY <3>2 DEF Inv, JobRight, Jobs, Numerals
        <3> QED BY <3>1, <3>2
    <2> QED BY <2>1, <2>2 DEF TypeOK
<1> QED BY <1>1, Inductive, PTL

\* Every constructor and arithmetic operator of decimal.cpp computes what the
\* same operation does on the numbers, and leaves normal form as long as no
\* subtraction fails, which one does exactly when its operand is the greater number.
THEOREM ArithmeticIsRight == Spec => []ComputesRight
<1>1. Inv => ComputesRight
    <2> SUFFICES ASSUME Inv PROVE ComputesRight
        OBVIOUS
    <2>1. digits \in Numerals /\ ValueOf(digits) = value
        BY DEF Inv, DigitsRight
    <2>2. ASSUME ~ spoilt
          PROVE  /\ digits = FromInteger(value)
                 /\ \A n \in Numbers : Fits(FromInteger(n)) <=> value >= n
        <3>1. Normal(digits)
            BY <2>2 DEF Inv, DigitsRight
        <3>2. digits = FromInteger(value)
            BY <2>1, <3>1, NormalIsFromInteger
        <3>3. ASSUME NEW n \in Numbers PROVE Fits(FromInteger(n)) <=> value >= n
            <4> DEFINE b == FromInteger(n)
            <4>1. n \in Nat /\ b \in Numerals /\ Normal(b) /\ ValueOf(b) = n
                BY NumberFacts
            <4>2. value \in Nat /\ Len(b) \in Nat /\ Len(digits) \in Nat
                BY <2>1, <4>1, ValueType, NumeralType
            <4> HIDE DEF b
            <4>3. CASE IsZero(b)
                <5>1. n = 0
                    BY <4>1, <4>3, SmallAreRecognised
                <5> QED BY <4>2, <4>3, <5>1 DEF Fits, b
            <4>4. CASE ~ IsZero(b) /\ Len(b) <= Len(digits)
                <5>1. LastBorrow(digits, b) = 0 <=> value >= n
                    BY <2>1, <4>1, <4>4, BorrowMeansLess
                <5> QED BY <4>4, <5>1 DEF Fits, b
            <4>5. CASE ~ IsZero(b) /\ Len(digits) < Len(b)
                <5>1. value < n
                    BY <2>1, <3>1, <4>1, <4>5, LongerIsGreater
                <5> QED BY <4>1, <4>2, <4>5, <5>1 DEF Fits, b
            <4> QED BY <4>2, <4>3, <4>4, <4>5
        <3> QED BY <3>2, <3>3
    <2> QED BY <2>1, <2>2 DEF ComputesRight
<1> QED BY <1>1, Inductive, PTL

\* relation_to() and the operators on top of it order digits as their numbers,
\* whatever the lengths, and == on the digits is equality of the numbers.
THEOREM ComparisonsAreRight == Spec => []ComparesRight
<1>1. Inv => ComparesRight
    <2> SUFFICES ASSUME Inv, ~ spoilt PROVE ComparesRight
        BY DEF ComparesRight
    <2>1. digits \in Numerals /\ ValueOf(digits) = value /\ Normal(digits) /\ value \in Nat
        BY BoundsType DEF Inv, DigitsRight
    <2>2. NonZero(digits) <=> value # 0
        BY <2>1, SmallAreRecognised DEF NonZero
    <2>3. ASSUME NEW n \in Numbers
          PROVE  LET b == FromInteger(n)
                 IN  /\ Equal(digits, b) <=> value = n
                     /\ Unequal(digits, b) <=> value # n
                     /\ Greater(digits, b) <=> value > n
                     /\ GreaterOrEqual(digits, b) <=> value >= n
                     /\ Less(digits, b) <=> value < n
                     /\ LessOrEqual(digits, b) <=> value <= n
                     /\ RelationTo(b, digits) = Sign(n - value)
        <3> DEFINE b == FromInteger(n)
        <3>1. n \in Nat /\ Normal(b) /\ ValueOf(b) = n
            BY NumberFacts
        <3> HIDE DEF b
        <3>2. RelationTo(digits, b) = Sign(value - n) /\ (value = n <=> digits = b)
            BY <2>1, <3>1, RelationFacts
        <3>3. RelationTo(b, digits) = Sign(n - value)
            BY <2>1, <3>1, RelationFacts
        <3>4. /\ Sign(value - n) > 0 <=> value > n
              /\ Sign(value - n) >= 0 <=> value >= n
              /\ Sign(value - n) < 0 <=> value < n
              /\ Sign(value - n) <= 0 <=> value <= n
            BY <2>1, <3>1 DEF Sign
        <3> QED BY <3>2, <3>3, <3>4
                DEF Equal, Unequal, Greater, GreaterOrEqual, Less, LessOrEqual, b
    <2> QED BY <2>2, <2>3 DEF ComparesRight
<1> QED BY <1>1, Inductive, PTL

\* The conversion operators (decimal.tcc, decimal.cpp:19-53) lose nothing: a number
\* that fits the type is converted, any other is refused, and a text is read back
\* as the digits it was written from.
THEOREM ConversionsAreRight == Spec => []ConvertsRight
<1>1. Inv => ConvertsRight
    <2> SUFFICES ASSUME Inv PROVE ConvertsRight
        OBVIOUS
    <2>1. digits \in Numerals /\ ValueOf(digits) = value
        BY DEF Inv, DigitsRight
    <2>2. ASSUME NEW max \in Base .. MaxValue
          PROVE  ToInteger(digits, max) = IF value <= max THEN value ELSE Overflow
        <3>1. max \in Nat /\ Base <= max
            BY BaseType, BoundsType
        <3> QED BY <2>1, <3>1, ToIntegerFacts
    <2>3. ASSUME ~ spoilt PROVE FromText(ToText(digits)) = digits
        <3>1. Normal(digits)
            BY <2>3 DEF Inv, DigitsRight
        <3>2. FromText(Zeros(0) \o ToText(digits)) = digits
            BY <3>1, TextFacts
        <3>3. Zeros(0) \o ToText(digits) = ToText(digits)
            <4>1. ToText(digits) \in Texts
                BY <2>1, WrittenIsRead
            <4>2. Zeros(0) = <<>>
                BY DEF Zeros
            <4> QED BY <4>1, <4>2, ConcatEmptySeq DEF Texts
        <3> QED BY <3>2, <3>3
    <2> QED BY <2>2, <2>3 DEF ConvertsRight
<1> QED BY <1>1, Inductive, PTL
=============================================================================
