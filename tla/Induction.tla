------------------------------ MODULE Induction ------------------------------
(***************************************************************************)
(* Induction over the numbers and the recursive functions it justifies, in *)
(* a form that takes sets where the library's theorems take operators.     *)
(***************************************************************************)
EXTENDS Integers, WellFoundedInduction, TLAPS

\* A set of numbers has a least.
LEMMA LeastNumber ==
  ASSUME NEW T \in SUBSET Nat, T # {}
  PROVE  \E x \in T : \A y \in T : x <= y
<1> DEFINE R == {ss \in Nat \X Nat : ss[1] < ss[2]}
<1>1. IsWellFoundedOn(R, Nat)
  BY NatLessThanWellFounded DEF OpToRel
<1> HIDE DEF R
<1>2. PICK x \in T : \A y \in T : ~ (<<y, x>> \in R)
  BY <1>1, WFMin
<1>3. \A y \in T : ~(y < x)
  BY <1>2 DEF R
<1> QED
  BY <1>3

\* A set that has 0 and with each number the next has them all.
LEMMA SetInduction ==
  ASSUME NEW T \in SUBSET Nat, 0 \in T, \A n \in T : n + 1 \in T
  PROVE  T = Nat
<1>1. SUFFICES ASSUME Nat \ T # {} PROVE FALSE
  OBVIOUS
<1>2. PICK x \in Nat \ T : \A y \in Nat \ T : x <= y
  BY <1>1, LeastNumber
<1>3. x - 1 \in T
  BY <1>2
<1> QED
  BY <1>2, <1>3

\* The first n values of an iteration.
Beginning(g, n, S, a, step) ==
  /\ g \in [0 .. n -> S]
  /\ g[0] = a
  /\ \A k \in 1 .. n : g[k] = step[g[k - 1]]

\* They are the same however many follow.
LEMMA BeginningsAgree ==
  ASSUME NEW S, NEW a \in S, NEW step \in [S -> S],
         NEW m \in Nat, NEW n \in Nat, NEW g, NEW h,
         Beginning(g, m, S, a, step), Beginning(h, n, S, a, step)
  PROVE  \A k \in Nat : k <= m /\ k <= n => g[k] = h[k]
<1> DEFINE T == {k \in Nat : k <= m /\ k <= n => g[k] = h[k]}
<1>1. 0 \in T
  BY DEF Beginning
<1>2. ASSUME NEW k \in T PROVE k + 1 \in T
  <2>1. SUFFICES ASSUME k + 1 <= m, k + 1 <= n PROVE g[k + 1] = h[k + 1]
    OBVIOUS
  <2>2. /\ g[k + 1] = step[g[(k + 1) - 1]]
        /\ h[k + 1] = step[h[(k + 1) - 1]]
    BY <2>1 DEF Beginning
  <2>3. g[k] = h[k] /\ (k + 1) - 1 = k
    BY <2>1
  <2> QED
    BY <2>2, <2>3
<1> HIDE DEF T
<1>3. T = Nat
  BY <1>1, <1>2, SetInduction DEF T
<1> QED
  BY <1>3 DEF T

LEMMA BeginningExists ==
  ASSUME NEW S, NEW a \in S, NEW step \in [S -> S]
  PROVE  \A n \in Nat : \E g : Beginning(g, n, S, a, step)
<1> DEFINE T == {n \in Nat : \E g : Beginning(g, n, S, a, step)}
<1>1. 0 \in T
  <2>1. Beginning([k \in 0 .. 0 |-> a], 0, S, a, step)
    BY DEF Beginning
  <2> QED
    BY <2>1
<1>2. ASSUME NEW n \in T PROVE n + 1 \in T
  <2>1. PICK g : Beginning(g, n, S, a, step)
    OBVIOUS
  <2> DEFINE h == [k \in 0 .. n + 1 |-> IF k <= n THEN g[k] ELSE step[g[n]]]
  <2>2. g \in [0 .. n -> S] /\ n \in Nat
    BY <2>1 DEF Beginning
  <2>3. h \in [0 .. n + 1 -> S]
    BY <2>2
  <2>4. h[0] = a
    BY <2>1 DEF Beginning
  <2>5. ASSUME NEW k \in 1 .. n + 1 PROVE h[k] = step[h[k - 1]]
    <3>1. h[k - 1] = g[k - 1]
      BY <2>2
    <3>2. CASE k <= n
      BY <3>1, <3>2, <2>1 DEF Beginning
    <3>3. CASE k = n + 1
      BY <3>1, <3>3, <2>2
    <3> QED
      BY <3>2, <3>3, <2>2
  <2>6. Beginning(h, n + 1, S, a, step)
    BY <2>3, <2>4, <2>5 DEF Beginning
  <2> QED
    BY <2>6
<1> HIDE DEF T
<1>3. T = Nat
  BY <1>1, <1>2, SetInduction DEF T
<1> QED
  BY <1>3 DEF T

\* What a recursive definition over the numbers chooses.
IsStep(step, S) == step \in [S -> S]
Iterates(f, S, a, step) ==
  /\ f \in [Nat -> S]
  /\ f = [n \in Nat |-> IF n = 0 THEN a ELSE step[f[n - 1]]]

\* A step can be iterated.
LEMMA IterationExists ==
  ASSUME NEW S, NEW a \in S, NEW step, IsStep(step, S)
  PROVE  \E f : Iterates(f, S, a, step)
<1>0. step \in [S -> S]
  BY DEF IsStep
<1> DEFINE first(n) == CHOOSE g : Beginning(g, n, S, a, step)
           f == [n \in Nat |-> first(n)[n]]
<1>1. \A n \in Nat : Beginning(first(n), n, S, a, step)
  BY <1>0, BeginningExists
<1> HIDE DEF first
<1>2. f \in [Nat -> S]
  BY <1>1 DEF Beginning
<1>3. f[0] = a
  BY <1>1 DEF Beginning
<1>4. ASSUME NEW n \in Nat, n # 0 PROVE f[n] = step[f[n - 1]]
  <2>1. n - 1 \in Nat /\ n \in 1 .. n /\ n - 1 <= n
    BY <1>4
  <2>2. first(n)[n] = step[first(n)[n - 1]]
    BY <1>1, <2>1 DEF Beginning
  <2>3. first(n)[n - 1] = first(n - 1)[n - 1]
    BY <1>0, <1>1, <2>1, BeginningsAgree
  <2> QED
    BY <2>1, <2>2, <2>3
<1> HIDE DEF f
<1>5. f = [n \in Nat |-> IF n = 0 THEN a ELSE step[f[n - 1]]]
  BY <1>2, <1>3, <1>4
<1> QED
  BY <1>2, <1>5 DEF Iterates

\* What a recursive definition over a range of numbers chooses.
IsRangeStep(step, a, b, S) == step \in [S \X (a + 1 .. b) -> S]
RangeIterates(f, a, b, S, x, step) ==
  /\ f \in [a .. b -> S]
  /\ f = [n \in a .. b |-> IF n = a THEN x ELSE step[<<f[n - 1], n>>]]

\* A step that knows where it is can be iterated over a range.
LEMMA RangeIterationExists ==
  ASSUME NEW a \in Nat, NEW b \in Nat, NEW S, NEW x \in S, NEW step, IsRangeStep(step, a, b, S)
  PROVE  \E f : RangeIterates(f, a, b, S, x, step)
<1>0. step \in [S \X (a + 1 .. b) -> S]
  BY DEF IsRangeStep
<1> DEFINE T == {c \in Nat : c <= b => \E f : RangeIterates(f, a, c, S, x, step)}
<1>1. ASSUME NEW c \in Nat, c <= a
      PROVE  \E f : RangeIterates(f, a, c, S, x, step)
  <2> DEFINE g == [n \in a .. c |-> x]
  <2>1. \A n \in a .. c : n = a
    BY <1>1
  <2>2. g \in [a .. c -> S]
    OBVIOUS
  <2>3. g = [n \in a .. c |-> IF n = a THEN x ELSE step[<<g[n - 1], n>>]]
    BY <2>1
  <2> QED
    BY <2>2, <2>3, Zenon DEF RangeIterates
<1>2. 0 \in T
  BY <1>1
<1>3. ASSUME NEW c \in T PROVE c + 1 \in T
  <2>1. CASE c + 1 <= a
    BY <1>1, <2>1
  <2>2. CASE a <= c
    <3>1. SUFFICES ASSUME c + 1 <= b PROVE \E f : RangeIterates(f, a, c + 1, S, x, step)
      OBVIOUS
    <3>2. PICK g : RangeIterates(g, a, c, S, x, step)
      BY <3>1
    <3> DEFINE h == [n \in a .. c + 1 |-> IF n <= c THEN g[n] ELSE step[<<g[c], c + 1>>]]
    <3>3. g \in [a .. c -> S] /\ c \in a .. c /\ c + 1 \in a + 1 .. b
      BY <2>2, <3>1, <3>2 DEF RangeIterates
    <3>4. step[<<g[c], c + 1>>] \in S
      BY <1>0, <3>3
    <3>5. h \in [a .. c + 1 -> S]
      BY <3>3, <3>4
    <3>6. ASSUME NEW n \in a .. c + 1
          PROVE  h[n] = IF n = a THEN x ELSE step[<<h[n - 1], n>>]
      <4>1. CASE n <= c
        <5>1. h[n] = g[n] /\ n \in a .. c
          BY <4>1
        <5>2. g[n] = IF n = a THEN x ELSE step[<<g[n - 1], n>>]
          BY <3>2, <5>1 DEF RangeIterates
        <5>3. n # a => h[n - 1] = g[n - 1]
          BY <5>1
        <5> QED
          BY <5>1, <5>2, <5>3
      <4>2. CASE n = c + 1
        BY <2>2, <4>2
      <4> QED
        BY <4>1, <4>2
    <3> HIDE DEF h
    <3>7. h = [n \in a .. c + 1 |-> IF n = a THEN x ELSE step[<<h[n - 1], n>>]]
      BY <3>5, <3>6
    <3> QED
      BY <3>5, <3>7 DEF RangeIterates
  <2> QED
    BY <2>1, <2>2
<1> HIDE DEF T
<1>4. T = Nat
  BY <1>2, <1>3, SetInduction DEF T
<1>5. b \in T
  BY <1>4
<1> QED
  BY <1>5 DEF T

\* A set that has a number and with each number of a range the next has the range.
LEMMA RangeInduction ==
  ASSUME NEW a \in Nat, NEW b \in Nat, NEW T, a \in T, \A n \in a .. b - 1 : n \in T => n + 1 \in T
  PROVE  \A n \in a .. b : n \in T
<1> DEFINE U == {n \in Nat : n \in a .. b => n \in T}
<1>1. 0 \in U
  OBVIOUS
<1>2. ASSUME NEW n \in U PROVE n + 1 \in U
  <2>1. CASE n + 1 = a
    BY <2>1
  <2>2. CASE n + 1 # a
    BY <2>2
  <2> QED
    BY <2>1, <2>2
<1> HIDE DEF U
<1>3. U = Nat
  BY <1>1, <1>2, SetInduction DEF U
<1> QED
  BY <1>3 DEF U
=============================================================================
