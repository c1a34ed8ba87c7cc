----------------------------- MODULE Recursion -----------------------------
(***************************************************************************)
(* Induction and recursion for the provers, which cannot use the library's *)
(* theorems about predicates and operators: here induction is over a set,  *)
(* and what a recursive definition does in a step is a function.           *)
(***************************************************************************)
EXTENDS Integers, WellFoundedInduction, TLAPS

\* A set of naturals with a member has a least one.
LEMMA LeastOf ==
  ASSUME NEW T, T \subseteq Nat, T # {}
  PROVE  \E x \in T : \A y \in T : x <= y
<1> DEFINE R == OpToRel(<, Nat)
<1>1. IsWellFoundedOn(R, Nat)
  BY NatLessThanWellFounded
<1>2. PICK x \in T : \A y \in T : ~ (<<y, x>> \in R)
  BY <1>1, WFMin
<1>3. \A y \in T : <<y, x>> \in R <=> y < x
  BY Zenon DEF OpToRel
<1>4. \A y \in T : ~ (y < x)
  BY <1>2, <1>3, Zenon
<1> QED BY <1>4

\* Induction from lo to n, for the members of a set.
LEMMA InductionTo ==
  ASSUME NEW lo \in Nat, NEW n \in Nat, NEW T,
         lo \in T, \A i \in lo + 1 .. n : i - 1 \in T => i \in T
  PROVE  lo .. n \subseteq T
<1> DEFINE U == (lo .. n) \ T
<1>1. SUFFICES ASSUME U # {} PROVE FALSE
  OBVIOUS
<1>2. U \subseteq Nat
  OBVIOUS
<1> HIDE DEF U
<1>3. PICK i \in U : \A j \in U : i <= j
  BY <1>1, <1>2, LeastOf
<1>4. i \in lo .. n /\ i \notin T /\ i # lo
  BY DEF U
<1>5. i - 1 \in lo .. n /\ i - 1 \notin U
  BY <1>3, <1>4
<1>6. i - 1 \in T
  BY <1>5 DEF U
<1> QED BY <1>4, <1>6

\* A recursive definition over lo .. n, whose step is the function g, ...
Recursive(f, g, x, lo, n) ==
  f = [i \in lo .. n |-> IF i = lo THEN x ELSE g[<<i, f[i - 1]>>]]

\* ... has a solution.
LEMMA RecursiveExists ==
  ASSUME NEW lo \in Nat, NEW n \in Nat, NEW x, NEW g
  PROVE  \E f : Recursive(f, g, x, lo, n)
<1> DEFINE T == {m \in Nat : \E f : Recursive(f, g, x, lo, m)}
<1>1. lo \in T
  <2> DEFINE f == [i \in lo .. lo |-> x]
  <2>1. f = [i \in lo .. lo |-> IF i = lo THEN x ELSE g[<<i, f[i - 1]>>]]
    OBVIOUS
  <2>2. Recursive(f, g, x, lo, lo)
    BY <2>1, Zenon DEF Recursive
  <2> HIDE DEF f
  <2> QED BY <2>2
<1>2. ASSUME NEW m \in lo + 1 .. n, m - 1 \in T PROVE m \in T
  <2>1. PICK p : Recursive(p, g, x, lo, m - 1)
    BY <1>2
  <2> DEFINE q == [k \in lo .. m |-> IF k = m THEN g[<<m, p[m - 1]>>] ELSE p[k]]
  <2>2. \A k \in lo .. m - 1 : p[k] = IF k = lo THEN x ELSE g[<<k, p[k - 1]>>]
    BY <2>1 DEF Recursive
  <2>3. \A k \in lo .. m : q[k] = IF k = lo THEN x ELSE g[<<k, q[k - 1]>>]
    <3> TAKE k \in lo .. m
    <3>1. CASE k = m
      <4>1. k # lo /\ k - 1 \in lo .. m /\ k - 1 # m
        BY <3>1
      <4> QED BY <3>1, <4>1
    <3>2. CASE k # m /\ k # lo
      <4>1. k \in lo .. m - 1 /\ k - 1 \in lo .. m /\ k - 1 # m
        BY <3>2
      <4> QED BY <4>1, <3>2, <2>2
    <3>3. CASE k = lo /\ k # m
      <4>1. k \in lo .. m - 1
        BY <3>3
      <4> QED BY <4>1, <3>3, <2>2
    <3> QED BY <3>1, <3>2, <3>3
  <2>4. q = [k \in lo .. m |-> IF k = lo THEN x ELSE g[<<k, q[k - 1]>>]]
    BY <2>3
  <2>5. Recursive(q, g, x, lo, m)
    BY <2>4, Zenon DEF Recursive
  <2> HIDE DEF q
  <2>6. m \in Nat
    OBVIOUS
  <2> QED BY <2>5, <2>6
<1>3. lo .. n \subseteq T
  BY <1>1, <1>2, InductionTo
<1>4. CASE lo <= n
  BY <1>3, <1>4
<1>5. CASE lo > n
  <2> DEFINE f == [i \in lo .. n |-> x]
  <2>1. f = [i \in lo .. n |-> IF i = lo THEN x ELSE g[<<i, f[i - 1]>>]]
    BY <1>5
  <2>2. Recursive(f, g, x, lo, n)
    BY <2>1, Zenon DEF Recursive
  <2> HIDE DEF f
  <2> QED BY <2>2
<1> QED BY <1>4, <1>5

\* What it defines is in the set that its step keeps to.
LEMMA RecursiveTypes ==
  ASSUME NEW lo \in Nat, NEW n \in Nat, NEW X, NEW x \in X,
         NEW g \in [(lo + 1 .. n) \X X -> X], NEW f, Recursive(f, g, x, lo, n)
  PROVE  /\ \A i \in lo .. n : f[i] \in X
         /\ \A i \in lo + 1 .. n : <<i, f[i - 1]>> \in (lo + 1 .. n) \X X
<1> DEFINE T == {i \in lo .. n : f[i] \in X}
<1>1. \A i \in lo .. n : f[i] = IF i = lo THEN x ELSE g[<<i, f[i - 1]>>]
  BY DEF Recursive
<1>2. CASE lo <= n
  <2>0. lo \in lo .. n
    BY <1>2
  <2>1. lo \in T
    BY <1>1, <2>0
  <2>2. ASSUME NEW i \in lo + 1 .. n, i - 1 \in T PROVE i \in T
    <3>1. f[i] = g[<<i, f[i - 1]>>]
      BY <1>1
    <3>2. <<i, f[i - 1]>> \in (lo + 1 .. n) \X X
      BY <2>2
    <3> QED BY <3>1, <3>2
  <2> HIDE DEF T
  <2>3. lo .. n \subseteq T
    BY <2>1, <2>2, InductionTo
  <2> QED BY <2>3 DEF T
<1>3. CASE lo > n
  BY <1>3
<1> QED BY <1>2, <1>3

=============================================================================
