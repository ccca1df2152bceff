------------------------------- MODULE Induction -------------------------------
(***************************************************************************)
(* Induction over the naturals, stated about sets, and recursive functions *)
(* on 0..n: what the proofs about data of any length rest on. The library's*)
(* induction theorems take an operator as a parameter; WFMin, on which     *)
(* these lemmas stand, takes a set.                                        *)
(***************************************************************************)
EXTENDS Integers, Sequences, TLAPS, WellFoundedInduction

\* Every nonempty set of numbers has a least one.
LEMMA LeastNat ==
  ASSUME NEW T \in SUBSET Nat, T # {}
  PROVE  \E x \in T : \A y \in T : x <= y
<1> DEFINE R == OpToRel(<, Nat)
<1>1. IsWellFoundedOn(R, Nat)
  BY NatLessThanWellFounded
<1> HIDE DEF R
<1>2. PICK x \in T : \A y \in T : ~(<<y, x>> \in R)
  BY <1>1, WFMin, Zenon
<1>3. \A y \in T : y < x => <<y, x>> \in R
  BY DEF R, OpToRel
<1>4. \A y \in T : ~(y < x)
  BY <1>2, <1>3, Zenon
<1>5. x \in Nat /\ \A y \in T : y \in Nat
  OBVIOUS
<1> QED
  BY <1>4, <1>5

\* A set of numbers up to n that holds 0 has a greatest one.
LEMMA GreatestNat ==
  ASSUME NEW n \in Nat, NEW S \in SUBSET (0..n), 0 \in S
  PROVE  \E x \in S : \A y \in S : y <= x
<1> DEFINE T == {n - i : i \in S}
<1>1. T \in SUBSET Nat /\ n - 0 \in T
  OBVIOUS
<1>2. PICK t \in T : \A y \in T : t <= y
  <2> HIDE DEF T
  <2> QED
    BY <1>1, LeastNat, Zenon
<1>3. PICK x \in S : t = n - x
  BY <1>2, Zenon
<1>4. \A y \in S : n - x <= n - y
  BY <1>2, <1>3, Zenon
<1>5. x \in 0..n /\ S \subseteq 0..n
  BY <1>3, Zenon
<1>6. \A y \in 0..n : n - x <= n - y => y <= x
  BY <1>5
<1> QED
  BY <1>3, <1>4, <1>5, <1>6, Zenon

\* A set of numbers that holds 0, and with n also n + 1, is Nat.
LEMMA NatInduct ==
  ASSUME NEW S \in SUBSET Nat, 0 \in S, \A n \in Nat : n \in S => n + 1 \in S
  PROVE  S = Nat
<1> SUFFICES ASSUME Nat \ S # {} PROVE FALSE
  BY Zenon
<1>1. PICK x \in Nat \ S : \A y \in Nat \ S : x <= y
  BY LeastNat, Zenon
<1>2. x # 0 /\ x - 1 \in Nat /\ x - 1 + 1 = x
  BY <1>1
<1> QED
  BY <1>1, <1>2

-----------------------------------------------------------------------------
(* Recursive functions on 0..n *)

\* Induction up to n.
LEMMA UpTo ==
  ASSUME NEW n \in Nat, NEW S, 0 \in S, \A i \in 1..n : i - 1 \in S => i \in S
  PROVE  \A i \in 0..n : i \in S
<1> DEFINE T == {i \in Nat : i <= n => i \in S}
<1>1. 0 \in T
  OBVIOUS
<1>2. \A i \in Nat : i \in T => i + 1 \in T
  <2> SUFFICES ASSUME NEW i \in Nat, i \in T, i + 1 <= n PROVE i + 1 \in S
    OBVIOUS
  <2>1. i + 1 \in 1..n /\ i + 1 - 1 = i /\ i \in S
    OBVIOUS
  <2> QED
    BY <2>1
<1>3. T = Nat
  <2> HIDE DEF T
  <2>1. T \in SUBSET Nat
    BY Zenon DEF T
  <2> QED
    BY <1>1, <1>2, <2>1, NatInduct, Zenon
<1> QED
  BY <1>3

\* A step g and a first value a define a function on 0..n.
Recurs(f, n, V, a, g) ==
  f \in [0..n -> V] /\ f[0] = a /\ \A i \in 1..n : f[i] = g[<<i, f[i - 1]>>]

\* Such a function exists.
LEMMA Recursion ==
  ASSUME NEW n \in Nat, NEW V, NEW a \in V, NEW g \in [(1..n) \X V -> V]
  PROVE  \E f : Recurs(f, n, V, a, g)
<1> DEFINE Upto(m) == \E f \in [0..m -> V] : f[0] = a /\ \A i \in 1..m : f[i] = g[<<i, f[i - 1]>>]
           S == {m \in Nat : Upto(m)}
<1>1. 0 \in S
  <2>1. [i \in 0..0 |-> a] \in [0..0 -> V] /\ [i \in 0..0 |-> a][0] = a /\ 1..0 = {}
    OBVIOUS
  <2> QED
    BY <2>1, Zenon
<1>2. \A m \in 1..n : m - 1 \in S => m \in S
  <2>0. \A m \in 1..n : m \in Nat
    OBVIOUS
  <2> SUFFICES ASSUME NEW m \in 1..n, Upto(m - 1) PROVE Upto(m)
    BY <2>0, Zenon
  <2>1. PICK f \in [0..(m - 1) -> V] : f[0] = a /\ \A i \in 1..(m - 1) : f[i] = g[<<i, f[i - 1]>>]
    OBVIOUS
  <2> DEFINE h == [i \in 0..m |-> IF i = m THEN g[<<m, f[m - 1]>>] ELSE f[i]]
  <2>2. m \in Nat /\ m - 1 \in 0..(m - 1) /\ \A i \in 0..m : i = m \/ i \in 0..(m - 1)
    OBVIOUS
  <2>3. g[<<m, f[m - 1]>>] \in V
    BY <2>1, <2>2
  <2>4. h \in [0..m -> V]
    BY <2>1, <2>2, <2>3
  <2>5. h[0] = a /\ h[m] = g[<<m, f[m - 1]>>] /\ \A i \in 0..(m - 1) : h[i] = f[i]
    BY <2>1, <2>2
  <2> HIDE DEF h
  <2>6. \A i \in 1..m : h[i] = g[<<i, h[i - 1]>>]
    <3> SUFFICES ASSUME NEW i \in 1..m PROVE h[i] = g[<<i, h[i - 1]>>]
      OBVIOUS
    <3>1. h[i - 1] = f[i - 1]
      BY <2>5
    <3>2. CASE i = m
      BY <2>5, <3>1, <3>2, Zenon
    <3>3. CASE i # m
      <4>1. i \in 1..(m - 1) /\ i \in 0..(m - 1)
        BY <3>3
      <4> QED
        BY <2>1, <2>5, <3>1, <4>1, Zenon
    <3> QED
      BY <3>2, <3>3
  <2> QED
    BY <2>4, <2>5, <2>6, Zenon
<1>3. \A m \in 0..n : m \in S
  <2> HIDE DEF S
  <2> QED
    BY <1>1, <1>2, UpTo, Zenon
<1>4. n \in 0..n
  OBVIOUS
<1> QED
  BY <1>3, <1>4, Zenon DEF Recurs

-----------------------------------------------------------------------------
(* Sequences *)

\* A function on 1..n is a sequence of length n.
LEMMA FcnSeq ==
  ASSUME NEW A, NEW n \in Nat, NEW s \in [1..n -> A]
  PROVE  s \in Seq(A) /\ Len(s) = n
OBVIOUS

\* The elements of a sequence.
LEMMA Elt ==
  ASSUME NEW A, NEW s \in Seq(A), NEW i \in 1..Len(s)
  PROVE  s[i] \in A
OBVIOUS

\* Sequences of one length that agree at every position are the same.
LEMMA SameSeq ==
  ASSUME NEW s \in Seq(Nat), NEW t \in Seq(Nat), Len(s) = Len(t), \A i \in 1..Len(s) : s[i] = t[i]
  PROVE  s = t
<1>1. PICK n, m : n = Len(s) /\ m = Len(t)
  BY Zenon
<1>2. s = [i \in 1..n |-> s[i]]
  BY <1>1
<1>3. t = [i \in 1..m |-> t[i]]
  BY <1>1
<1> QED
  BY <1>1, <1>2, <1>3, Zenon

\* The first n elements.
LEMMA Prefix ==
  ASSUME NEW s \in Seq(Nat), NEW n \in Nat, n <= Len(s), NEW u, u = SubSeq(s, 1, n)
  PROVE  u \in Seq(Nat) /\ Len(u) = n /\ \A i \in 1..n : u[i] = s[i]
OBVIOUS

\* What a concatenation holds, position by position.
LEMMA Concat ==
  ASSUME NEW s \in Seq(Nat), NEW t \in Seq(Nat), NEW u, u = s \o t
  PROVE  /\ u \in Seq(Nat) /\ Len(u) = Len(s) + Len(t)
         /\ \A i \in 1..Len(s) : u[i] = s[i]
         /\ \A i \in 1..Len(t) : u[Len(s) + i] = t[i]
OBVIOUS

\* From position p on.
LEMMA Rest ==
  ASSUME NEW s \in Seq(Nat), NEW p \in 0..Len(s), NEW u, u = SubSeq(s, p + 1, Len(s))
  PROVE  u \in Seq(Nat) /\ Len(u) = Len(s) - p /\ \A i \in 1..(Len(s) - p) : u[i] = s[p + i]
OBVIOUS

\* The same, of a sequence of anything.
LEMMA RestIn ==
  ASSUME NEW A, NEW s \in Seq(A), NEW p \in 0..Len(s), NEW u, u = SubSeq(s, p + 1, Len(s))
  PROVE  u \in Seq(A) /\ Len(u) = Len(s) - p /\ \A i \in 1..(Len(s) - p) : u[i] = s[p + i]
OBVIOUS

================================================================================
