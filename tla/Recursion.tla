------------------------------ MODULE Recursion ------------------------------
(***************************************************************************)
(* What the proofs on SkillServer and Resolver need of recursive functions *)
(* over a range of numbers: induction by way of a set, and that a function *)
(* exists that satisfies its recursion equation.  The step of a recursion  *)
(* is given as a function, not as an operator.                             *)
(***************************************************************************)
EXTENDS Integers, TLAPS, WellFoundedInduction

(* A set of numbers that is not empty has a least one.                     *)
LEMMA Least ==
    ASSUME NEW T, T \subseteq Nat, T # {}
    PROVE  \E x \in T : \A y \in T : x <= y
PROOF
<1>1. \E x \in T : \A y \in T : ~(<<y, x>> \in OpToRel(<, Nat))
    BY NatLessThanWellFounded, WFMin
<1>2. PICK x \in T : \A y \in T : ~(y < x)
    BY <1>1 DEF OpToRel
<1> QED
    BY <1>2

(* If it is bounded it has a greatest one.                                 *)
LEMMA Greatest ==
    ASSUME NEW N \in Nat, NEW T, T \subseteq 0 .. N, T # {}
    PROVE  \E x \in T : \A y \in T : y <= x
PROOF
<1> DEFINE D == {d \in 0 .. N : N - d \in T}
<1>1. D \subseteq Nat
    OBVIOUS
<1>2. \A x \in T : N - x \in D
    OBVIOUS
<1>3. D # {}
    BY <1>2
<1>4. PICK d \in D : \A y \in D : d <= y
    BY <1>1, <1>3, Least
<1>5. N - d \in T /\ \A y \in T : y <= N - d
    BY <1>2, <1>4
<1> QED
    BY <1>5

(* A set that has 0 and with a number the next has all up to N.            *)
LEMMA UpTo ==
    ASSUME NEW N \in Nat, NEW S, 0 \in S, \A n \in 1 .. N : n - 1 \in S => n \in S
    PROVE  \A n \in 0 .. N : n \in S
PROOF
<1> DEFINE T == {n \in 0 .. N : n \notin S}
<1>1. SUFFICES ASSUME T # {} PROVE FALSE
    OBVIOUS
<1>2. T \subseteq Nat
    OBVIOUS
<1>3. PICK x \in T : \A y \in T : x <= y
    BY <1>1, <1>2, Least
<1>4. x # 0 /\ x - 1 \in 0 .. N /\ x \in 1 .. N
    OBVIOUS
<1>5. x - 1 \in S
    BY <1>3, <1>4
<1> QED
    BY <1>4, <1>5

(* A set that has a number with all behind it up to N has all of them.     *)
LEMMA DownTo ==
    ASSUME NEW N \in Nat, NEW S,
           \A j \in 1 .. N : (j + 1) .. N \subseteq S => j \in S
    PROVE  \A j \in 1 .. N : j \in S
PROOF
<1> DEFINE T == {j \in 1 .. N : j \notin S}
<1>1. SUFFICES ASSUME T # {} PROVE FALSE
    OBVIOUS
<1>2. T \subseteq 0 .. N
    OBVIOUS
<1>3. PICK x \in T : \A y \in T : y <= x
    BY <1>1, <1>2, Greatest
<1>4. (x + 1) .. N \subseteq S
    BY <1>3
<1> QED
    BY <1>3, <1>4

\* Every value of f follows from the one before.
Follows(f, N, U, base, step) ==
    /\ f \in [0 .. N -> U]
    /\ f[0] = base
    /\ \A n \in 1 .. N : f[n] = step[<<n, f[n - 1]>>]

(* There is such a function.                                               *)
LEMMA FromBefore ==
    ASSUME NEW N \in Nat, NEW U, NEW base \in U, NEW step \in [(1 .. N) \X U -> U]
    PROVE  \E f : Follows(f, N, U, base, step)
PROOF
<1> DEFINE Begins(f, k) == f[0] = base /\ \A n \in 1 .. k : f[n] = step[<<n, f[n - 1]>>]
           S == {k \in 0 .. N : \E f \in [0 .. N -> U] : Begins(f, k)}
<1>1. 0 \in S
  <2> DEFINE f == [n \in 0 .. N |-> base]
  <2>1. f \in [0 .. N -> U] /\ Begins(f, 0)
    OBVIOUS
  <2> HIDE DEF f, Begins
  <2> QED
    BY <2>1
<1>2. ASSUME NEW k \in 1 .. N, k - 1 \in S PROVE k \in S
  <2>1. PICK f \in [0 .. N -> U] : Begins(f, k - 1)
    BY <1>2
  <2> DEFINE g == [f EXCEPT ![k] = step[<<k, f[k - 1]>>]]
  <2>2. g \in [0 .. N -> U]
    BY <2>1
  <2>3. g[k] = step[<<k, f[k - 1]>>] /\ \A n \in 0 .. N : n # k => g[n] = f[n]
    BY <2>1
  <2>4. Begins(g, k)
    <3> HIDE DEF g
    <3>1. g[0] = base
      BY <2>1, <2>3
    <3>2. ASSUME NEW n \in 1 .. k PROVE g[n] = step[<<n, g[n - 1]>>]
      <4>1. n - 1 \in 0 .. N /\ n - 1 # k /\ n \in 0 .. N
        OBVIOUS
      <4>2. CASE n = k
        BY <2>3, <4>1, <4>2
      <4>3. CASE n # k
        <5>1. n \in 1 .. (k - 1)
          BY <4>3
        <5> QED
          BY <2>1, <2>3, <4>1, <4>3, <5>1
      <4> QED
        BY <4>2, <4>3
    <3> QED
      BY <3>1, <3>2
  <2> HIDE DEF g, Begins
  <2> QED
    BY <2>2, <2>4
<1> HIDE DEF S
<1>3. N \in S
  <2>1. \A n \in 0 .. N : n \in S
    BY <1>1, <1>2, UpTo
  <2> QED
    BY <2>1
<1>4. PICK f \in [0 .. N -> U] : Begins(f, N)
  <2> HIDE DEF Begins
  <2> QED
    BY <1>3 DEF S
<1>5. Follows(f, N, U, base, step)
    BY <1>4 DEF Follows
<1> QED
    BY <1>5

\* Every value of f follows from the one at a later place or, where it
\* stops, from none.
FollowsLater(f, N, U, Stop, last, later, step) ==
    /\ f \in [1 .. N -> U]
    /\ \A i \in 1 .. N :
          f[i] = IF i \in Stop THEN last[i] ELSE step[<<i, f[later[i]]>>]

(* There is such a function.                                               *)
LEMMA FromLater ==
    ASSUME NEW N \in Nat, NEW U, NEW Stop, NEW last \in [1 .. N -> U],
           NEW later, \A i \in (1 .. N) \ Stop : later[i] \in (i + 1) .. N,
           NEW step \in [(1 .. N) \X U -> U]
    PROVE  \E f : FollowsLater(f, N, U, Stop, last, later, step)
PROOF
<1> DEFINE Fits(f, i) == f[i] = IF i \in Stop THEN last[i] ELSE step[<<i, f[later[i]]>>]
           S == {k \in 0 .. N : \E f \in [1 .. N -> U] : \A i \in (N + 1 - k) .. N : Fits(f, i)}
<1>1. 0 \in S
  <2>1. \A i \in (N + 1 - 0) .. N : Fits(last, i)
    OBVIOUS
  <2> QED
    BY <2>1
<1>2. ASSUME NEW k \in 1 .. N, k - 1 \in S PROVE k \in S
  <2>1. PICK f \in [1 .. N -> U] : \A i \in (N + 1 - (k - 1)) .. N : Fits(f, i)
    BY <1>2
  <2> DEFINE j == N + 1 - k
             new == IF j \in Stop THEN last[j] ELSE step[<<j, f[later[j]]>>]
             g == [f EXCEPT ![j] = new]
  <2>2. j \in 1 .. N
    OBVIOUS
  <2>3. new \in U
    <3>1. j \notin Stop => later[j] \in 1 .. N
      BY <2>2
    <3> QED
      BY <2>1, <2>2, <3>1
  <2>4. g \in [1 .. N -> U] /\ g[j] = new /\ \A i \in 1 .. N : i # j => g[i] = f[i]
    BY <2>1, <2>2, <2>3
  <2>5. ASSUME NEW i \in j .. N PROVE Fits(g, i)
    <3> HIDE DEF g
    <3>1. i \in 1 .. N
      BY <2>2
    <3>2. i \notin Stop => later[i] \in 1 .. N /\ later[i] # j
      BY <2>2, <3>1
    <3>3. CASE i = j
      BY <2>4, <3>2, <3>3
    <3>4. CASE i # j
      <4>1. i \in (N + 1 - (k - 1)) .. N
        BY <3>4
      <4>2. Fits(f, i)
        BY <2>1, <4>1
      <4> HIDE DEF j
      <4> QED
        BY <2>4, <3>1, <3>2, <3>4, <4>2
    <3> QED
      BY <3>3, <3>4
  <2> HIDE DEF g, Fits
  <2> QED
    BY <2>4, <2>5
<1> HIDE DEF S
<1>3. N \in S
  <2>1. \A n \in 0 .. N : n \in S
    BY <1>1, <1>2, UpTo
  <2> QED
    BY <2>1
<1>4. PICK f \in [1 .. N -> U] : \A i \in (N + 1 - N) .. N : Fits(f, i)
    BY <1>3 DEF S
<1>5. FollowsLater(f, N, U, Stop, last, later, step)
    BY <1>4 DEF FollowsLater
<1> QED
    BY <1>5
=============================================================================
