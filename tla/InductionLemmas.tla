---------------------------- MODULE InductionLemmas ----------------------------
(***************************************************************************)
(* Facts about the natural numbers that the proofs about data rest on: the *)
(* least number, induction over a set, and that a function defined by      *)
(* recursion over an interval exists.  They follow from the well-founded   *)
(* order of the naturals and speak of sets, not of operators, so that they *)
(* can be cited by name.                                                   *)
(***************************************************************************)
EXTENDS Integers, WellFoundedInduction, TLAPS

\* A set of naturals with an element has a least one.
LEMMA LeastNumber ==
  ASSUME NEW T, T \subseteq Nat, T # {}
  PROVE  \E x \in T : \A y \in T : x <= y
<1> DEFINE R == {ss \in Nat \X Nat : ss[1] < ss[2]}
<1>1. IsWellFoundedOn(R, Nat)
  BY NatLessThanWellFounded DEF OpToRel
<1> HIDE DEF R
<1>2. PICK x \in T : \A y \in T : ~ (<<y, x>> \in R)
  BY <1>1, WFMin
<1>3. ASSUME NEW y \in T PROVE x <= y
  <2>1. x \in Nat /\ y \in Nat /\ <<y, x>> \notin R
    BY <1>2
  <2>2. <<y, x>> \in Nat \X Nat /\ <<y, x>>[1] = y /\ <<y, x>>[2] = x
    BY <2>1
  <2>3. ~ (y < x)
    BY <2>1, <2>2 DEF R
  <2> QED
    BY <2>1, <2>3
<1> QED
  BY <1>3

\* Induction over a set of naturals.
LEMMA Induction ==
  ASSUME NEW T, 0 \in T, \A n \in Nat : n \in T => n + 1 \in T
  PROVE  Nat \subseteq T
<1> SUFFICES ASSUME Nat \ T # {} PROVE FALSE
  OBVIOUS
<1>1. PICK x \in Nat \ T : \A y \in Nat \ T : x <= y
  BY LeastNumber
<1>2. x - 1 \in Nat /\ x - 1 \in T
  BY <1>1
<1>3. x - 1 + 1 \in T /\ x - 1 + 1 = x
  BY <1>2
<1> QED
  BY <1>3

\* Two functions that start alike and go on alike are the same at N.
LEMMA SameSteps ==
  ASSUME NEW N \in Nat, NEW f, NEW g, f[0] = g[0],
         \A i \in 1..N : f[i - 1] = g[i - 1] => f[i] = g[i]
  PROVE  f[N] = g[N]
<1> DEFINE T == {i \in Nat : i <= N => f[i] = g[i]}
<1>1. 0 \in T
  OBVIOUS
<1>2. ASSUME NEW i \in Nat, i \in T PROVE i + 1 \in T
  <2>1. i + 1 <= N => i + 1 \in 1..N /\ i <= N /\ (i + 1) - 1 = i
    OBVIOUS
  <2> QED
    BY <1>2, <2>1
<1>3. Nat \subseteq T
  <2> HIDE DEF T
  <2> QED
    BY <1>1, <1>2, Induction
<1> QED
  BY <1>3

\* F[0], F[1], ... have been applied to s0 one after another, n times.
HasIterates(S, F, s0, n) ==
  \E f \in [0..n -> S] : f[0] = s0 /\ \A i \in 1..n : f[i] = F[i - 1][f[i - 1]]

\* What recursion over an interval asks for exists.
LEMMA Iterates ==
  ASSUME NEW S, NEW F \in [Nat -> [S -> S]], NEW s0 \in S, NEW N \in Nat
  PROVE  HasIterates(S, F, s0, N)
<1> DEFINE Good(n, f) == f[0] = s0 /\ \A i \in 0..(n-1) : f[i + 1] = F[i][f[i]]
           T == {n \in Nat : \E f \in [0..n -> S] : Good(n, f)}
<1>1. 0 \in T
  <2>1. [i \in 0..0 |-> s0] \in [0..0 -> S] /\ Good(0, [i \in 0..0 |-> s0])
    OBVIOUS
  <2> QED
    BY <2>1
<1>2. ASSUME NEW n \in Nat, n \in T PROVE n + 1 \in T
  <2>1. PICK f \in [0..n -> S] : Good(n, f)
    BY <1>2
  <2> DEFINE g == [i \in 0..(n+1) |-> IF i = n + 1 THEN F[n][f[n]] ELSE f[i]]
  <2>2. g \in [0..(n+1) -> S]
    OBVIOUS
  <2>3. g[0] = s0
    BY <2>1
  <2>4. ASSUME NEW i \in 0..n PROVE g[i + 1] = F[i][g[i]]
    BY <2>1
  <2>5. (n + 1) - 1 = n
    OBVIOUS
  <2>6. Good(n + 1, g)
    BY <2>3, <2>4, <2>5
  <2> HIDE DEF g, Good
  <2> QED
    BY <2>2, <2>6
<1>3. N \in T
  <2> HIDE DEF T
  <2> QED
    BY <1>1, <1>2, Induction
<1>4. PICK f \in [0..N -> S] : Good(N, f)
  BY <1>3
<1>5. ASSUME NEW i \in 1..N PROVE f[i] = F[i - 1][f[i - 1]]
  <2>1. i - 1 \in 0..(N - 1) /\ (i - 1) + 1 = i
    OBVIOUS
  <2>2. f[(i - 1) + 1] = F[i - 1][f[i - 1]]
    BY <1>4, <2>1
  <2> QED
    BY <2>1, <2>2
<1> QED
  BY <1>4, <1>5 DEF HasIterates
=============================================================================
