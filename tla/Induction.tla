----------------------------- MODULE Induction -----------------------------
(***************************************************************************)
(* Induction over the naturals for the proofs about recursive functions,   *)
(* from the fact that they are well-founded: a set that holds a first      *)
(* number, and with each number its neighbour, holds a whole interval.     *)
(***************************************************************************)
EXTENDS Integers, TLAPS, WellFoundedInduction

LEMMA Least ==
  ASSUME NEW T, T \subseteq Nat, T # {}
  PROVE  \E m \in T : \A n \in T : m <= n
<1> DEFINE R == {ss \in Nat \X Nat : ss[1] < ss[2]}
<1>1. IsWellFoundedOn(R, Nat)
  BY NatLessThanWellFounded DEF OpToRel
<1> HIDE DEF R
<1>2. PICK m \in T : \A n \in T : ~(<<n, m>> \in R)
  BY <1>1, WFMin
<1>3. \A n \in T : ~(n < m)
  BY <1>2 DEF R
<1> QED BY <1>3

\* From 0 up to n.
LEMMA Upwards ==
  ASSUME NEW n \in Nat, NEW S, 0 \in S, \A i \in 0..(n - 1) : i \in S => i + 1 \in S
  PROVE  \A i \in 0..n : i \in S
<1> DEFINE T == {i \in 0..n : i \notin S}
<1> SUFFICES ASSUME T # {} PROVE FALSE
  OBVIOUS
<1>0. T \subseteq Nat /\ T \subseteq 0..n
  OBVIOUS
<1> HIDE DEF T
<1>1. PICK m \in T : \A i \in T : m <= i
  BY <1>0, Least
<1> USE DEF T
<1>2. m # 0 /\ m - 1 \in 0..(n - 1) /\ m - 1 \in 0..n /\ ~(m <= m - 1) /\ (m - 1) + 1 = m
  BY <1>1
<1>3. m - 1 \in S
  BY <1>1, <1>2
<1> QED BY <1>1, <1>2, <1>3

\* From n down to 1.
LEMMA Downwards ==
  ASSUME NEW n \in Nat, NEW S, n \in S, \A i \in 1..(n - 1) : i + 1 \in S => i \in S
  PROVE  \A i \in 1..n : i \in S
<1> DEFINE T == {i \in 0..n : n - i \in S \/ i = n}
<1>1. 0 \in T
  OBVIOUS
<1>2. ASSUME NEW i \in 0..(n - 1), i \in T PROVE i + 1 \in T
  <2>1. CASE i + 1 = n
    BY <2>1
  <2>2. CASE i + 1 # n
    <3>1. n - (i + 1) \in 1..(n - 1) /\ (n - (i + 1)) + 1 = n - i /\ i # n /\ i + 1 \in 0..n
      BY <2>2
    <3>2. n - i \in S
      BY <1>2, <3>1
    <3> QED BY <3>1, <3>2
  <2> QED BY <2>1, <2>2
<1> HIDE DEF T
<1>3. \A i \in 0..n : i \in T
  BY <1>1, <1>2, Upwards
<1>4. ASSUME NEW i \in 1..n PROVE i \in S
  <2>1. n - i \in 0..n /\ n - (n - i) = i /\ n - i # n
    OBVIOUS
  <2>2. n - i \in T
    BY <1>3, <2>1
  <2> QED BY <2>1, <2>2 DEF T
<1> QED BY <1>4
=============================================================================
