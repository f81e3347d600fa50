----------------------------- MODULE Induction ------------------------------
(***************************************************************************)
(* Induction over the natural numbers as a fact about sets, so that it can *)
(* be cited with any set of numbers: the proofs about recursive functions  *)
(* rest on it.  And an order of lists of numbers in which nothing goes     *)
(* down for ever: the proofs that an algorithm comes to its end rest on    *)
(* that.                                                                   *)
(***************************************************************************)
LOCAL INSTANCE Integers
LOCAL INSTANCE WellFoundedInduction
LOCAL INSTANCE TLAPS

(* A set of natural numbers that is not empty has a least element.         *)
LEMMA LeastElement ==
  ASSUME NEW T \in SUBSET Nat, T # {}
  PROVE  \E n \in T : \A m \in T : n <= m
<1> DEFINE Less == {p \in Nat \X Nat : p[1] < p[2]}
<1>1. IsWellFoundedOn(Less, Nat)
  BY NatLessThanWellFounded DEF OpToRel
<1> HIDE DEF Less
<1>2. PICK n \in T : \A m \in T : ~(<<m, n>> \in Less)
  BY <1>1, WFMin
<1>3. \A m, k \in Nat : m < k => <<m, k>> \in Less
  BY DEF Less
<1>4. ASSUME NEW m \in T PROVE n <= m
  <2>1. m \in Nat /\ n \in Nat
    OBVIOUS
  <2>2. ~(m < n)
    BY <1>2, <1>3, <2>1, Zenon
  <2> QED
    BY <2>1, <2>2
<1> QED
  BY <1>4

(* A set that has 0, and with every number its successor, has them all.    *)
THEOREM NumberInduction ==
  ASSUME NEW S, 0 \in S, \A n \in Nat : n \in S => n + 1 \in S
  PROVE  Nat \subseteq S
<1> SUFFICES ASSUME Nat \ S # {} PROVE FALSE
  OBVIOUS
<1>1. PICK n \in Nat \ S : \A m \in Nat \ S : n <= m
  BY LeastElement
<1> QED
  BY <1>1

(* The same from the numbers below, for recursion by more than one.        *)
THEOREM StrongInduction ==
  ASSUME NEW S, \A n \in Nat : (\A m \in Nat : m < n => m \in S) => n \in S
  PROVE  Nat \subseteq S
<1> SUFFICES ASSUME Nat \ S # {} PROVE FALSE
  OBVIOUS
<1>1. PICK n \in Nat \ S : \A m \in Nat \ S : n <= m
  BY LeastElement
<1> QED
  BY <1>1

(* One list of n numbers is below another when the first number that       *)
(* differs is smaller: the order in which the steps of an algorithm lower  *)
(* what is left to do.                                                     *)
Lower(p, q, n) == \E j \in 1 .. n : p[j] < q[j] /\ \A i \in 1 .. j - 1 : p[i] = q[i]

(* No chain of such lists goes down for ever.                              *)
THEOREM NoEndlessDescent ==
  ASSUME NEW n \in Nat
  PROVE  ~ \E f \in [Nat -> [1 .. n -> Nat]] : \A k \in Nat : Lower(f[k + 1], f[k], n)
<1> DEFINE Less == {p \in Nat \X Nat : p[1] < p[2]}
           Lists == [1 .. n -> Nat]
<1>1. IsWellFoundedOn(Less, Nat)
  BY NatLessThanWellFounded DEF OpToRel
<1> HIDE DEF Less
<1>2. IsWellFoundedOn(LexProductOrdering(Less, Nat, n), Lists)
  BY <1>1, WFLexProductOrdering, Zenon
<1>3. SUFFICES ASSUME NEW f \in [Nat -> Lists], \A k \in Nat : Lower(f[k + 1], f[k], n)
               PROVE  FALSE
  OBVIOUS
<1>4. ASSUME NEW k \in Nat PROVE <<f[k + 1], f[k]>> \in LexProductOrdering(Less, Nat, n)
  <2>1. f[k] \in Lists /\ f[k + 1] \in Lists
    OBVIOUS
  <2>2. PICK j \in 1 .. n : /\ f[k + 1][j] < f[k][j]
                            /\ \A i \in 1 .. j - 1 : f[k + 1][i] = f[k][i]
    BY <1>3 DEF Lower
  <2>3. <<f[k + 1][j], f[k][j]>> \in Less
    BY <2>1, <2>2 DEF Less
  <2> QED
    BY <2>1, <2>2, <2>3 DEF LexProductOrdering
<1> QED
  BY <1>2, <1>4 DEF IsWellFoundedOn
=============================================================================
