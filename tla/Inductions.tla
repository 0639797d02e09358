----------------------------- MODULE Inductions -----------------------------
(***************************************************************************)
(* Induction over natural numbers, stated with a set where the library has *)
(* an operator, and what follows from it for folds over sequences: that    *)
(* there is such a thing as their value.                                   *)
(***************************************************************************)
EXTENDS Integers, FiniteSetsExt, WellFoundedInduction, TLAPS

\* A set of natural numbers that is not empty has a least element.
LEMMA LeastNatural ==
  ASSUME NEW S \in SUBSET Nat, S # {}
  PROVE  \E m \in S : \A k \in S : m <= k
<1> DEFINE LessThan == {p \in Nat \X Nat : p[1] < p[2]}
<1>1. IsWellFoundedOn(LessThan, Nat)
  BY NatLessThanWellFounded DEF OpToRel
<1> HIDE DEF LessThan
<1>2. PICK m \in S : \A k \in S : ~ (<<k, m>> \in LessThan)
  BY <1>1, WFMin
<1>3. ASSUME NEW k \in S, k < m PROVE FALSE
  <2>1. <<k, m>> \in LessThan
    BY <1>3 DEF LessThan
  <2> QED
    BY <1>2, <2>1
<1>4. \A k \in S : m <= k
  BY <1>3
<1> QED
  BY <1>4

\* Induction, with what is to be shown written as a set.
LEMMA Induction ==
  ASSUME NEW S, 0 \in S, \A n \in Nat : n \in S => n + 1 \in S
  PROVE  \A n \in Nat : n \in S
<1>1. SUFFICES ASSUME NEW n \in Nat, n \notin S PROVE FALSE
  OBVIOUS
<1> DEFINE Others == {k \in Nat : k \notin S}
<1>2. Others \in SUBSET Nat /\ Others # {}
  BY <1>1
<1>3. PICK m \in Others : \A k \in Others : m <= k
  BY <1>2, LeastNatural
<1>4. m # 0 /\ m - 1 \in Nat /\ m - 1 \notin Others
  BY <1>3
<1>5. m - 1 \in S /\ (m - 1) + 1 = m
  BY <1>3, <1>4
<1> QED
  BY <1>3, <1>4, <1>5

\* A set of indices that is not empty has a greatest one.
LEMMA MaxIsThere ==
  ASSUME NEW n \in Nat, NEW S \in SUBSET (1 .. n), S # {}
  PROVE  /\ Max(S) \in S
         /\ \A k \in S : k <= Max(S)
<1> DEFINE Below == {n - k : k \in S}
<1>0. \A k \in S : k \in 1 .. n
  OBVIOUS
<1>1. Below \in SUBSET Nat /\ Below # {}
  BY <1>0
<1>2. PICK m \in Below : \A k \in Below : m <= k
  BY <1>1, LeastNatural
<1>3. PICK x \in S : m = n - x
  BY <1>2
<1>4. ASSUME NEW k \in S PROVE x >= k
  <2>1. m <= n - k /\ x \in 1 .. n /\ k \in 1 .. n
    BY <1>0, <1>2
  <2> QED
    BY <1>3, <2>1
<1>5. Max(S) \in S /\ \A k \in S : Max(S) >= k
  BY <1>4 DEF Max
<1>6. \A j, k \in S : j >= k => k <= j
  BY <1>0
<1> QED
  BY <1>5, <1>6

LEMMA MaxOfSubset ==
  ASSUME NEW n \in Nat, NEW S \in SUBSET (1 .. n + 1), n + 1 \in S
  PROVE  Max(S) = n + 1 /\ S \ {n + 1} \in SUBSET (1 .. n)
<1>1. \A y \in S : n + 1 >= y
  OBVIOUS
<1>2. \A x \in S : (\A y \in S : x >= y) => x = n + 1
  OBVIOUS
<1>3. Max(S) = n + 1
  BY <1>1, <1>2 DEF Max
<1>4. S \ {n + 1} \in SUBSET (1 .. n)
  OBVIOUS
<1> QED
  BY <1>3, <1>4

LEMMA MaxOfInterval ==
  ASSUME NEW n \in Nat
  PROVE  /\ 1 .. 0 = {}
         /\ Max(1 .. n + 1) = n + 1
         /\ (1 .. n + 1) \ {n + 1} = 1 .. n
         /\ 1 .. n + 1 # {}
<1>1. n + 1 \in 1 .. n + 1 /\ 1 .. 0 = {}
  OBVIOUS
<1>2. Max(1 .. n + 1) = n + 1
  BY <1>1, MaxOfSubset
<1>3. (1 .. n + 1) \ {n + 1} = 1 .. n
  OBVIOUS
<1> QED
  BY <1>1, <1>2, <1>3

\* There is a function on the sets of indices that does what the definition of
\* the folds asks for, whatever is done at each index.
IsFold(iter, n, base, step) ==
  \A S \in SUBSET (1 .. n) :
    iter[S] = IF S = {} THEN base ELSE step[Max(S), iter[S \ {Max(S)}]]

LEMMA FoldOnSubsets ==
  ASSUME NEW n \in Nat, NEW V, NEW base \in V, NEW step \in [(1 .. n) \X V -> V]
  PROVE  \E iter \in [SUBSET (1 .. n) -> V] : IsFold(iter, n, base, step)
<1> DEFINE Good(k, iter) ==
             \A S \in SUBSET (1 .. k) :
               iter[S] = IF S = {} THEN base ELSE step[Max(S), iter[S \ {Max(S)}]]
           HasFold(k) == \E iter \in [SUBSET (1 .. k) -> V] : Good(k, iter)
           Done == {k \in Nat : k <= n => HasFold(k)}
<1>1. 0 \in Done
  <2> DEFINE iter == [S \in SUBSET (1 .. 0) |-> base]
  <2>1. 1 .. 0 = {}
    OBVIOUS
  <2>2. iter \in [SUBSET (1 .. 0) -> V] /\ Good(0, iter)
    BY <2>1
  <2> QED
    BY <2>2
<1>2. ASSUME NEW k \in Nat, k \in Done PROVE k + 1 \in Done
  <2> HIDE DEF HasFold
  <2> SUFFICES ASSUME k + 1 <= n PROVE HasFold(k + 1)
    OBVIOUS
  <2> USE DEF HasFold
  <2>0. k <= n
    OBVIOUS
  <2>1. PICK old \in [SUBSET (1 .. k) -> V] : Good(k, old)
    <3> HIDE DEF Good
    <3> QED
      BY <1>2, <2>0
  <2> DEFINE iter == [S \in SUBSET (1 .. k + 1) |->
                        IF k + 1 \in S THEN step[k + 1, old[S \ {k + 1}]] ELSE old[S]]
  <2>2. ASSUME NEW S \in SUBSET (1 .. k + 1), k + 1 \in S
        PROVE  /\ iter[S] \in V
               /\ iter[S] = step[Max(S), iter[S \ {Max(S)}]]
    <3>1. Max(S) = k + 1 /\ S \ {k + 1} \in SUBSET (1 .. k)
      BY <2>2, MaxOfSubset
    <3>2. S \ {k + 1} \in SUBSET (1 .. k + 1) /\ k + 1 \notin S \ {k + 1}
      BY <3>1
    <3>3. iter[S \ {k + 1}] = old[S \ {k + 1}]
      BY <3>2
    <3>4. iter[S] = step[k + 1, old[S \ {k + 1}]]
      BY <2>2
    <3>5. old[S \ {k + 1}] \in V /\ k + 1 \in 1 .. n
      BY <3>1
    <3>6. step[k + 1, old[S \ {k + 1}]] \in V
      BY <3>5
    <3> QED
      BY <3>1, <3>3, <3>4, <3>6
  <2>3. ASSUME NEW S \in SUBSET (1 .. k + 1), k + 1 \notin S
        PROVE  /\ iter[S] \in V
               /\ iter[S] = IF S = {} THEN base ELSE step[Max(S), iter[S \ {Max(S)}]]
    <3>1. S \in SUBSET (1 .. k)
      BY <2>3
    <3>2. iter[S] = old[S] /\ old[S] \in V
      BY <2>3, <3>1
    <3>3. S \ {Max(S)} \in SUBSET (1 .. k) /\ k + 1 \notin S \ {Max(S)}
      BY <2>3, <3>1
    <3>4. S \ {Max(S)} \in SUBSET (1 .. k + 1)
      BY <3>3
    <3>5. iter[S \ {Max(S)}] = old[S \ {Max(S)}]
      BY <3>3, <3>4
    <3> HIDE DEF iter
    <3> QED
      BY <2>1, <3>1, <3>2, <3>5
  <2> HIDE DEF iter
  <2>4. \A S \in SUBSET (1 .. k + 1) :
          /\ iter[S] \in V
          /\ iter[S] = IF S = {} THEN base ELSE step[Max(S), iter[S \ {Max(S)}]]
    <3> SUFFICES ASSUME NEW S \in SUBSET (1 .. k + 1)
                 PROVE  /\ iter[S] \in V
                        /\ iter[S] = IF S = {} THEN base
                                     ELSE step[Max(S), iter[S \ {Max(S)}]]
      OBVIOUS
    <3>1. CASE k + 1 \in S
      <4>1. S # {}
        BY <3>1
      <4> QED
        BY <2>2, <3>1, <4>1
    <3>2. CASE k + 1 \notin S
      BY <2>3, <3>2
    <3> QED
      BY <3>1, <3>2
  <2>5. iter \in [SUBSET (1 .. k + 1) -> V]
    BY <2>4 DEF iter
  <2> QED
    BY <2>4, <2>5
<1> HIDE DEF Done
<1>3. \A k \in Nat : k \in Done
  BY <1>1, <1>2, Induction
<1> HIDE DEF HasFold
<1>4. HasFold(n)
  BY <1>3 DEF Done
<1> QED
  BY <1>4 DEF HasFold, IsFold
=============================================================================
