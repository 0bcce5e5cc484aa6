--------------------------- MODULE InductionFacts ---------------------------
(***************************************************************************)
(* Induction over the natural numbers for sets, and what follows from it   *)
(* for the proofs about loops: a loop is a function after[n] of the number *)
(* of its iterations, and what holds before and after every iteration      *)
(* holds at its end.                                                       *)
(***************************************************************************)
EXTENDS Integers, FiniteSetTheorems, TLAPS

(* A set of naturals that contains zero and the successors of its members  *)
(* is Nat; the set plays the part of the predicate in the usual statement. *)
LEMMA SetInduction ==
  ASSUME NEW T, T \subseteq Nat, 0 \in T, \A n \in T : n + 1 \in T
  PROVE  T = Nat
<1> SUFFICES ASSUME NEW b \in Nat, b \notin T PROVE FALSE
  OBVIOUS
<1> DEFINE Below(n) == 0..(n - 1)
           C == {D \in FiniteSubsetsOf(Nat) : \E n \in Nat \ T : D = Below(n)}
<1>a. ASSUME NEW n \in Nat PROVE Below(n) \in FiniteSubsetsOf(Nat)
  BY FS_Interval DEF FiniteSubsetsOf
<1>1. C \subseteq FiniteSubsetsOf(Nat) /\ C # {}
  BY <1>a
<1> HIDE DEF C
<1>2. PICK D \in C : \A E \in C : ~(<<E, D>> \in StrictSubsetOrdering(Nat))
  BY <1>1, FS_StrictSubsetOrderingWellFounded, WFMin, Zenon
<1>3. PICK n \in Nat \ T : D = Below(n)
  BY DEF C
<1>4. n # 0 /\ n - 1 \in Nat \ T
  OBVIOUS
<1>5. Below(n - 1) \in C
  BY <1>a, <1>4 DEF C
<1>6. <<Below(n - 1), D>> \in StrictSubsetOrdering(Nat)
  <2>1. n - 1 \in D /\ n - 1 \notin Below(n - 1)
    BY <1>3, <1>4
  <2>2. Below(n - 1) \subseteq D /\ D \subseteq Nat
    BY <1>3, <1>4
  <2> QED BY <2>1, <2>2 DEF StrictSubsetOrdering
<1> QED BY <1>2, <1>5, <1>6

(* The same up to a bound.                                                 *)
LEMMA BoundedInduction ==
  ASSUME NEW N \in Nat, NEW T, 0 \in T,
         \A n \in 0..(N - 1) : n \in T => n + 1 \in T
  PROVE  \A n \in 0..N : n \in T
<1> DEFINE U == {n \in Nat : n <= N => n \in T}
<1>1. 0 \in U /\ U \subseteq Nat
  OBVIOUS
<1>2. ASSUME NEW n \in U PROVE n + 1 \in U
  OBVIOUS
<1> HIDE DEF U
<1>3. U = Nat
  BY <1>1, <1>2, SetInduction
<1> QED BY <1>3 DEF U
=============================================================================
