---------------------------- MODULE FiniteCounts ----------------------------
(***************************************************************************)
(* What the proofs use of finite sets and of how many members they have.   *)
(* The lemmas that count take Counting as a hypothesis; the modules whose  *)
(* theorems rest on them prove it from FiniteSetTheorems.                  *)
(***************************************************************************)
EXTENDS Naturals, FiniteSets

Counting ==
    /\ IsFiniteSet({}) /\ Cardinality({}) = 0
    /\ \A n \in Nat : IsFiniteSet(1 .. n)
    /\ \A S : IsFiniteSet(S) => Cardinality(S) \in Nat
    /\ \A S : \A T \in SUBSET S :
         IsFiniteSet(S) => IsFiniteSet(T) /\ Cardinality(T) <= Cardinality(S)
    /\ \A S, x : IsFiniteSet(S) /\ x \notin S =>
         IsFiniteSet(S \cup {x}) /\ Cardinality(S \cup {x}) = Cardinality(S) + 1
    /\ \A S : \A x \in S : IsFiniteSet(S) => Cardinality(S \ {x}) = Cardinality(S) - 1
=============================================================================
