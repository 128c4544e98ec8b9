----------------------------- MODULE MCWarmPool -----------------------------
(***************************************************************************)
(* Instances of WarmPool for TLC.  Workers are interchangeable.            *)
(***************************************************************************)
EXTENDS WarmPool, TLC

Symmetry == Permutations(Workers)
=============================================================================
