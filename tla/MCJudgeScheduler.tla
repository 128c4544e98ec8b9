-------------------------- MODULE MCJudgeScheduler --------------------------
(***************************************************************************)
(* Instances of JudgeScheduler for TLC.  Worker threads are                *)
(* interchangeable, and so are submission ids: no action orders them.      *)
(***************************************************************************)
EXTENDS JudgeScheduler, TLC

Symmetry == Permutations(Workers) \cup Permutations(Submissions)
=============================================================================
