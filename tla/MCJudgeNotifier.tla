--------------------------- MODULE MCJudgeNotifier ---------------------------
(***************************************************************************)
(* Instances of JudgeNotifier for TLC.  Listeners are interchangeable, and   *)
(* so are submissions.                                                     *)
(***************************************************************************)
EXTENDS JudgeNotifier, TLC

Symmetry == Permutations(Listeners) \cup Permutations(Submissions)
=============================================================================
