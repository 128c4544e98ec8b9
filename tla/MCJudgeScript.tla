---------------------------- MODULE MCJudgeScript ----------------------------
(***************************************************************************)
(* Instances of JudgeScript for TLC.                                       *)
(***************************************************************************)
EXTENDS JudgeScript
=============================================================================
