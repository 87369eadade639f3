---------------------------- MODULE MCAnswerLoop ----------------------------
(* AnswerLoop on small instances, for TLC. *)
EXTENDS AnswerLoop
=============================================================================
