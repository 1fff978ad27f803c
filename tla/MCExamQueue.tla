---------------------------- MODULE MCExamQueue ----------------------------
(***************************************************************************)
(* Constants for the model checking of ExamQueue: those of                 *)
(* MCExamController.                                                       *)
(***************************************************************************)
EXTENDS MCExamController, ExamQueueInvariant
=============================================================================
