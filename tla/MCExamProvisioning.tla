------------------------ MODULE MCExamProvisioning ------------------------
(***************************************************************************)
(* Constants for the model checking of ExamProvisioning.                   *)
(***************************************************************************)
EXTENDS ExamProvisioningInvariant

CONSTANTS w1, w2
=============================================================================
