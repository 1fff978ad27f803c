-------------------------- MODULE MCExamController --------------------------
(***************************************************************************)
(* Constants for the model checking of ExamController.  Tick 0 is when the *)
(* Exam is applied.                                                        *)
(***************************************************************************)
EXTENDS ExamClaims, TLC

CONSTANTS w1, w2

\* Provisioned at 0, mailed at 1, unlocked at 2, locked at 3, torn down at 4.
BaseSpec ==
  [template |-> "v1", students |-> [i \in 1..NumStudents |-> "id"],
   spares |-> NumSpares, unlock |-> 2, duration |-> 1, timeMultiplier |-> 100,
   provisionBefore |-> 2, emailBefore |-> 1, sendInterval |-> 1,
   retention |-> 1, dryRun |-> NoDryRun, instructorEmail |-> TRUE]

\* A tick more of duration: locks at 4.
Longer       == [BaseSpec EXCEPT !.duration = 2]

\* Unlocks a tick later, with a dry run a tick before.
Postponed    == [BaseSpec EXCEPT !.unlock = 3, !.dryRun = 1]

AllSpecs     == {BaseSpec, Longer, Postponed}

\* A tick sooner: provisioned and mailed as soon as it exists, unlocked at 1,
\* locked at 2, torn down at 3.
SoonSpec     == [BaseSpec EXCEPT !.unlock = 1]
PairSpecs    == {SoonSpec}
RetainSpecs  == {SoonSpec, [SoonSpec EXCEPT !.retention = 2]}

\* Provisioned at 1, mailed at 2, unlocked at 3, locked at 4, torn down at 5.
LaterSpec    == [BaseSpec EXCEPT !.unlock = 3]
LaterSpecs   == {LaterSpec}

\* Unlocks as soon as it is provisioned, locks at 1, torn down at 2; the webhook
\* does not compare the unlock time with the present.
NowSpecs     == {[BaseSpec EXCEPT !.unlock = 0]}

DryRunSpecs  == {[SoonSpec EXCEPT !.dryRun = 1]}

Labels == {"id"}

Symmetry == Permutations(Workers)

\* Bound: at most one failed call, drift, deletion or restart in a behaviour.
OneMishap == faults + crashes <= 1
=============================================================================
