----------------------------- MODULE ExamClaims -----------------------------
(***************************************************************************)
(* What the repository's documents say of the controller where the code    *)
(* does something else.  Each is checked by a run that must refute it.     *)
(***************************************************************************)
EXTENDS ExamInvariant

\* README.md: the controller is crash-safe and "won't re-send emails".  A
\* student gets at most one mail with the URL.
NoResend == \A i \in Students : mailbox[<<"url", i>>] <= 1

\* docs/crd-reference.md: in Locked, "Instances are retained until
\* `retentionDeadline`".
RetainedUntilDeadline ==
  exam.present /\ ~exam.deleting /\ exam.phase = "Locked" /\ ns # "active"
    => clock >= RetentionDeadline(exam.spec)

\* docs/crd-reference.md: in Ready, "All instances are healthy."
ReadyMeansHealthy ==
  exam.phase = "Ready" => \A i \in Instances : exam.inst[i] = "Provisioned"

\* README.md: "dry-run checks verify instance health".  A dry run that fails
\* has found an instance that does not run.
DryRunFindsFaults ==
  "DryRunFailed" \in exam.conds => \E i \in Instances : i \notin ready

\* README.md: before the exam is live, Ready "Sends each student their unique
\* URL by email".
StudentsMailed ==
  exam.phase = "Unlocked" => \A i \in Students : exam.mail[i] \in {"Sent", "Failed"}
=============================================================================
