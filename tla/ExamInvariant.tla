--------------------------- MODULE ExamInvariant ---------------------------
(***************************************************************************)
(* The inductive invariants behind the safety theorems of ExamController.  *)
(* Their parts say how the copies of the Exam that caches and reconciles   *)
(* hold relate to the stored one.                                          *)
(***************************************************************************)
EXTENDS ExamController

Past(phase, rank) == PhaseRank[phase] >= rank

\* The namespace exists, or its going away has been asked for.
Kept == ns = "active" \/ exam.deleting \/ Past(exam.phase, 5)

\* c is a version the Exam had: the stored phase is at least as far, deletion
\* is not undone, and where the webhook guards edits the unlock time has not
\* changed since c left Pending.
OlderVersion(c) ==
  /\ PhaseRank[c.phase] <= PhaseRank[exam.phase]
  /\ WebhookEnabled /\ Past(c.phase, 2) => c.spec.unlock = exam.spec.unlock
  /\ c.deleting => exam.deleting

\* The parts of Reconcile before and after the dispatch, and those of the
\* deletion branch.
BeforeDispatch == {"addFinalizer", "decide"}
InHandler      == {"namespace", "provision", "ready", "enforce",
                   "deleteIngresses", "notify", "teardown", "status"}
InDeletion     == {"finalizeDelete", "removeFinalizer"}

\* A cache holds a version the Exam had, and the stored one when synced.
CacheInv(w) ==
  /\ OlderVersion(cache[w])
  /\ synced[w] => cache[w] = exam

\* A copy that is still the latest version can be written back.
FreshInv(w) ==
  fresh[w] =>
    /\ pc[w] # "idle"
    /\ exam.present
    /\ loc[w].spec = exam.spec
    /\ pc[w] \in BeforeDispatch => loc[w] = exam
    /\ pc[w] \in InHandler =>
         Contract!MayFollow(exam.phase, loc[w].phase, exam.spec, clock)

\* Which phase the handler code runs in.
HandlerPhaseOK(w) ==
  /\ pc[w] \in {"namespace", "provision"} => loc[w].phase = "Provisioning"
  /\ pc[w] = "ready" => loc[w].phase = "Ready"
  /\ pc[w] = "enforce" => loc[w].phase \in {"Ready", "Unlocked", "Locked"}
  /\ pc[w] = "deleteIngresses" => loc[w].phase = "Locked"
  /\ pc[w] = "notify" => loc[w].phase \in {"Unlocked", "Locked"}
  /\ pc[w] = "teardown" => loc[w].phase = "TearingDown"

HandlerPhaseInv == \A w \in Workers : HandlerPhaseOK(w)

\* What a copy in flight, however stale, tells about the stored Exam.
InFlightInv(w) ==
  /\ pc[w] \in BeforeDispatch => OlderVersion(loc[w])
  /\ pc[w] \in InDeletion => exam.deleting
  /\ pc[w] \in InHandler =>
       /\ Past(loc[w].phase, 3) => Kept
       /\ Past(loc[w].phase, 4) => Past(exam.phase, 3)
       /\ WebhookEnabled /\ Past(loc[w].phase, 4) => clock >= exam.spec.unlock
       /\ Past(loc[w].phase, 6) => Past(exam.phase, 5)

WorkerInv(w) == CacheInv(w) /\ FreshInv(w) /\ InFlightInv(w)

\* How the stored Exam relates to the clock, as far as the webhook has frozen
\* its times, and to the cluster.
StoredInv ==
  /\ Past(exam.phase, 3) => Kept
  /\ WebhookEnabled /\ Past(exam.phase, 4) => clock >= exam.spec.unlock
  /\ WebhookEnabled /\ Past(exam.phase, 5) => clock >= LockTime(exam.spec)
  /\ objs \cap AccessObjects # {} => Past(exam.phase, 2)
  /\ WebhookEnabled /\ objs \cap AccessObjects # {} => clock >= exam.spec.unlock
  /\ ns = "absent" => objs = {}
  /\ ns = "terminating" => Kept
  /\ ~exam.present => exam.deleting

\* The invariant for time, order and the namespace.
IInv == StoredInv /\ HandlerPhaseInv /\ \A w \in Workers : WorkerInv(w)

-----------------------------------------------------------------------------
\* What a copy of the Exam says about mail is true of the deliveries in box,
\* and AllEmailsSent is only set on an Exam that is past provisioning, which
\* would set mails to Pending.
CopyMail(c, box) ==
  /\ \A i \in Students : c.mail[i] = "Sent" => box[<<"url", i>>] > 0
  /\ "InstructorNotifiedUnlock" \in c.conds => box[<<"unlock", 0>>] > 0
  /\ "InstructorNotifiedLock" \in c.conds => box[<<"lock", 0>>] > 0
  /\ "AllEmailsSent" \in c.conds =>
       Past(c.phase, 3) /\ \A i \in Students : c.mail[i] \in {"Sent", "Failed"}
  /\ Past(c.phase, 3) => \A i \in Students : c.mail[i] # "none"

\* reconcileProvisioning gives every student it has visited a status.
LoopMail(w) ==
  /\ pc[w] = "namespace" => todo[w] = Instances
  /\ pc[w] = "provision" =>
       \A i \in Students : i \notin todo[w] => loc[w].mail[i] # "none"

\* The invariant for mail.
MailInv ==
  /\ CopyMail(exam, mailbox)
  /\ HandlerPhaseInv
  /\ \A w \in Workers :
       /\ CopyMail(cache[w], mailbox)
       /\ pc[w] # "removeFinalizer" => CopyMail(loc[w], mailbox)
       /\ LoopMail(w)

-----------------------------------------------------------------------------
(***************************************************************************)
(* One manager: while its reconcile runs nobody else makes API calls for   *)
(* the Exam.                                                               *)
(***************************************************************************)
Solo == \A v, w \in Workers : v = w

\* No reconcile works in the namespace of an Exam before the finalizer is on
\* it or once it is gone, and none that starts from the cache will: it adds
\* the finalizer first, or finds the Exam deleted.
ReleaseInv ==
  /\ exam.present /\ ~exam.finalizer => ns = "absent"
  /\ NoLeak
  /\ \A w \in Workers :
       /\ exam.present /\ ~exam.finalizer =>
            pc[w] \in {"idle", "addFinalizer"} /\ ~cache[w].finalizer
       /\ pc[w] \in InDeletion => cache[w].deleting
       /\ pc[w] = "removeFinalizer" => ns # "active"
       /\ ~exam.present =>
            /\ pc[w] \in {"idle", "addFinalizer"} \cup InDeletion
            /\ cache[w].present => cache[w].deleting \/ ~cache[w].finalizer

\* Once an Exam is Ready its status entries stay, so every copy of it that is
\* that far lists the same ones.
SameEntries(w) ==
  /\ Past(cache[w].phase, 3) => collectSlugs(cache[w]) = collectSlugs(exam)
  /\ pc[w] \in BeforeDispatch /\ Past(loc[w].phase, 3)
       => collectSlugs(loc[w]) = collectSlugs(exam)
  /\ pc[w] \in {"ready", "enforce", "deleteIngresses", "notify", "teardown"}
       => Past(exam.phase, 3) /\ collectSlugs(loc[w]) = collectSlugs(exam)
  /\ pc[w] = "status" /\ fresh[w] /\ Past(exam.phase, 3)
       => collectSlugs(loc[w]) = collectSlugs(exam)
  /\ pc[w] = "enforce" => todo[w] \subseteq collectSlugs(loc[w])

\* Routes exist only for the instances that have a status entry.
KnownRoutes ==
  /\ objs \cap AccessObjects \subseteq AccessKinds \X collectSlugs(exam)
  /\ objs \cap AccessObjects # {} => Past(exam.phase, 3)

\* The invariant for the status entries, for any number of managers.
EntryInv == KnownRoutes /\ \A w \in Workers : SameEntries(w)

\* A reconcile that starts from c now decides on Locked or TearingDown.
LocksOn(c) == Past(c.phase, 5) \/ (c.phase = "Unlocked" /\ clock >= LockTime(c.spec))

\* After the lock no reconcile that runs or starts from the cache opens a
\* route again.
LockFinal(w) ==
  Past(exam.phase, 5) =>
    /\ LocksOn(cache[w])
    /\ pc[w] \in BeforeDispatch => LocksOn(loc[w])
    /\ pc[w] \in InHandler => Past(loc[w].phase, 5)

\* A reconcile whose copy is still the latest version: the cache has its phase
\* and spec, and nobody has deleted the Exam.
LatestCopy(w) ==
  fresh[w] =>
    /\ cache[w].phase = exam.phase /\ cache[w].spec = exam.spec
    /\ pc[w] \in BeforeDispatch \cup InHandler => ~exam.deleting

\* How far the loops of reconcileLocked and reconcileUnlock have come.
ClosingInv(w) ==
  loc[w].phase = "Locked" /\ faults = 0 =>
    /\ pc[w] = "enforce" =>
         \A i \in Instances : <<"ingressAllow", i>> \in objs => i \in todo[w]
    /\ pc[w] \in {"deleteIngresses", "notify", "status"} =>
         \A i \in Instances : <<"ingressAllow", i>> \notin objs

OpeningInv(w) ==
  loc[w].phase = "Unlocked" /\ faults = 0 /\ fresh[w] =>
    /\ pc[w] = "enforce" => AccessKinds \X (collectSlugs(loc[w]) \ todo[w]) \subseteq objs
    /\ pc[w] \in {"notify", "status"} => AccessKinds \X collectSlugs(loc[w]) \subseteq objs

\* The invariant for the routes of an Exam with one manager.
RouteInv ==
  /\ LockedClosed
  /\ \A w \in Workers : LockFinal(w) /\ LatestCopy(w) /\ ClosingInv(w) /\ OpeningInv(w)

\* The invariant for one manager: an Exam is released only with its namespace
\* on the way out, copies past provisioning list the same instances, and the
\* loops of reconcileLocked and reconcileUnlock close and open every route
\* before the status that says so can be written.
SoloInv == ReleaseInv /\ EntryInv /\ RouteInv
=============================================================================
