------------------------ MODULE ExamQueueInvariant ------------------------
(***************************************************************************)
(* The inductive invariants behind the theorems about the work queue: what *)
(* the item of a manager at rest, and the result of a reconcile in flight, *)
(* stand for, and which objects an undisturbed reconcile has seen in place.*)
(***************************************************************************)
EXTENDS ExamQueue

\* The types of the queue's variables.
QueueTypeOK ==
  /\ queue \in [Workers -> Nat \cup {Never, Paused}]
  /\ result \in [Workers -> Nat \cup {Never, Paused}]
  /\ event \in [Workers -> BOOLEAN]
  /\ paced \in [Workers -> BOOLEAN]

-----------------------------------------------------------------------------
\* An item that is due at once, after a pause, or in time for what e waits for.
InTime(r, e) ==
  \/ r \in {Now, Paused}
  \/ /\ e.phase \in {"Pending", "Ready", "Unlocked", "Locked"}
     /\ r # Never
     /\ \A t \in Due(e) : r <= t

\* The handler of the reconcile in flight has settled what it returns.
Answered(w) ==
  /\ loc[w].phase = "Provisioning" => pc[w] = "status"
  /\ loc[w].phase = "Ready" => pc[w] \in {"enforce", "status"}
  /\ loc[w].phase # "TearingDown"

\* A reconcile that will change nothing returns in time; any other is
\* followed by an event or an error, which put the item back at once.
WakeInv(w) ==
  /\ pc[w] # "idle" => queue[w] \in {Never, Now}
  /\ pc[w] # "idle" /\ synced[w] /\ queue[w] # Now => fresh[w]
  /\ pc[w] \in InHandler => loc[w].phase # "Unset"
  /\ pc[w] = "ready" => wnow[w] < loc[w].spec.unlock
  /\ pc[w] \in InHandler /\ fresh[w] /\ loc[w].phase = exam.phase /\ Answered(w)
       => InTime(result[w], loc[w])
  /\ /\ pc[w] = "idle" /\ synced[w]
     /\ exam.present /\ ~exam.deleting /\ exam.phase # "TearingDown"
     => InTime(queue[w], exam)

-----------------------------------------------------------------------------
\* An Exam that nobody edits is not unlocked, locked or torn down early.
OnTime(phase) ==
  /\ Past(phase, 4) => clock >= exam.spec.unlock
  /\ Past(phase, 5) => clock >= LockTime(exam.spec)
  /\ Past(phase, 6) => clock >= RetentionDeadline(exam.spec)

\* Every copy of it has the one spec there is.
UneditedCopy(w) ==
  /\ cache[w].spec = exam.spec
  /\ pc[w] # "idle" => loc[w].spec = exam.spec
  /\ pc[w] \in InHandler => OnTime(loc[w].phase)

\* So, with or without the webhook, its routes come after the unlock time, and
\* its namespace stays until the retention time is over.
UneditedInv ==
  edits = 0 =>
    /\ OnTime(exam.phase)
    /\ objs \cap AccessObjects # {} => clock >= exam.spec.unlock
    /\ exam.phase = "Locked" /\ ~exam.deleting /\ ns # "active"
         => clock >= RetentionDeadline(exam.spec)
    /\ \A w \in Workers : UneditedCopy(w)

-----------------------------------------------------------------------------
\* Instance i has the policies and routes of the phase, as far as
\* enforcePolicies looks after them.
InPlace(i, phase) ==
  /\ WantedKinds(phase) \X {i} \subseteq objs
  /\ phase # "Unlocked" => <<"ingressAllow", i>> \notin objs

AllInPlace == \A i \in collectSlugs(exam) : InPlace(i, exam.phase)

NoIngress == exam.phase = "Locked" => \A o \in objs : o[1] # "ingress"

\* The policies provisionInstance creates.
BasePolicies(i) == {"denyAll", "egressAllow"} \X {i} \subseteq objs

\* One manager and an Exam in use: no call has failed, nobody has edited or
\* deleted it or its objects.
Calm ==
  /\ Solo /\ faults = 0 /\ edits = 0
  /\ ns = "active" /\ exam.present /\ ~exam.deleting

\* An Exam is Ready only when every instance has its policies, although
\* reconcileProvisioning does not look for them.
BaseInv ==
  Calm =>
    /\ Past(exam.phase, 3) => \A i \in Instances : BasePolicies(i)
    /\ \A w \in Workers :
         /\ pc[w] = "provision" =>
              \A i \in Instances \ todo[w] : BasePolicies(i) /\ loc[w].inst[i] # "none"
         /\ pc[w] = "status" /\ loc[w].phase = "Ready" =>
              \A i \in Instances : BasePolicies(i)

\* After the unlock no reconcile that runs or starts from the cache takes the
\* Exam to be still Ready.
UnlockFinal(w) ==
  Solo /\ edits = 0 /\ Past(exam.phase, 4) =>
    /\ Past(cache[w].phase, 3)
    /\ pc[w] \in BeforeDispatch => Past(loc[w].phase, 3)
    /\ pc[w] \in InHandler => Past(loc[w].phase, 4)

\* So an Exam stored as Unlocked has all its routes until the lock time.
StaysOpen ==
  Calm /\ exam.phase = "Unlocked" /\ clock < LockTime(exam.spec)
    => AccessKinds \X collectSlugs(exam) \subseteq objs

\* A reconcile of the latest version that keeps the phase finds everything in
\* place already, so a call that fails in it leaves nothing undone.
SteadyInv(w) ==
  /\ Calm /\ exam.phase \in {"Ready", "Unlocked", "Locked"}
  /\ fresh[w] /\ loc[w].phase = exam.phase
  /\ pc[w] \in {"ready", "enforce", "deleteIngresses", "notify", "status"}
  => AllInPlace

CalmInv == BaseInv /\ StaysOpen /\ \A w \in Workers : UnlockFinal(w) /\ SteadyInv(w)

-----------------------------------------------------------------------------
\* An Exam with its namespace, in whose cluster no more went wrong than is
\* Tolerated.  The namespace is the one it always had: one manager never
\* creates it again, and where another may, the retention time is not over and
\* the Exam was never edited.
Live ==
  /\ ns = "active" /\ exam.present /\ ~exam.deleting
  /\ exam.phase \in {"Ready", "Unlocked", "Locked"}
  /\ \/ faults = 0 /\ Solo
     \/ faults = 1 /\ Solo /\ edits = 0
     \/ /\ faults = 0 /\ edits = 0
        /\ exam.phase = "Locked" => clock < RetentionDeadline(exam.spec)

\* No object has changed, and no version arrived, since the manager's last
\* reconcile began.
Undisturbed(w) == ~event[w] /\ queue[w] # Now

\* What an undisturbed reconcile of the latest version has visited is in
\* place, and all of it is when the manager is at rest.
PlacedInv(w) ==
  Live /\ Undisturbed(w) =>
    /\ fresh[w] /\ loc[w].phase = exam.phase =>
         /\ pc[w] = "enforce" =>
              \A i \in collectSlugs(exam) \ todo[w] : InPlace(i, exam.phase)
         /\ pc[w] = "deleteIngresses" => AllInPlace
         /\ pc[w] = "notify" \/ (pc[w] = "status" /\ result[w] \notin {Now, Paused})
              => AllInPlace /\ NoIngress
    /\ pc[w] = "idle" /\ synced[w] /\ queue[w] # Paused => AllInPlace /\ NoIngress

\* The invariant for the work queue: what Reconcile returns is in time for what
\* the Exam waits for, or an event or a retry follows; and what enforcePolicies
\* has visited without being disturbed is in place.
QueueInv ==
  /\ QueueTypeOK
  /\ UneditedInv
  /\ CalmInv
  /\ \A w \in Workers : WakeInv(w) /\ PlacedInv(w)
=============================================================================
