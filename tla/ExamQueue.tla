----------------------------- MODULE ExamQueue -----------------------------
(***************************************************************************)
(* ExamController under its work queue: when a manager reconciles.         *)
(*                                                                         *)
(* controller-runtime keeps at most one item per Exam and manager.  An     *)
(* event of the Exam or of an object that carries its labels               *)
(* (SetupWithManager, requestsForOwnedObject) makes the item available at  *)
(* once; what Reconcile returns puts it back for later.  RequeueAfter 0    *)
(* means no item.  An error is retried with a backoff shorter than a tick, *)
(* and so is the poll of reconcileProvisioning: both are available at once *)
(* here.  The time between two student mails is shorter than a tick too,   *)
(* but is kept apart: an item that waits for it is Paused.  A timer goes   *)
(* off at the time it was computed for: RequeueAfter counts from the end   *)
(* of the reconcile, which comes far less than a tick after its start.     *)
(***************************************************************************)
EXTENDS ExamInvariant

VARIABLES
  queue,    \* per worker: when its item is due, or Never, or Paused
  result,   \* per worker: what the reconcile in flight will return, the same way
  event,    \* per worker: is an event of an owned object still undelivered
  paced     \* per worker: is its last student mail less than sendInterval ago

queueVars == <<queue, result, event, paced>>
allVars   == <<vars, queueVars>>

Now    == 0
Never  == -1
Paused == -2

Available(w) == queue[w] \in 0..clock \/ (queue[w] = Paused /\ ~paced[w])

-----------------------------------------------------------------------------
(***************************************************************************)
(* What Reconcile returns.                                                 *)
(***************************************************************************)

\* RequeueAfter: max(t - now, 0), where 0 asks for nothing.
After(t, now) == IF t > now THEN t ELSE Never

\* Mutant: a Locked exam asks for no wake-up.
PhaseResultUntilLocked(e, now) ==
  CASE e.phase = "Pending"  -> After(ProvisionTime(e.spec), now)
    [] e.phase = "Unlocked" -> After(LockTime(e.spec), now)
    [] OTHER                -> Never

\* What the dispatch and the handlers of these phases ask for.
PhaseResult(e, now) ==
  CASE e.phase = "Pending"  -> After(ProvisionTime(e.spec), now)
    [] e.phase = "Unlocked" -> After(LockTime(e.spec), now)
    [] e.phase = "Locked"   -> After(RetentionDeadline(e.spec), now)
    [] OTHER                -> Never

\* The wake-ups reconcileReady considers.
Wakeups(e) ==
  {e.spec.unlock}
    \cup (IF "AllEmailsSent" \notin e.conds THEN {EmailTime(e.spec)} ELSE {})
    \cup (IF e.spec.dryRun # NoDryRun /\ "DryRunComplete" \notin e.conds
          THEN {e.spec.unlock - e.spec.dryRun} ELSE {})

\* Mutant: only the unlock wakes the controller.
UnlockOnly(e) == e.spec.unlock

nextWake(e) == CHOOSE t \in Wakeups(e) : \A u \in Wakeups(e) : t <= u

Returns(w, r) == result' = [result EXCEPT ![w] = r]

\* The step is one that fails: it was charged, or met a conflict.
Failed(w) == faults' # faults \/ Conflict(w)

\* Mutant: errors are swallowed.
RequeueAlways(w) == queue' = [queue EXCEPT ![w] = IF @ = Now THEN Now ELSE result[w]]

\* The item is back in the queue: at once after an error, or when an event
\* came in the meantime.
Requeue(w) ==
  queue' = [queue EXCEPT ![w] = IF Failed(w) \/ @ = Now THEN Now ELSE result[w]]

\* Mutant: only the Deployments are watched.
NotifyDeployments ==
  event' = [v \in Workers |-> event[v] \/ Deployed(objs') # Deployed(objs) \/ ready' # ready]

\* Every manager watches the objects that carry the Exam's labels.
Notify ==
  event' = [v \in Workers |-> event[v] \/ <<objs, ready>>' # <<objs, ready>>]

-----------------------------------------------------------------------------
(***************************************************************************)
(* Reconcile with its queue.                                               *)
(***************************************************************************)

\* Take the item and start; the dispatch may follow in the same step.
Start(w) ==
  /\ Available(w)
  /\ queue' = [queue EXCEPT ![w] = Never]
  /\ \/ GetNothing(w) /\ UNCHANGED result
     \/ Get(w) /\ Returns(w, IF pc'[w] \in {"addFinalizer", "finalizeDelete"} THEN Never
                             ELSE PhaseResult(loc'[w], clock))
  /\ UNCHANGED <<event, paced>>

Dispatch(w) ==
  /\ Decide(w)
  /\ Returns(w, PhaseResult(loc'[w], clock))
  /\ UNCHANGED <<queue, event, paced>>

\* Steps in which a handler ends with an error, which Reconcile returns once
\* it has written the status.
HandlerError(w) ==
  /\ \/ CreateNamespace(w) /\ pc'[w] = "status"
     \/ SlugError(w)
     \/ deleteIngresses(w) /\ pc'[w] = "status"
     \/ reconcileTeardown(w) /\ faults' # faults
  /\ Returns(w, Now)
  /\ Notify
  /\ UNCHANGED <<queue, paced>>

\* Once every event is delivered the list of Ingresses is the latest.
AllListed(w) == ~event[w] => Ingresses(objs') = {}

\* Steps after which the reconcile goes on, what it returns being settled.
Work(w) ==
  /\ \/ AddFinalizer(w) /\ pc'[w] = "decide"
     \/ CreateNamespace(w) /\ pc'[w] = "provision"
     \/ provisionInstance(w)
     \/ enforcePolicies(w)
     \/ deleteIngresses(w) /\ pc'[w] = "notify" /\ AllListed(w)
     \/ NotifyInstructor(w)
     \/ reconcileTeardown(w) /\ faults' = faults
     \/ FinalizeDelete(w) /\ pc'[w] = "removeFinalizer"
  /\ Notify
  /\ UNCHANGED <<queue, result, paced>>

\* Poll again, or rely on the event of the status update that says Ready.
\* Once every event is delivered the list of Deployments is the latest.
Poll(w) ==
  /\ FinishProvisioning(w)
  /\ ~event[w] /\ allInstancesHealthy(objs, ready) => loc'[w].phase = "Ready"
  /\ Returns(w, IF loc'[w].phase = "Ready" THEN Never ELSE Now)
  /\ Notify
  /\ UNCHANGED <<queue, paced>>

\* A mail was sent: return after sendInterval.
Pace(w) ==
  /\ sendNextPendingEmail(w)
  /\ Returns(w, Paused)
  /\ paced' = [paced EXCEPT ![w] = TRUE]
  /\ UNCHANGED <<queue, event>>

\* Nothing to send: return for the next wake-up.
Wait(w) ==
  /\ ReadyContinue(w)
  /\ Returns(w, After(nextWake(loc'[w]), wnow[w]))
  /\ UNCHANGED <<queue, event, paced>>

\* Steps that end the reconcile.
Finish(w) ==
  /\ \/ StatusUpdate(w)
     \/ RemoveFinalizer(w)
     \/ (AddFinalizer(w) \/ FinalizeDelete(w)) /\ pc'[w] = "idle"
  /\ Requeue(w)
  /\ Returns(w, Never)
  /\ UNCHANGED <<event, paced>>

QueueReconcile(w) ==
  \/ Start(w) \/ Dispatch(w) \/ HandlerError(w) \/ Work(w) \/ Poll(w) \/ Pace(w)
  \/ Wait(w) \/ Finish(w)

-----------------------------------------------------------------------------
(***************************************************************************)
(* Watches, timers, restarts and the rest of the environment.              *)
(***************************************************************************)
Enqueue(w) == queue' = [queue EXCEPT ![w] = Now]

\* The watch on Exams: the cache has the new version and the item is due.
WatchExam(w) ==
  /\ InformerSync(w)
  /\ Enqueue(w)
  /\ UNCHANGED <<result, event, paced>>

\* The watches on Deployments, Services, Ingresses and policies.
WatchOwned(w) ==
  /\ event[w]
  /\ event' = [event EXCEPT ![w] = FALSE]
  /\ Enqueue(w)
  /\ UNCHANGED <<vars, result, paced>>

PauseOver(w) ==
  /\ paced[w]
  /\ paced' = [paced EXCEPT ![w] = FALSE]
  /\ UNCHANGED <<vars, queue, result, event>>

\* A manager that starts lists everything and reconciles it.
Restart(w) ==
  /\ Crash(w)
  /\ Enqueue(w)
  /\ Returns(w, Never)
  /\ event' = [event EXCEPT ![w] = FALSE]
  /\ paced' = [paced EXCEPT ![w] = FALSE]

Outside ==
  /\ \/ Tick \/ DeleteExam \/ NamespaceGone
     \/ \E s \in Specs : EditSpec(s)
     \/ \E i \in Instances : DeploymentReady(i)
     \/ \E o \in objs : Drift(o)
  /\ Notify
  /\ UNCHANGED <<queue, result, paced>>

QueueInit ==
  /\ Init
  /\ queue  = [w \in Workers |-> Now]
  /\ result = [w \in Workers |-> Never]
  /\ event  = [w \in Workers |-> FALSE]
  /\ paced  = [w \in Workers |-> FALSE]

QueueNext ==
  \/ Outside
  \/ \E w \in Workers : \/ QueueReconcile(w) \/ WatchExam(w) \/ WatchOwned(w)
                        \/ PauseOver(w) \/ Restart(w)

QueueSpec == QueueInit /\ [][QueueNext]_allVars

\* Managers work off their queues, watches deliver, time passes, Deployments
\* come up and namespaces go away.  Nothing is assumed of edits, deletion,
\* drift, failures or restarts.
Fairness ==
  /\ \A w \in Workers : /\ WF_allVars(QueueReconcile(w)) /\ WF_allVars(WatchExam(w))
                        /\ WF_allVars(WatchOwned(w)) /\ WF_allVars(PauseOver(w))
  /\ WF_allVars(Tick /\ Outside)
  /\ WF_allVars(NamespaceGone /\ Outside)
  /\ \A i \in Instances : WF_allVars(DeploymentReady(i) /\ Outside)

FairQueueSpec == QueueSpec /\ Fairness

-----------------------------------------------------------------------------
(***************************************************************************)
(* Properties.                                                             *)
(***************************************************************************)

\* Nothing is under way at a manager, nor due: only time, a failure's retry
\* being due at once, or somebody else will make it reconcile again.
Settled(w) ==
  pc[w] = "idle" /\ synced[w] /\ ~event[w] /\ queue[w] # Paused /\ ~Available(w)

\* When the stored Exam wants to be looked at next; TearingDown is the last.
Due(e) ==
  CASE e.phase = "Pending"  -> {ProvisionTime(e.spec)}
    [] e.phase = "Ready"    -> Wakeups(e)
    [] e.phase = "Unlocked" -> {LockTime(e.spec)}
    [] e.phase = "Locked"   -> {RetentionDeadline(e.spec)}

\* No wake-up is lost: a manager at rest, whose Exam is neither deleted nor
\* torn down, has a timer no later than the next thing the Exam is waiting
\* for, although RequeueAfter 0 asks for nothing and so does the reconcile that
\* turns an Exam Ready.
NoLostWakeup ==
  \A w \in Workers :
    Settled(w) /\ exam.present /\ ~exam.deleting /\ exam.phase # "TearingDown"
      => /\ exam.phase \in {"Pending", "Ready", "Unlocked", "Locked"}
         /\ queue[w] # Never
         /\ \A t \in Due(exam) : queue[w] <= t

\* The policies and routes a phase asks for.
WantedKinds(phase) ==
  IF phase = "Unlocked" THEN EnforcedKinds ELSE {"denyAll", "egressAllow"}

Wanted(e) == WantedKinds(e.phase) \X collectSlugs(e)

\* What the cluster recovers from: with one manager a failed call, an object
\* that somebody else deletes, or the edits the webhook accepts; with two,
\* whatever late reconcile of the other.
Tolerated ==
  \/ faults = 0 /\ (edits = 0 \/ (Solo /\ WebhookEnabled))
  \/ faults = 1 /\ edits = 0 /\ Solo

\* The cluster follows the phase: once every manager is at rest, the instances
\* of an Exam past provisioning have the policies of its phase, and exactly
\* the routes, although errors in enforcePolicies are only logged.
Converged ==
  ( /\ \A w \in Workers : Settled(w)
    /\ exam.present /\ ~exam.deleting /\ exam.phase \in {"Ready", "Unlocked", "Locked"}
    /\ ns = "active" /\ Tolerated )
  => /\ Wanted(exam) \subseteq objs
     /\ objs \cap AccessObjects \subseteq Wanted(exam)

\* Every Exam comes to its end and takes its namespace along: whatever failed
\* or was interrupted, it ends up gone when somebody deleted it, from whatever
\* phase, and torn down otherwise, although reconcileTeardown only asks for the
\* deletion of the namespace.
Completes ==
  <>[]( /\ ns = "absent"
        /\ IF exam.deleting THEN ~exam.present ELSE exam.phase = "TearingDown" )

-----------------------------------------------------------------------------
\* docs/crd-reference.md, sendInterval: "Delay between sending each email."
\* No student is mailed before the interval since the last mail is over.
MailsPaced ==
  [][\A w \in Workers :
       paced[w] => \A i \in Students : mailbox'[<<"url", i>>] = mailbox[<<"url", i>>]]_allVars
=============================================================================
