-------------------------- MODULE ExamQueueProofs --------------------------
(***************************************************************************)
(* The controller under its work queue is the controller: every step of    *)
(* ExamQueue is a step of ExamController or moves only the queue.  What is *)
(* proved of ExamController therefore holds under the queue.               *)
(***************************************************************************)
EXTENDS ExamQueueInvariant, ExamManagerProofs, ExamMailProofs

LEMMA QueueInitInit == QueueInit => Init
  BY DEF QueueInit

\* The queue only chooses when a reconcile takes its next step.
LEMMA QueueReconcileStep ==
  ASSUME NEW w \in Workers, QueueReconcile(w)
  PROVE  Reconcile(w)
<1>1. CASE Start(w)
  BY <1>1 DEF Start, Reconcile
<1>2. CASE Dispatch(w)
  BY <1>2 DEF Dispatch, Reconcile
<1>3. CASE HandlerError(w)
  BY <1>3 DEF HandlerError, Reconcile
<1>4. CASE Work(w)
  BY <1>4 DEF Work, Reconcile
<1>5. CASE Poll(w)
  BY <1>5 DEF Poll, Reconcile
<1>6. CASE Pace(w)
  BY <1>6 DEF Pace, Reconcile
<1>7. CASE Wait(w)
  BY <1>7 DEF Wait, Reconcile
<1>8. CASE Finish(w)
  BY <1>8 DEF Finish, Reconcile
<1>9. QED
  BY <1>1, <1>2, <1>3, <1>4, <1>5, <1>6, <1>7, <1>8 DEF QueueReconcile

LEMMA QueueNextStep == [QueueNext]_allVars => [Next]_vars
<1> SUFFICES ASSUME [QueueNext]_allVars PROVE [Next]_vars
  OBVIOUS
<1>1. CASE Outside
  BY <1>1 DEF Outside, Next, Environment
<1>2. ASSUME NEW w \in Workers, QueueReconcile(w) PROVE Next
  BY <1>2, QueueReconcileStep DEF Next
<1>3. ASSUME NEW w \in Workers, WatchExam(w) \/ Restart(w) PROVE Next
  BY <1>3 DEF WatchExam, Restart, Next, Environment
<1>4. ASSUME NEW w \in Workers, WatchOwned(w) \/ PauseOver(w) PROVE UNCHANGED vars
  BY <1>4 DEF WatchOwned, PauseOver
<1>5. CASE UNCHANGED allVars
  BY <1>5 DEF allVars
<1>6. QED
  BY <1>1, <1>2, <1>3, <1>4, <1>5 DEF QueueNext

\* ExamQueue implements ExamController: requeues, watches, pauses and restarts
\* make the controller do nothing it could not do when reconciling at will.
THEOREM QueueImplementsController == QueueSpec => Spec
<1>1. QED
  BY QueueInitInit, QueueNextStep, PTL DEF QueueSpec, Spec

\* Under the work queue too, no route is open before the unlock, no lock comes
\* early, the namespace stays while the exam runs and the mail status is true.
THEOREM QueueSafe ==
  ASSUME WebhookEnabled
  PROVE  QueueSpec => [](NoEarlyAccess /\ LockedNotEarly /\ NamespaceKept /\ MailLedger)
<1>1. QED
  BY QueueImplementsController, Access, Locking, Namespace, Mail, PTL

\* With one manager, under its work queue too, a deleted Exam leaves no live
\* namespace, an Exam that is locked or torn down opens no route again, and
\* without a failed call or drift the status says Locked only when no policy
\* admits anybody and Unlocked only when every route is open.
THEOREM QueueAlone ==
  ASSUME Solo
  PROVE  QueueSpec => [](NoLeak /\ LockedClosed) /\ StaysClosed /\ UnlockOpens
<1>1. (Spec => []NoLeak) /\ (Spec => []LockedClosed) /\ (Spec => StaysClosed) /\ (Spec => UnlockOpens)
  BY Released, Closed, Sealed, Opened
<1>2. QED
  BY <1>1, QueueImplementsController, PTL

-----------------------------------------------------------------------------
(***************************************************************************)
(* What a step leaves alone.                                               *)
(***************************************************************************)

\* The worker v keeps its reconcile, its cache and its item.
Untouched(v) ==
  /\ pc'[v] = pc[v] /\ loc'[v] = loc[v] /\ wnow'[v] = wnow[v] /\ todo'[v] = todo[v]
  /\ cache'[v] = cache[v] /\ queue'[v] = queue[v] /\ result'[v] = result[v]

\* The versions v has are the latest as long as nobody stores another one.
SameVersions(v) ==
  /\ synced'[v] => synced[v] /\ exam' = exam
  /\ fresh'[v] => fresh[v] /\ exam' = exam
  /\ exam' = exam => fresh'[v] = fresh[v]

\* An object that changes is an event for v.
Watched(v) == ~event'[v] => ~event[v] /\ objs' = objs

\* A step of w's reconcile concerns the others only through the stored Exam
\* and the objects.
LEMMA ReconcileFrame ==
  ASSUME TypeOK, QueueTypeOK, NEW w \in Workers, QueueReconcile(w),
         NEW v \in Workers, v # w
  PROVE  Untouched(v) /\ SameVersions(v)
<1>1. Reconcile(w)
  BY QueueReconcileStep
<1>2. queue'[v] = queue[v] /\ result'[v] = result[v]
  BY DEF QueueReconcile, Start, Dispatch, HandlerError, Work, Poll, Pace, Wait, Finish, Returns,
     Requeue, QueueTypeOK
<1>3. cache'[v] = cache[v]
  BY <1>1 DEF Reconcile, GetNothing, vars, Get, AddFinalizer, Decide, CreateNamespace,
     provisionInstance, SlugError, FinishProvisioning, sendNextPendingEmail, ReadyContinue,
     enforcePolicies, deleteIngresses, NotifyInstructor, reconcileTeardown, FinalizeDelete,
     RemoveFinalizer, StatusUpdate
<1>4. ASSUME Return(w)
      PROVE  pc'[v] = pc[v] /\ loc'[v] = loc[v] /\ wnow'[v] = wnow[v] /\ todo'[v] = todo[v]
  BY <1>4 DEF Return, TypeOK
<1>5. ASSUME ReturnNoWrite(w) PROVE SameVersions(v)
  BY <1>5 DEF ReturnNoWrite, SameVersions, TypeOK
<1>6. CASE AddFinalizer(w)
  <2>1. CASE ReturnNoWrite(w)
    BY <1>2, <1>3, <1>4, <1>5, <2>1 DEF Untouched, ReturnNoWrite
  <2>2. CASE ~ReturnNoWrite(w)
    <3>1. /\ Store(exam') /\ fresh' = FreshAfter(exam', w, TRUE) /\ Goto(w, "decide")
          /\ loc' = [loc EXCEPT ![w].finalizer = TRUE] /\ UNCHANGED <<wnow, todo>>
      BY <1>6, <2>2 DEF AddFinalizer, Store
    <3>2. SameVersions(v)
      BY <3>1 DEF Store, FreshAfter, SameVersions, TypeOK
    <3>3. QED
      BY <1>2, <1>3, <3>1, <3>2 DEF Untouched, Goto, TypeOK
  <2>3. QED
    BY <2>1, <2>2
<1>7. CASE StatusUpdate(w) \/ RemoveFinalizer(w)
  <2>1. Return(w)
    BY <1>7 DEF StatusUpdate, RemoveFinalizer, ReturnNoWrite
  <2>2. SameVersions(v)
    <3>1. CASE ReturnNoWrite(w)
      BY <1>5, <3>1
    <3>2. CASE ~ReturnNoWrite(w)
      <4>1. Store(exam') /\ fresh' = FreshAfter(exam', w, FALSE)
        BY <1>7, <3>2 DEF StatusUpdate, RemoveFinalizer, Store
      <4>2. QED
        BY <4>1 DEF Store, FreshAfter, SameVersions, TypeOK
    <3>3. QED
      BY <3>1, <3>2
  <2>3. QED
    BY <1>2, <1>3, <1>4, <2>1, <2>2 DEF Untouched
<1>8. CASE FinalizeDelete(w)
  <2>1. CASE ReturnNoWrite(w)
    BY <1>2, <1>3, <1>4, <1>5, <2>1 DEF Untouched, ReturnNoWrite
  <2>2. CASE ~ReturnNoWrite(w)
    BY <1>2, <1>3, <1>8, <2>2 DEF FinalizeDelete, Goto, Untouched, SameVersions, TypeOK
  <2>3. QED
    BY <2>1, <2>2
<1>9. CASE GetNothing(w)
  BY <1>2, <1>9 DEF GetNothing, vars, Untouched, SameVersions
<1>10. CASE Get(w) \/ Decide(w)
  <2>1. UNCHANGED <<exam, synced>> /\ fresh'[v] = fresh[v]
    BY <1>10 DEF Get, Decide, TypeOK
  <2>2. pc'[v] = pc[v] /\ loc'[v] = loc[v] /\ wnow'[v] = wnow[v] /\ todo'[v] = todo[v]
    BY <1>10 DEF Get, Decide, DecideOn, Goto, TypeOK
  <2>3. QED
    BY <1>2, <1>3, <2>1, <2>2 DEF Untouched, SameVersions
<1>11. CASE \/ CreateNamespace(w) \/ provisionInstance(w) \/ SlugError(w)
            \/ FinishProvisioning(w) \/ sendNextPendingEmail(w) \/ ReadyContinue(w)
            \/ enforcePolicies(w) \/ deleteIngresses(w) \/ NotifyInstructor(w)
            \/ reconcileTeardown(w)
  <2>1. UNCHANGED <<exam, synced, fresh>>
    BY <1>11 DEF CreateNamespace, provisionInstance, SlugError, FinishProvisioning,
       sendNextPendingEmail, ReadyContinue, enforcePolicies, deleteIngresses,
       NotifyInstructor, reconcileTeardown
  <2>2. pc'[v] = pc[v] /\ wnow'[v] = wnow[v]
    BY <1>11 DEF CreateNamespace, provisionInstance, SlugError, FinishProvisioning,
       sendNextPendingEmail, ReadyContinue, enforcePolicies, deleteIngresses,
       NotifyInstructor, reconcileTeardown, Goto, TypeOK
  <2>3. loc'[v] = loc[v]
    BY <1>11 DEF CreateNamespace, provisionInstance, SlugError, FinishProvisioning,
       sendNextPendingEmail, ReadyContinue, enforcePolicies, deleteIngresses,
       NotifyInstructor, reconcileTeardown, TypeOK
  <2>4. todo'[v] = todo[v]
    BY <1>11 DEF CreateNamespace, provisionInstance, SlugError, FinishProvisioning,
       sendNextPendingEmail, ReadyContinue, enforcePolicies, deleteIngresses,
       NotifyInstructor, reconcileTeardown, TypeOK
  <2>5. QED
    BY <1>2, <1>3, <2>1, <2>2, <2>3, <2>4 DEF Untouched, SameVersions
<1>12. QED
  BY <1>1, <1>6, <1>7, <1>8, <1>9, <1>10, <1>11 DEF Reconcile

\* Every manager hears of the objects a reconcile changes.
LEMMA ReconcileWatched ==
  ASSUME QueueTypeOK, NEW w \in Workers, QueueReconcile(w), NEW v \in Workers
  PROVE  Watched(v)
<1>1. CASE Notify
  BY <1>1 DEF Notify, Watched
<1>2. CASE UNCHANGED <<objs, event>>
  BY <1>2 DEF Watched
<1>3. Notify \/ UNCHANGED <<objs, event>>
  BY DEF QueueReconcile, Start, Dispatch, HandlerError, Work, Poll, Pace, Wait, Finish,
     GetNothing, Get, Decide, sendNextPendingEmail, ReadyContinue, StatusUpdate,
     RemoveFinalizer, AddFinalizer, FinalizeDelete, cluster, vars
<1>4. QED
  BY <1>1, <1>2, <1>3

\* Time, the instructor and the cluster touch no reconcile.
LEMMA OutsideFrame ==
  ASSUME TypeOK, QueueTypeOK, Outside, NEW v \in Workers
  PROVE  Untouched(v) /\ SameVersions(v) /\ Watched(v)
<1>1. Watched(v)
  BY DEF Outside, Notify, Watched
<1>2. UNCHANGED <<pc, loc, wnow, todo, cache, queue, result>>
  BY DEF Outside, Tick, DeleteExam, EditSpec, UserStore, NamespaceGone, DeploymentReady, Drift,
     worker
<1>3. SameVersions(v)
  <2>1. CASE DeleteExam \/ (\E s \in Specs : EditSpec(s))
    <3>1. exam' # exam
      <4>1. CASE DeleteExam
        BY <4>1 DEF DeleteExam, UserStore, Store, TypeOK, ExamObjects
      <4>2. CASE \E s \in Specs : EditSpec(s)
        BY <4>2 DEF EditSpec, UserStore, Store, TypeOK, ExamObjects
      <4>3. QED
        BY <2>1, <4>1, <4>2
    <3>2. fresh'[v] = FALSE /\ (synced'[v] => exam' = exam)
      <4>1. Store(exam') /\ fresh' = [u \in Workers |-> FALSE]
        BY <2>1 DEF DeleteExam, EditSpec, UserStore, Store
      <4>2. QED
        BY <4>1 DEF Store
    <3>3. QED
      BY <3>1, <3>2 DEF SameVersions
  <2>2. CASE UNCHANGED <<exam, synced, fresh>>
    BY <2>2 DEF SameVersions
  <2>3. QED
    BY <2>1, <2>2 DEF Outside, Tick, NamespaceGone, DeploymentReady, Drift, worker
<1>4. QED
  BY <1>1, <1>2, <1>3 DEF Untouched

-----------------------------------------------------------------------------
(***************************************************************************)
(* What Reconcile returns.                                                 *)
(***************************************************************************)

\* A timer is set for a later time than the one it is computed at.
LEMMA AfterType ==
  ASSUME NEW t \in Int, NEW now \in Nat
  PROVE  /\ After(t, now) \in Nat \cup {Never, Paused}
         /\ t > now => After(t, now) = t /\ t \in Nat /\ t # Never
  BY DEF After, Never

\* The wake-ups reconcileReady considers, and that nextWake is the first.
LEMMA WakeupsType ==
  ASSUME NEW e \in ExamObjects
  PROVE  /\ Wakeups(e) \subseteq Int
         /\ nextWake(e) \in Wakeups(e)
         /\ \A u \in Wakeups(e) : nextWake(e) <= u
<1>1. e.spec \in Specs
  BY DEF ExamObjects
<1>2. /\ e.spec.unlock \in Nat /\ e.spec.emailBefore \in Nat
      /\ e.spec.dryRun \in Nat \cup {NoDryRun}
  BY <1>1, SpecsAssumption DEF NatFields
<1>3. EmailTime(e.spec) \in Int
  BY <1>2, DefaultsAssumption DEF EmailTime, OrDefault
<1>4. Wakeups(e) \subseteq Int
  BY <1>2, <1>3 DEF Wakeups, NoDryRun
<1>5. \E t \in Wakeups(e) : \A u \in Wakeups(e) : t <= u
  <2> DEFINE a == e.spec.unlock
             b == EmailTime(e.spec)
             c == e.spec.unlock - e.spec.dryRun
  <2>1. a \in Int /\ b \in Int /\ c \in Int
    BY <1>2, <1>3 DEF NoDryRun
  <2>2. \/ Wakeups(e) = {a} \/ Wakeups(e) = {a, b} \/ Wakeups(e) = {a, c}
        \/ Wakeups(e) = {a, b, c}
    BY DEF Wakeups
  <2> HIDE DEF a, b, c
  <2>3. CASE Wakeups(e) = {a}
    BY <2>1, <2>3
  <2>4. CASE Wakeups(e) = {a, b}
    <3>1. a <= b \/ b <= a
      BY <2>1
    <3>2. QED
      BY <2>1, <2>4, <3>1
  <2>5. CASE Wakeups(e) = {a, c}
    <3>1. a <= c \/ c <= a
      BY <2>1
    <3>2. QED
      BY <2>1, <2>5, <3>1
  <2>6. CASE Wakeups(e) = {a, b, c}
    <3>1. (a <= b /\ a <= c) \/ (b <= a /\ b <= c) \/ (c <= a /\ c <= b)
      BY <2>1
    <3>2. QED
      BY <2>1, <2>6, <3>1
  <2>7. QED
    BY <2>2, <2>3, <2>4, <2>5, <2>6
<1>6. nextWake(e) \in Wakeups(e) /\ \A u \in Wakeups(e) : nextWake(e) <= u
  BY <1>5 DEF nextWake
<1>7. QED
  BY <1>4, <1>6

\* What the dispatch asks for, when the phase stays: the time the phase ends.
LEMMA PhaseResultType ==
  ASSUME NEW e \in ExamObjects, NEW t \in Nat
  PROVE  PhaseResult(e, t) \in Nat \cup {Never, Paused}
<1>1. e.spec \in Specs
  BY DEF ExamObjects
<1>2. QED
  BY <1>1, ScheduleType, AfterType DEF PhaseResult

LEMMA PhaseResultInTime ==
  ASSUME NEW e \in ExamObjects, NEW t \in Nat,
         e.phase \in {"Pending", "Unlocked", "Locked"},
         e.phase = determineDesiredPhase(e.phase, e.spec, t)
  PROVE  InTime(PhaseResult(e, t), e)
<1>1. /\ ProvisionTime(e.spec) \in Int /\ LockTime(e.spec) \in Int
      /\ RetentionDeadline(e.spec) \in Int
  BY ScheduleType DEF ExamObjects
<1>2. CASE e.phase = "Pending"
  <2>1. ProvisionTime(e.spec) > t
    BY <1>1, <1>2 DEF determineDesiredPhase, FromPending
  <2>2. PhaseResult(e, t) = ProvisionTime(e.spec) /\ PhaseResult(e, t) # Never
    BY <1>1, <1>2, <2>1, AfterType DEF PhaseResult
  <2>3. Due(e) = {ProvisionTime(e.spec)}
    BY <1>2 DEF Due
  <2>4. QED
    BY <1>1, <1>2, <2>2, <2>3 DEF InTime
<1>3. CASE e.phase = "Unlocked"
  <2>1. LockTime(e.spec) > t
    BY <1>1, <1>3 DEF determineDesiredPhase, FromUnlocked
  <2>2. PhaseResult(e, t) = LockTime(e.spec) /\ PhaseResult(e, t) # Never
    BY <1>1, <1>3, <2>1, AfterType DEF PhaseResult
  <2>3. Due(e) = {LockTime(e.spec)}
    BY <1>3 DEF Due
  <2>4. QED
    BY <1>1, <1>3, <2>2, <2>3 DEF InTime
<1>4. CASE e.phase = "Locked"
  <2>1. RetentionDeadline(e.spec) > t
    BY <1>1, <1>4 DEF determineDesiredPhase, FromLocked
  <2>2. PhaseResult(e, t) = RetentionDeadline(e.spec) /\ PhaseResult(e, t) # Never
    BY <1>1, <1>4, <2>1, AfterType DEF PhaseResult
  <2>3. Due(e) = {RetentionDeadline(e.spec)}
    BY <1>4 DEF Due
  <2>4. QED
    BY <1>1, <1>4, <2>2, <2>3 DEF InTime
<1>5. QED
  BY <1>2, <1>3, <1>4

\* What is due depends on the phase, the spec and, while Ready, on what
\* reconcileReady has done.
LEMMA InTimeSame ==
  ASSUME NEW e, NEW f, NEW r, InTime(r, e), e.phase = f.phase, e.spec = f.spec,
         e.phase = "Ready" => e.conds = f.conds
  PROVE  InTime(r, f)
<1>1. CASE r \in {Now, Paused}
  BY <1>1 DEF InTime
<1>2. CASE r \notin {Now, Paused}
  <2>1. e.phase \in {"Pending", "Ready", "Unlocked", "Locked"}
    BY <1>2 DEF InTime
  <2>2. Due(f) = Due(e)
    BY <2>1 DEF Due, Wakeups
  <2>3. QED
    BY <1>2, <2>1, <2>2 DEF InTime
<1>3. QED
  BY <1>1, <1>2

-----------------------------------------------------------------------------
(***************************************************************************)
(* No wake-up is lost.                                                     *)
(***************************************************************************)

\* A worker that a step leaves alone.
LEMMA WakeKeep ==
  ASSUME NEW v \in Workers, WakeInv(v), Untouched(v), SameVersions(v)
  PROVE  WakeInv(v)'
<1>1. synced'[v] => exam' = exam
  BY DEF SameVersions
<1>2. QED
  BY <1>1 DEF WakeInv, Untouched, SameVersions, Answered, InTime, Due, Wakeups

\* A manager whose item is due at once, between two reconciles.
LEMMA WakeIdle ==
  ASSUME NEW v \in Workers, pc'[v] = "idle", queue'[v] = Now
  PROVE  WakeInv(v)'
  BY DEF WakeInv, InTime, InHandler

\* The dispatch.
LEMMA WakeDispatch ==
  ASSUME TypeOK, TypeOK', NEW w \in Workers, NEW e \in ExamObjects, DecideOn(w, e),
         queue'[w] \in {Never, Now}, synced'[w] /\ queue'[w] # Now => fresh'[w],
         fresh'[w] => e = exam, exam' = exam,
         result'[w] = PhaseResult(loc'[w], clock)
  PROVE  WakeInv(w)'
<1> DEFINE d == determineDesiredPhase(e.phase, e.spec, clock)
<1>0. /\ e.phase \in ExamPhases /\ e.spec \in Specs /\ clock \in Nat
      /\ e.spec.unlock \in Int /\ loc'[w] \in ExamObjects
  BY ScheduleType, ControllerAssumption DEF ExamObjects, TypeOK
<1>1. d \in ExamPhases /\ d # "Unset"
  BY <1>0, DesiredPhaseType DEF determineDesiredPhase, FromPending, FromReady, FromUnlocked,
     FromLocked
<1>2. d = "Ready" => clock < e.spec.unlock
  BY <1>0 DEF determineDesiredPhase, FromPending, FromReady, FromUnlocked, FromLocked, ExamPhases
<1>3. /\ pc'[w] = HandlerLabel(e, d)
      /\ loc'[w].phase = d /\ loc'[w].spec = e.spec
      /\ wnow'[w] = IF d = "Ready" THEN clock ELSE 0
  BY DEF DecideOn, Goto, TypeOK, ExamObjects
<1>4. e.phase = d /\ d \in {"Pending", "Unlocked", "Locked"} => InTime(result'[w], loc'[w])
  BY <1>0, <1>3, PhaseResultInTime
<1> HIDE DEF d
<1>5. /\ pc'[w] \in InHandler
      /\ pc'[w] = "ready" => d = "Ready"
      /\ d = "Provisioning" => pc'[w] = "namespace"
      /\ d = "Ready" => pc'[w] = "ready"
  BY <1>1, <1>3, HandlerEntry DEF HandlerLabel
<1>6. fresh'[w] /\ loc'[w].phase = exam'.phase /\ Answered(w)'
        => e.phase = d /\ d \in {"Pending", "Unlocked", "Locked"}
  BY <1>1, <1>3, <1>5 DEF Answered, ExamPhases
<1>7. fresh'[w] /\ loc'[w].phase = exam'.phase /\ Answered(w)' => InTime(result'[w], loc'[w])
  BY <1>4, <1>6
<1>8. pc'[w] = "ready" => wnow'[w] < loc'[w].spec.unlock
  BY <1>2, <1>3, <1>5
<1>9. InTime(result[w], loc[w])' <=> InTime(result'[w], loc'[w])
  BY DEF InTime, Due, Wakeups
<1>10. QED
  BY <1>1, <1>3, <1>5, <1>7, <1>8, <1>9 DEF WakeInv, InHandler

\* A step within the handler, after which the result is settled in time or
\* still open.
LEMMA WakeHandler ==
  ASSUME NEW w \in Workers, WakeInv(w), pc[w] # "idle", pc'[w] # "idle",
         queue'[w] = queue[w], UNCHANGED <<exam, synced, fresh>>,
         pc'[w] \in InHandler => loc'[w].phase # "Unset",
         pc'[w] # "ready",
         pc'[w] \in InHandler /\ fresh[w] /\ loc'[w].phase = exam.phase /\ Answered(w)'
           => InTime(result'[w], loc'[w])
  PROVE  WakeInv(w)'
<1>1. InTime(result[w], loc[w])' <=> InTime(result'[w], loc'[w])
  BY DEF InTime, Due, Wakeups
<1>2. QED
  BY <1>1 DEF WakeInv

\* The steps of Reconcile between the dispatch and the status update, and the
\* first one of the deletion branch.
LEMMA WakeWork ==
  ASSUME TypeOK, TypeOK', QueueTypeOK, IInv, NEW w \in Workers, WakeInv(w),
         HandlerError(w) \/ Work(w) \/ Poll(w) \/ Pace(w) \/ Wait(w)
  PROVE  WakeInv(w)'
<1>0. /\ loc[w] \in ExamObjects /\ loc'[w] \in ExamObjects
      /\ HandlerPhaseOK(w) /\ FreshInv(w)
      /\ queue'[w] = queue[w]
  BY DEF TypeOK, IInv, HandlerPhaseInv, WorkerInv, HandlerError, Work, Poll, Pace, Wait
<1>1. CASE AddFinalizer(w) /\ pc'[w] = "decide"
  <2>1. pc[w] = "addFinalizer" /\ (fresh'[w] \/ ReturnNoWrite(w))
    BY <1>1 DEF AddFinalizer, FreshAfter
  <2>2. ~ReturnNoWrite(w)
    BY <1>1 DEF ReturnNoWrite, Return, TypeOK
  <2>3. QED
    BY <1>0, <1>1, <2>1, <2>2 DEF WakeInv, InHandler
<1>2. CASE FinalizeDelete(w) /\ pc'[w] = "removeFinalizer"
  <2>1. ~ReturnNoWrite(w)
    BY <1>2 DEF ReturnNoWrite, Return, TypeOK
  <2>2. pc[w] = "finalizeDelete" /\ UNCHANGED <<exam, synced, fresh>>
    BY <1>2, <2>1 DEF FinalizeDelete
  <2>3. QED
    BY <1>0, <1>2, <2>2, WakeHandler DEF InHandler
<1>3. ASSUME HandlerError(w) PROVE WakeInv(w)'
  <2>1. result'[w] = Now
    BY <1>3 DEF HandlerError, Returns, QueueTypeOK
  <2>2. /\ pc[w] \in InHandler /\ pc'[w] = "status" /\ loc' = loc
        /\ UNCHANGED <<exam, synced, fresh>>
    BY <1>3 DEF HandlerError, CreateNamespace, SlugError, deleteIngresses, reconcileTeardown,
       Goto, TypeOK, InHandler
  <2>3. QED
    BY <1>0, <2>1, <2>2, WakeHandler DEF InTime, WakeInv, InHandler
<1>4. CASE Poll(w)
  <2>1. /\ pc[w] = "provision" /\ pc'[w] = "status" /\ UNCHANGED <<exam, synced, fresh>>
        /\ result'[w] = IF loc'[w].phase = "Ready" THEN Never ELSE Now
    BY <1>4 DEF Poll, FinishProvisioning, Goto, Returns, QueueTypeOK, TypeOK
  <2>2. loc'[w].phase \in {"Provisioning", "Ready"} /\ loc[w].phase = "Provisioning"
    BY <1>0, <1>4, <2>1 DEF Poll, FinishProvisioning, HandlerPhaseOK, TypeOK, ExamObjects
  <2>3. fresh[w] => exam.phase # "Ready"
    BY <1>0, <2>1, <2>2 DEF FreshInv, InHandler, Contract!MayFollow
  <2>4. QED
    BY <1>0, <2>1, <2>2, <2>3, WakeHandler DEF InTime
<1>5. CASE Pace(w)
  <2>1. /\ pc[w] = "ready" /\ pc'[w] = "status" /\ UNCHANGED <<exam, synced, fresh>>
        /\ result'[w] = Paused
    BY <1>5 DEF Pace, sendNextPendingEmail, Goto, Returns, QueueTypeOK, TypeOK
  <2>2. loc'[w].phase = loc[w].phase /\ loc[w].phase = "Ready"
    BY <1>0, <1>5, <2>1 DEF Pace, sendNextPendingEmail, HandlerPhaseOK, TypeOK, ExamObjects
  <2>3. QED
    BY <1>0, <2>1, <2>2, WakeHandler DEF InTime
<1>6. CASE Wait(w)
  <2>1. /\ pc[w] = "ready" /\ pc'[w] \in {"enforce", "status"}
        /\ UNCHANGED <<exam, synced, fresh>>
        /\ result'[w] = After(nextWake(loc'[w]), wnow[w])
    BY <1>6 DEF Wait, ReadyContinue, Goto, EnforceLabel, AfterEnforce, Returns, QueueTypeOK, TypeOK
  <2>2. /\ loc'[w].phase = "Ready" /\ loc'[w].spec = loc[w].spec
        /\ loc'[w].conds =
             loc[w].conds \cup (IF EmailsDue(w) THEN {"AllEmailsSent"} ELSE {})
                          \cup (IF DryRunDue(w) THEN DryRunConditions(loc[w]) ELSE {})
    BY <1>0, <1>6, <2>1 DEF Wait, ReadyContinue, HandlerPhaseOK, TypeOK, ExamObjects
  <2>3. wnow[w] \in Nat /\ wnow[w] < loc[w].spec.unlock
    BY <2>1, ControllerAssumption DEF TypeOK, WakeInv
  <2>4. nextWake(loc'[w]) \in Wakeups(loc'[w]) /\ Wakeups(loc'[w]) \subseteq Int
        /\ \A u \in Wakeups(loc'[w]) : nextWake(loc'[w]) <= u
    BY <1>0, WakeupsType
  <2>5. \A t \in Wakeups(loc'[w]) : wnow[w] < t
    <3>1. /\ loc[w].spec.unlock \in Int /\ EmailTime(loc[w].spec) \in Int
          /\ loc[w].spec.dryRun \in Int
      <4>1. /\ loc[w].spec \in Specs
        BY <1>0 DEF ExamObjects
      <4>2. /\ loc[w].spec.unlock \in Nat /\ loc[w].spec.emailBefore \in Nat
            /\ loc[w].spec.dryRun \in Nat \cup {NoDryRun}
        BY <4>1, SpecsAssumption DEF NatFields
      <4>3. QED
        BY <4>2, DefaultsAssumption DEF EmailTime, OrDefault, NoDryRun
    <3>2. "AllEmailsSent" \notin loc'[w].conds => wnow[w] < EmailTime(loc[w].spec)
      BY <2>2, <2>3, <3>1 DEF EmailsDue
    <3>3. "DryRunComplete" \notin loc'[w].conds /\ loc[w].spec.dryRun # NoDryRun
            => wnow[w] < loc[w].spec.unlock - loc[w].spec.dryRun
      BY <2>2, <2>3, <3>1 DEF DryRunDue, DryRunConditions
    <3>4. QED
      BY <2>2, <2>3, <3>2, <3>3 DEF Wakeups
  <2>6. result'[w] = nextWake(loc'[w]) /\ result'[w] # Never
    BY <2>1, <2>3, <2>4, <2>5, AfterType
  <2>7. Due(loc'[w]) = Wakeups(loc'[w])
    BY <2>2 DEF Due
  <2>8. InTime(result'[w], loc'[w])
    BY <2>2, <2>4, <2>6, <2>7 DEF InTime
  <2>9. QED
    BY <1>0, <2>1, <2>2, <2>8, WakeHandler
<1>7. CASE /\ \/ CreateNamespace(w) /\ pc'[w] = "provision"
              \/ provisionInstance(w)
           /\ Work(w)
  <2>1. /\ pc[w] \in {"namespace", "provision"} /\ pc'[w] = "provision"
        /\ UNCHANGED <<exam, synced, fresh>>
    BY <1>7 DEF CreateNamespace, provisionInstance
  <2>2. HandlerPhaseOK(w)'
    <3>1. [Next]_vars
      BY <1>7, QueueReconcileStep DEF QueueReconcile, Next
    <3>2. QED
      BY <3>1, HandlerPhaseNext DEF IInv, HandlerPhaseInv
  <2>3. loc'[w].phase = "Provisioning"
    BY <2>1, <2>2 DEF HandlerPhaseOK
  <2>4. QED
    BY <1>0, <2>1, <2>3, WakeHandler DEF Answered
<1>8. CASE (enforcePolicies(w) \/ (deleteIngresses(w) /\ pc'[w] = "notify")) /\ Work(w)
  <2>1. /\ pc[w] \in {"enforce", "deleteIngresses"} /\ loc' = loc /\ result' = result
        /\ UNCHANGED <<exam, synced, fresh>>
        /\ pc'[w] \in {"enforce", "deleteIngresses", "notify", "status"}
    BY <1>8 DEF Work, enforcePolicies, deleteIngresses, Goto, EnforceLabel, AfterEnforce, TypeOK
  <2>2. loc[w].phase \in {"Ready", "Unlocked", "Locked"}
    BY <1>0, <2>1 DEF HandlerPhaseOK
  <2>3. pc[w] = "deleteIngresses" => loc[w].phase = "Locked"
    BY <1>0 DEF HandlerPhaseOK
  <2>4. fresh[w] /\ loc[w].phase = exam.phase => InTime(result[w], loc[w])
    BY <2>1, <2>2, <2>3 DEF WakeInv, Answered, InHandler
  <2>5. QED
    BY <1>0, <2>1, <2>2, <2>4, WakeHandler
<1>9. CASE NotifyInstructor(w) /\ Work(w)
  <2>1. /\ pc[w] = "notify" /\ pc'[w] = "status" /\ result' = result
        /\ UNCHANGED <<exam, synced, fresh>>
    BY <1>9 DEF Work, NotifyInstructor, Goto, TypeOK
  <2>2. /\ loc'[w].phase = loc[w].phase /\ loc'[w].spec = loc[w].spec
        /\ loc[w].phase \in {"Unlocked", "Locked"}
    BY <1>0, <1>9, <2>1 DEF NotifyInstructor, HandlerPhaseOK, TypeOK, ExamObjects
  <2>3. fresh[w] /\ loc[w].phase = exam.phase => InTime(result[w], loc[w])
    BY <2>1, <2>2 DEF WakeInv, Answered, InHandler
  <2>4. fresh[w] /\ loc[w].phase = exam.phase => InTime(result'[w], loc'[w])
    BY <2>1, <2>2, <2>3, InTimeSame
  <2>5. QED
    BY <1>0, <2>1, <2>2, <2>4, WakeHandler
<1>10. CASE reconcileTeardown(w) /\ Work(w)
  <2>1. /\ pc[w] = "teardown" /\ pc'[w] = "status" /\ loc' = loc
        /\ UNCHANGED <<exam, synced, fresh>> /\ loc[w].phase = "TearingDown"
    BY <1>0, <1>10 DEF reconcileTeardown, HandlerPhaseOK, Goto, TypeOK
  <2>2. QED
    BY <1>0, <2>1, WakeHandler DEF Answered
<1>11. QED
  BY <1>1, <1>2, <1>3, <1>4, <1>5, <1>6, <1>7, <1>8, <1>9, <1>10 DEF Work

\* Every step of w's own reconcile.
LEMMA WakeReconcile ==
  ASSUME TypeOK, TypeOK', QueueTypeOK, IInv, NEW w \in Workers, WakeInv(w),
         QueueReconcile(w)
  PROVE  WakeInv(w)'
<1>0. /\ cache[w] \in ExamObjects /\ loc[w] \in ExamObjects /\ exam \in ExamObjects
      /\ CacheInv(w) /\ FreshInv(w)
  BY DEF TypeOK, IInv, WorkerInv
<1>1. CASE Start(w)
  <2>1. queue'[w] = Never
    BY <1>1 DEF Start, QueueTypeOK
  <2>2. CASE GetNothing(w)
    <3>1. UNCHANGED vars /\ pc[w] = "idle"
          /\ (synced[w] => ~exam.present \/ exam.deleting)
      BY <1>0, <2>2 DEF GetNothing, CacheInv
    <3>2. QED
      BY <2>1, <3>1 DEF WakeInv, vars, InHandler
  <2>3. CASE Get(w)
    <3>1. /\ UNCHANGED <<exam, synced>> /\ fresh'[w] = synced[w]
          /\ fresh'[w] => cache[w] = exam
      BY <1>0, <2>3 DEF Get, TypeOK, CacheInv
    <3>2. CASE cache[w].finalizer /\ ~cache[w].deleting
      <4>1. DecideOn(w, cache[w])
        BY <2>3, <3>2 DEF Get
      <4>2. pc'[w] \in InHandler
        <5> DEFINE d == determineDesiredPhase(cache[w].phase, cache[w].spec, clock)
        <5>1. d \in ExamPhases
          BY <1>0, DesiredPhaseType DEF ExamObjects
        <5>2. pc'[w] = HandlerLabel(cache[w], d)
          BY <4>1 DEF DecideOn, Goto, TypeOK
        <5> HIDE DEF d
        <5>3. QED
          BY <5>1, <5>2, HandlerEntry
      <4>3. result'[w] = PhaseResult(loc'[w], clock)
        <5>1. pc'[w] \notin {"addFinalizer", "finalizeDelete"} /\ pc[w] = "idle"
          BY <2>3, <4>2 DEF InHandler, Get
        <5>2. CASE GetNothing(w)
          BY <2>3, <5>2, <3>2 DEF GetNothing, Get
        <5>3. QED
          BY <1>1, <5>1, <5>2 DEF Start, Returns, QueueTypeOK
      <4>4. QED
        BY <1>0, <2>1, <3>1, <4>1, <4>3, WakeDispatch
    <3>3. CASE ~(cache[w].finalizer /\ ~cache[w].deleting)
      <4>1. pc'[w] \in {"finalizeDelete", "addFinalizer"}
        BY <2>3, <3>3 DEF Get, Goto, TypeOK
      <4>2. QED
        BY <2>1, <3>1, <4>1 DEF WakeInv, InHandler
    <3>4. QED
      BY <3>2, <3>3
  <2>4. QED
    BY <1>1, <2>2, <2>3 DEF Start
<1>2. CASE Dispatch(w)
  <2>1. /\ pc[w] = "decide" /\ DecideOn(w, loc[w]) /\ UNCHANGED <<exam, synced, fresh, queue>>
        /\ result'[w] = PhaseResult(loc'[w], clock)
    BY <1>2 DEF Dispatch, Decide, Returns, QueueTypeOK
  <2>2. /\ queue'[w] \in {Never, Now} /\ (synced'[w] /\ queue'[w] # Now => fresh'[w])
        /\ fresh'[w] => loc[w] = exam
    BY <1>0, <2>1 DEF WakeInv, FreshInv, BeforeDispatch
  <2>3. QED
    BY <1>0, <2>1, <2>2, WakeDispatch
<1>3. CASE HandlerError(w) \/ Work(w) \/ Poll(w) \/ Pace(w) \/ Wait(w)
  BY <1>3, WakeWork
<1>4. CASE Finish(w)
  <2>1. queue'[w] = IF Failed(w) \/ queue[w] = Now THEN Now ELSE result[w]
    BY <1>4 DEF Finish, Requeue, QueueTypeOK
  <2>2. pc'[w] = "idle"
    BY <1>4 DEF Finish, StatusUpdate, RemoveFinalizer, ReturnNoWrite, Return, TypeOK
  <2>3. CASE queue'[w] = Now
    BY <2>2, <2>3, WakeIdle
  <2>4. CASE queue'[w] # Now
    <3>1. ~Failed(w) /\ queue'[w] = result[w]
      BY <2>1, <2>4
    <3>2. fresh[w] /\ faults' = faults
      BY <3>1 DEF Failed, Conflict
    <3>3. ~OneFault
      BY <3>2, ControllerAssumption DEF OneFault, Charge, TypeOK
    <3>4. StatusUpdate(w) \/ RemoveFinalizer(w)
      <4>1. ~(AddFinalizer(w) /\ pc'[w] = "idle")
        BY <3>2, <3>3 DEF AddFinalizer, Conflict, Goto, TypeOK
      <4>2. ~(FinalizeDelete(w) /\ pc'[w] = "idle")
        BY <3>3 DEF FinalizeDelete, Goto, TypeOK
      <4>3. QED
        BY <1>4, <4>1, <4>2 DEF Finish
    <3>5. CASE RemoveFinalizer(w)
      <4>1. exam' = [exam EXCEPT !.present = FALSE, !.finalizer = FALSE]
        BY <3>2, <3>3, <3>5 DEF RemoveFinalizer, Conflict, Store
      <4>2. ~exam'.present
        BY <1>0, <4>1 DEF ExamObjects
      <4>3. QED
        BY <2>2, <4>2 DEF WakeInv, InHandler
    <3>6. CASE StatusUpdate(w)
      <4>1. /\ pc[w] = "status" /\ Store(exam')
            /\ exam' = [exam EXCEPT !.phase = loc[w].phase, !.inst = loc[w].inst,
                                    !.mail = loc[w].mail, !.conds = loc[w].conds]
        BY <3>2, <3>3, <3>6 DEF StatusUpdate, Conflict, Store
      <4>2. synced'[w] => exam' = exam
        BY <4>1 DEF Store
      <4>3. exam'.phase = loc[w].phase /\ exam'.conds = loc[w].conds /\ exam'.spec = exam.spec
        BY <1>0, <4>1 DEF ExamObjects
      <4>4. loc[w].spec = exam.spec
        BY <1>0, <3>2 DEF FreshInv
      <4>5. synced'[w] /\ exam'.phase # "TearingDown" => InTime(result[w], loc[w])
        BY <3>2, <4>1, <4>2, <4>3 DEF WakeInv, Answered, InHandler
      <4>6. synced'[w] /\ exam'.phase # "TearingDown" => InTime(queue'[w], exam')
        BY <3>1, <4>3, <4>4, <4>5, InTimeSame
      <4>7. InTime(queue[w], exam)' <=> InTime(queue'[w], exam')
        BY DEF InTime, Due, Wakeups
      <4>8. QED
        BY <2>2, <4>6, <4>7 DEF WakeInv, InHandler
    <3>7. QED
      BY <3>4, <3>5, <3>6
  <2>5. QED
    BY <2>3, <2>4
<1>5. QED
  BY <1>1, <1>2, <1>3, <1>4 DEF QueueReconcile

\* The queue holds times, or that nothing is asked for, or a pause.
LEMMA QueueTypeNext ==
  ASSUME TypeOK, TypeOK', QueueTypeOK, [QueueNext]_allVars
  PROVE  QueueTypeOK'
<1> DEFINE Times == Nat \cup {Never, Paused}
<1>0. Now \in Times /\ Never \in Times /\ Paused \in Times /\ clock \in Nat
  BY ControllerAssumption DEF Now, TypeOK
<1>1. ASSUME NEW w \in Workers, NEW r \in Times, Returns(w, r)
      PROVE  result' \in [Workers -> Times]
  BY <1>1 DEF Returns, QueueTypeOK
<1>2. ASSUME Notify PROVE event' \in [Workers -> BOOLEAN]
  BY <1>2 DEF Notify, QueueTypeOK
<1>3. ASSUME NEW w \in Workers, Enqueue(w) PROVE queue' \in [Workers -> Times]
  BY <1>0, <1>3 DEF Enqueue, QueueTypeOK
<1>4. CASE Outside
  BY <1>2, <1>4 DEF Outside, QueueTypeOK
<1>5. ASSUME NEW w \in Workers, QueueReconcile(w) PROVE QueueTypeOK'
  <2>0. loc'[w] \in ExamObjects /\ PhaseResult(loc'[w], clock) \in Times
    BY <1>0, PhaseResultType DEF TypeOK
  <2> HIDE DEF Times
  <2>1. CASE Start(w)
    <3>1. queue' \in [Workers -> Times]
      BY <1>0, <1>5, <2>1 DEF Start, QueueTypeOK, Times
    <3>2. result' \in [Workers -> Times]
      <4>1. CASE UNCHANGED result
        BY <4>1 DEF QueueTypeOK, Times
      <4>2. CASE \E r \in Times : Returns(w, r)
        BY <1>1, <4>2
      <4>3. QED
        BY <1>0, <2>0, <2>1, <4>1, <4>2 DEF Start
    <3>3. QED
      BY <2>1, <3>1, <3>2 DEF Start, QueueTypeOK, Times
  <2>2. CASE Dispatch(w)
    BY <1>1, <2>0, <2>2 DEF Dispatch, QueueTypeOK, Times
  <2>3. CASE HandlerError(w)
    BY <1>0, <1>1, <1>2, <2>3 DEF HandlerError, QueueTypeOK, Times
  <2>4. CASE Work(w)
    BY <1>2, <2>4 DEF Work, QueueTypeOK
  <2>5. CASE Poll(w)
    BY <1>0, <1>1, <1>2, <2>5 DEF Poll, QueueTypeOK, Times
  <2>6. CASE Pace(w)
    BY <1>0, <1>1, <2>6 DEF Pace, QueueTypeOK, Times
  <2>7. CASE Wait(w)
    <3>1. wnow[w] \in Nat /\ nextWake(loc'[w]) \in Int
      BY <2>0, WakeupsType, ControllerAssumption DEF TypeOK
    <3>2. After(nextWake(loc'[w]), wnow[w]) \in Times
      BY <3>1, AfterType DEF Times
    <3>3. QED
      BY <1>1, <2>7, <3>2 DEF Wait, QueueTypeOK, Times
  <2>8. CASE Finish(w)
    <3>1. queue' \in [Workers -> Times]
      BY <1>0, <2>8 DEF Finish, Requeue, QueueTypeOK, Times
    <3>2. QED
      BY <1>0, <1>1, <2>8, <3>1 DEF Finish, QueueTypeOK, Times
  <2>9. QED
    BY <1>5, <2>1, <2>2, <2>3, <2>4, <2>5, <2>6, <2>7, <2>8 DEF QueueReconcile
<1>6. ASSUME NEW w \in Workers, WatchExam(w) \/ WatchOwned(w) \/ PauseOver(w)
      PROVE  QueueTypeOK'
  BY <1>3, <1>6 DEF WatchExam, WatchOwned, PauseOver, QueueTypeOK
<1>7. ASSUME NEW w \in Workers, Restart(w) PROVE QueueTypeOK'
  BY <1>0, <1>1, <1>3, <1>7 DEF Restart, QueueTypeOK
<1>8. CASE UNCHANGED allVars
  BY <1>8 DEF allVars, queueVars, QueueTypeOK
<1>9. QED
  BY <1>4, <1>5, <1>6, <1>7, <1>8 DEF QueueNext

LEMMA QueueTypeInit == QueueInit => QueueTypeOK
  BY DEF QueueInit, QueueTypeOK, Now, Never

\* The watches, the pauses and the restarts, for every worker but the one
\* they are of, and for that one.
LEMMA WatchFrame ==
  ASSUME TypeOK, QueueTypeOK, NEW w \in Workers,
         WatchExam(w) \/ WatchOwned(w) \/ PauseOver(w) \/ Restart(w)
  PROVE  /\ \A v \in Workers \ {w} : Untouched(v) /\ SameVersions(v) /\ Watched(v)
         /\ UNCHANGED <<exam, ns, objs, clock, faults, edits>>
         /\ PauseOver(w) => Untouched(w) /\ SameVersions(w) /\ Watched(w)
         /\ ~PauseOver(w) => queue'[w] = Now
<1>1. CASE WatchExam(w)
  <2>1. /\ UNCHANGED <<exam, ns, objs, clock, faults, edits, worker, result, event>>
        /\ \A v \in Workers \ {w} : cache'[v] = cache[v] /\ synced'[v] = synced[v]
        /\ queue' = [queue EXCEPT ![w] = Now]
    BY <1>1 DEF WatchExam, InformerSync, Enqueue, cluster, TypeOK
  <2>2. ~PauseOver(w) \/ UNCHANGED vars
    BY DEF PauseOver
  <2>3. ~UNCHANGED vars
    BY <1>1 DEF WatchExam, InformerSync, vars, TypeOK
  <2>4. QED
    BY <2>1, <2>2, <2>3 DEF worker, Untouched, SameVersions, Watched, QueueTypeOK
<1>2. CASE WatchOwned(w)
  <2>1. ~PauseOver(w)
    BY <1>2 DEF WatchOwned, PauseOver, QueueTypeOK
  <2>2. QED
    BY <1>2, <2>1 DEF WatchOwned, Enqueue, vars, Untouched, SameVersions, Watched, QueueTypeOK
<1>3. CASE PauseOver(w)
  BY <1>3 DEF PauseOver, vars, Untouched, SameVersions, Watched
<1>4. CASE Restart(w)
  <2>1. /\ UNCHANGED <<exam, ns, objs, clock, faults, edits>>
        /\ \A v \in Workers \ {w} :
             /\ cache'[v] = cache[v] /\ synced'[v] = synced[v] /\ pc'[v] = pc[v]
             /\ loc'[v] = loc[v] /\ wnow'[v] = wnow[v] /\ todo'[v] = todo[v]
             /\ fresh'[v] = fresh[v]
    BY <1>4 DEF Restart, Crash, Return, cluster, TypeOK
  <2>2. /\ \A v \in Workers \ {w} : /\ queue'[v] = queue[v] /\ result'[v] = result[v]
                                    /\ event'[v] = event[v]
        /\ queue'[w] = Now
    BY <1>4 DEF Restart, Enqueue, Returns, QueueTypeOK
  <2>3. ~PauseOver(w)
    BY <1>4 DEF Restart, Crash, Return, PauseOver, vars, TypeOK
  <2>4. QED
    BY <2>1, <2>2, <2>3 DEF Untouched, SameVersions, Watched
<1>5. QED
  BY <1>1, <1>2, <1>3, <1>4

LEMMA WakeNext ==
  ASSUME TypeOK, TypeOK', QueueTypeOK, IInv, [QueueNext]_allVars,
         \A v \in Workers : WakeInv(v)
  PROVE  \A v \in Workers : WakeInv(v)'
<1> TAKE v \in Workers
<1>1. CASE Outside
  BY <1>1, OutsideFrame, WakeKeep
<1>2. ASSUME NEW w \in Workers, QueueReconcile(w) PROVE WakeInv(v)'
  <2>1. CASE v = w
    BY <1>2, <2>1, WakeReconcile
  <2>2. CASE v # w
    BY <1>2, <2>2, ReconcileFrame, WakeKeep
  <2>3. QED
    BY <2>1, <2>2
<1>3. ASSUME NEW w \in Workers,
             WatchExam(w) \/ WatchOwned(w) \/ PauseOver(w) \/ Restart(w)
      PROVE  WakeInv(v)'
  <2>1. CASE v # w \/ PauseOver(w)
    BY <1>3, <2>1, WatchFrame, WakeKeep
  <2>2. CASE v = w /\ ~PauseOver(w)
    <3>1. queue'[w] = Now
      BY <1>3, <2>2, WatchFrame
    <3>2. CASE Restart(w)
      <4>1. pc'[w] = "idle"
        BY <3>2 DEF Restart, Crash, Return, TypeOK
      <4>2. QED
        BY <2>2, <3>1, <4>1, WakeIdle
    <3>3. CASE WatchExam(w) \/ WatchOwned(w)
      <4>1. /\ pc' = pc /\ loc' = loc /\ wnow' = wnow /\ fresh' = fresh /\ exam' = exam
            /\ result' = result
        BY <3>3 DEF WatchExam, InformerSync, worker, WatchOwned, vars
      <4>2. InTime(queue[w], exam)'
        BY <3>1 DEF InTime
      <4>3. WakeInv(w)
        OBVIOUS
      <4>4. QED
        BY <2>2, <3>1, <4>1, <4>2, <4>3 DEF WakeInv, Answered, InTime, Due, Wakeups
    <3>4. QED
      BY <1>3, <2>2, <3>2, <3>3
  <2>3. QED
    BY <2>1, <2>2
<1>4. CASE UNCHANGED allVars
  BY <1>4, WakeKeep DEF allVars, vars, queueVars, Untouched, SameVersions
<1>5. QED
  BY <1>1, <1>2, <1>3, <1>4 DEF QueueNext

LEMMA WakeInit == QueueInit => \A w \in Workers : WakeInv(w)
  BY DEF QueueInit, Init, WakeInv, InHandler, InTime

\* A reconcile that changes nothing returns in time, any other is followed by
\* an event or a retry; so whatever fails or overlaps, no manager at rest has
\* missed what its Exam waits for.
THEOREM Woken == QueueSpec => []NoLostWakeup
<1>1. ASSUME TypeOK, QueueTypeOK, \A w \in Workers : WakeInv(w)
      PROVE  NoLostWakeup
  <2>1. SUFFICES ASSUME NEW w \in Workers, Settled(w), exam.present, ~exam.deleting,
                        exam.phase # "TearingDown"
                 PROVE  /\ exam.phase \in {"Pending", "Ready", "Unlocked", "Locked"}
                        /\ queue[w] # Never
                        /\ \A t \in Due(exam) : queue[w] <= t
    BY DEF NoLostWakeup
  <2>2. queue[w] \notin {Now, Paused}
    BY <1>1, <2>1, ControllerAssumption DEF Settled, Available, Now, TypeOK
  <2>3. InTime(queue[w], exam)
    BY <1>1, <2>1 DEF WakeInv, Settled
  <2>4. QED
    BY <2>2, <2>3 DEF InTime
<1>2. QueueInit => QueueTypeOK /\ \A w \in Workers : WakeInv(w)
  BY QueueTypeInit, WakeInit
<1>3. /\ QueueTypeOK /\ (\A w \in Workers : WakeInv(w)) /\ TypeOK /\ TypeOK' /\ IInv
      /\ [QueueNext]_allVars
      => (QueueTypeOK /\ \A w \in Workers : WakeInv(w))'
  BY QueueTypeNext, WakeNext
<1>4. QED
  BY <1>1, <1>2, <1>3, QueueImplementsController, TypeCorrect, Invariance, PTL DEF QueueSpec
=============================================================================
