---------------------- MODULE ExamConvergenceProofs ----------------------
(***************************************************************************)
(* The cluster follows the phase: once every manager is at rest, each      *)
(* instance has the policies and the routes of the stored phase.           *)
(***************************************************************************)
EXTENDS ExamQueueProofs

-----------------------------------------------------------------------------
(***************************************************************************)
(* An Exam that nobody edits.                                              *)
(***************************************************************************)

\* Only an edit changes the spec, deletion is not undone, and time passes.
LEMMA SpecKept ==
  ASSUME TypeOK, [Next]_vars
  PROVE  /\ edits' = 0 => edits = 0 /\ exam'.spec = exam.spec
         /\ exam.deleting => exam'.deleting
         /\ exam'.present => exam.present
         /\ clock <= clock'
<1>0. exam \in ExamObjects /\ edits \in Int /\ edits >= 0 /\ clock \in Int
  BY ControllerAssumption DEF TypeOK
<1>1. ASSUME NEW s \in Specs, EditSpec(s)
      PROVE  edits' # 0 /\ exam.present /\ exam'.deleting = exam.deleting /\ clock' = clock
  BY <1>0, <1>1 DEF EditSpec, UserStore, Store, ExamObjects
<1>2. CASE DeleteExam
  BY <1>0, <1>2 DEF DeleteExam, UserStore, Store, ExamObjects
<1>3. CASE \/ Tick \/ NamespaceGone \/ (\E i \in Instances : DeploymentReady(i))
           \/ (\E o \in objs : Drift(o)) \/ (\E w \in Workers : InformerSync(w) \/ Crash(w))
  <2>1. exam' = exam /\ edits' = edits /\ (clock' = clock \/ clock' = clock + 1)
    BY <1>3 DEF Tick, NamespaceGone, DeploymentReady, Drift, InformerSync, Crash
  <2>2. QED
    BY <1>0, <2>1
<1>4. ASSUME NEW w \in Workers, Reconcile(w)
      PROVE  /\ edits' = edits /\ clock' = clock
             /\ exam'.spec = exam.spec /\ exam'.deleting = exam.deleting
             /\ exam'.present => exam.present
  <2>1. CASE AddFinalizer(w) \/ StatusUpdate(w) \/ RemoveFinalizer(w)
    BY <1>0, <2>1 DEF AddFinalizer, StatusUpdate, RemoveFinalizer, Store, ReturnNoWrite,
       ExamObjects
  <2>2. CASE FinalizeDelete(w)
    BY <2>2 DEF FinalizeDelete, ReturnNoWrite
  <2>3. QED
    BY <1>4, <2>1, <2>2 DEF Reconcile, GetNothing, vars, Get, Decide, CreateNamespace,
       provisionInstance, SlugError, FinishProvisioning, sendNextPendingEmail, ReadyContinue,
       enforcePolicies, deleteIngresses, NotifyInstructor, reconcileTeardown
<1>5. CASE UNCHANGED vars
  BY <1>0, <1>5 DEF vars
<1>6. QED
  BY <1>0, <1>1, <1>2, <1>3, <1>4, <1>5 DEF Next, Environment

\* Only enforcePolicies opens routes, for an Exam it takes to be unlocked.
LEMMA RoutesOpened ==
  ASSUME TypeOK, [Next]_vars
  PROVE  \/ objs' \cap AccessObjects \subseteq objs
         \/ \E w \in Workers : pc[w] = "enforce" /\ loc[w].phase = "Unlocked"
<1>1. CASE objs' \subseteq objs
  BY <1>1
<1>2. ASSUME NEW w \in Workers, provisionInstance(w)
      PROVE  objs' \cap AccessObjects \subseteq objs
  <2>1. PICK i \in Instances, n \in 0..4 :
          objs' = objs \cup Create({ProvisionedKinds[k] : k \in 1..n}, i)
    BY <1>2 DEF provisionInstance, TypeOK
  <2>2. {ProvisionedKinds[k] : k \in 1..n} \cap AccessKinds = {}
    BY ProvisionedKindsType
  <2>3. QED
    BY <2>1, <2>2 DEF Create, AccessObjects
<1>3. ASSUME NEW w \in Workers, enforcePolicies(w), ~Unlocking(w)
      PROVE  objs' \cap AccessObjects \subseteq objs
  <2>1. PICK i \in todo[w], failed \in SUBSET (EnforceCreates(w) \cup EnforceDeletes(w)) :
          objs' = (objs \cup Create(EnforceCreates(w) \ failed, i))
                    \ ((EnforceDeletes(w) \ failed) \X {i})
    BY <1>3 DEF enforcePolicies
  <2>2. EnforceCreates(w) \cap AccessKinds = {}
    BY <1>3 DEF EnforceCreates, AccessKinds
  <2>3. QED
    BY <2>1, <2>2 DEF Create, AccessObjects
<1>4. CASE Environment
  BY <1>1, <1>4 DEF Environment, Tick, DeleteExam, EditSpec, UserStore, NamespaceGone,
     DeploymentReady, Drift, InformerSync, Crash, cluster
<1>5. ASSUME NEW w \in Workers, Reconcile(w), ~provisionInstance(w), ~enforcePolicies(w)
      PROVE  objs' \subseteq objs
  BY <1>5 DEF Reconcile, GetNothing, vars, Get, AddFinalizer, Decide, CreateNamespace, SlugError,
     FinishProvisioning, sendNextPendingEmail, ReadyContinue, deleteIngresses, NotifyInstructor,
     reconcileTeardown, FinalizeDelete, RemoveFinalizer, StatusUpdate, cluster
<1>6. QED
  BY <1>1, <1>2, <1>3, <1>4, <1>5 DEF Next, vars, enforcePolicies, Unlocking

\* The namespace goes away at the end of the exam or when it is deleted.
LEMMA NamespaceStep ==
  ASSUME TypeOK, [Next]_vars, ns' # ns
  PROVE  /\ exam' = exam /\ clock' = clock /\ objs' \subseteq objs
         /\ \/ ns = "terminating" /\ ns' = "absent"
            \/ ns = "active" /\ \E w \in Workers : pc[w] \in {"teardown", "finalizeDelete"}
            \/ ns' = "active" /\ \E w \in Workers : CreateNamespace(w)
<1>1. CASE Environment
  BY <1>1 DEF Environment, Tick, DeleteExam, EditSpec, UserStore, NamespaceGone,
     DeploymentReady, Drift, InformerSync, Crash, cluster
<1>2. ASSUME NEW w \in Workers, CreateNamespace(w)
      PROVE  exam' = exam /\ clock' = clock /\ objs' = objs /\ ns' = "active"
  BY <1>2 DEF CreateNamespace
<1>3. ASSUME NEW w \in Workers, reconcileTeardown(w) \/ FinalizeDelete(w)
      PROVE  /\ exam' = exam /\ clock' = clock /\ objs' = objs
             /\ ns = "active" /\ pc[w] \in {"teardown", "finalizeDelete"}
  BY <1>3 DEF reconcileTeardown, FinalizeDelete, DeleteNamespace, ReturnNoWrite
<1>4. ASSUME NEW w \in Workers, Reconcile(w), ~CreateNamespace(w), ~reconcileTeardown(w),
             ~FinalizeDelete(w)
      PROVE  FALSE
  BY <1>4 DEF Reconcile, GetNothing, vars, Get, AddFinalizer, Decide, provisionInstance,
     SlugError, FinishProvisioning, sendNextPendingEmail, ReadyContinue, enforcePolicies,
     deleteIngresses, NotifyInstructor, RemoveFinalizer, StatusUpdate, cluster
<1>5. QED
  BY <1>1, <1>2, <1>3, <1>4 DEF Next, vars
\* What is on time stays so.
LEMMA OnTimeLater ==
  ASSUME TypeOK, TypeOK', clock <= clock', exam'.spec = exam.spec, NEW p, OnTime(p)
  PROVE  OnTime(p)'
<1>1. /\ exam.spec \in Specs /\ exam.spec.unlock \in Int /\ LockTime(exam.spec) \in Int
      /\ RetentionDeadline(exam.spec) \in Int /\ clock \in Int /\ clock' \in Int
  <2>1. exam.spec \in Specs
    BY DEF TypeOK, ExamObjects
  <2>2. QED
    BY <2>1, ScheduleType, ControllerAssumption DEF TypeOK
<1>2. QED
  BY <1>1 DEF OnTime

\* A worker that a step leaves alone.
LEMMA UneditedKeep ==
  ASSUME TypeOK, TypeOK', clock <= clock', exam'.spec = exam.spec,
         NEW v \in Workers, UneditedCopy(v), Untouched(v)
  PROVE  UneditedCopy(v)'
<1>1. ASSUME OnTime(loc[v].phase) PROVE OnTime(loc[v].phase)'
  <2>1. \A p : OnTime(p) => OnTime(p)'
    BY OnTimeLater
  <2>2. QED
    BY <1>1, <2>1 DEF Untouched, OnTime
<1>2. QED
  BY <1>1 DEF UneditedCopy, Untouched

\* The dispatch decides on a phase whose time has come.
LEMMA OnTimeDispatch ==
  ASSUME TypeOK, OnTime(exam.phase), NEW e \in ExamObjects, OlderVersion(e), e.spec = exam.spec
  PROVE  OnTime(determineDesiredPhase(e.phase, e.spec, clock))
<1>1. /\ exam.spec \in Specs /\ exam.spec.unlock \in Int
      /\ RetentionDeadline(exam.spec) \in Int /\ LockTime(exam.spec) \in Int /\ clock \in Int
      /\ e.phase \in ExamPhases /\ exam.phase \in ExamPhases
  <2>1. exam.spec \in Specs
    BY DEF TypeOK, ExamObjects
  <2>2. QED
    BY <2>1, ScheduleType, ControllerAssumption DEF TypeOK, ExamObjects
<1>2. PhaseRank[e.phase] <= PhaseRank[exam.phase]
  BY DEF OlderVersion
<1>3. OnTime(e.phase)
  BY <1>1, <1>2, RankType DEF OnTime, Past
<1>4. QED
  BY <1>1, <1>3, RankValues DEF OnTime, Past, determineDesiredPhase, FromPending, FromReady,
     FromUnlocked, FromLocked, ExamPhases

\* What a handler makes of its copy: the spec stays, and so does the phase,
\* but for the instances that turn out healthy.
LEMMA HandlerCopy ==
  ASSUME TypeOK, NEW w \in Workers,
         \/ CreateNamespace(w) \/ provisionInstance(w) \/ SlugError(w)
         \/ FinishProvisioning(w) \/ sendNextPendingEmail(w) \/ ReadyContinue(w)
         \/ enforcePolicies(w) \/ deleteIngresses(w) \/ NotifyInstructor(w)
         \/ reconcileTeardown(w)
  PROVE  /\ pc[w] \in InHandler /\ loc'[w].spec = loc[w].spec
         /\ loc'[w].phase = loc[w].phase \/ (pc[w] = "provision" /\ loc'[w].phase = "Ready")
<1>0. loc[w] \in ExamObjects /\ loc \in [Workers -> ExamObjects]
  BY DEF TypeOK
<1>1. CASE provisionInstance(w)
  <2>1. PICK i \in todo[w], n \in 0..4 : loc' = [loc EXCEPT ![w] = setInstanceStatus(@, i, n = 4)]
    BY <1>1 DEF provisionInstance
  <2>2. loc'[w] = setInstanceStatus(loc[w], i, n = 4) /\ pc[w] = "provision"
    BY <1>0, <1>1, <2>1 DEF provisionInstance
  <2>3. QED
    BY <1>0, <2>2 DEF setInstanceStatus, ExamObjects, InHandler
<1>2. CASE FinishProvisioning(w)
  BY <1>0, <1>2 DEF FinishProvisioning, ExamObjects, InHandler
<1>3. CASE sendNextPendingEmail(w) \/ ReadyContinue(w)
  BY <1>0, <1>3 DEF sendNextPendingEmail, ReadyContinue, ExamObjects, InHandler
<1>4. CASE NotifyInstructor(w)
  BY <1>0, <1>4 DEF NotifyInstructor, ExamObjects, InHandler
<1>5. CASE \/ CreateNamespace(w) \/ SlugError(w) \/ enforcePolicies(w) \/ deleteIngresses(w)
           \/ reconcileTeardown(w)
  BY <1>5 DEF CreateNamespace, SlugError, enforcePolicies, deleteIngresses, reconcileTeardown,
     InHandler
<1>6. QED
  BY <1>1, <1>2, <1>3, <1>4, <1>5

\* The copy w itself works on.
LEMMA UneditedOwn ==
  ASSUME TypeOK, TypeOK', IInv, NEW w \in Workers, UneditedCopy(w), OnTime(exam.phase),
         Reconcile(w), clock' = clock, exam'.spec = exam.spec, cache'[w] = cache[w]
  PROVE  UneditedCopy(w)'
<1>0. /\ loc[w] \in ExamObjects /\ cache[w] \in ExamObjects
      /\ OlderVersion(cache[w]) /\ (pc[w] \in BeforeDispatch => OlderVersion(loc[w]))
  BY DEF TypeOK, IInv, WorkerInv, CacheInv, InFlightInv
<1>1. \A p : OnTime(p)' <=> OnTime(p)
  BY DEF OnTime
<1>2. ASSUME NEW e \in ExamObjects, OlderVersion(e), e.spec = exam.spec, DecideOn(w, e)
      PROVE  UneditedCopy(w)'
  <2> DEFINE d == determineDesiredPhase(e.phase, e.spec, clock)
  <2>1. OnTime(d)
    BY <1>2, OnTimeDispatch
  <2>2. loc'[w].phase = d /\ loc'[w].spec = e.spec
    BY <1>2 DEF DecideOn, TypeOK, ExamObjects
  <2>3. OnTime(loc[w].phase)'
    BY <2>1, <2>2 DEF OnTime
  <2>4. QED
    BY <1>2, <2>2, <2>3 DEF UneditedCopy
<1>3. CASE pc'[w] = "idle"
  BY <1>3 DEF UneditedCopy, InHandler
<1>4. CASE Get(w)
  <2>1. CASE cache[w].finalizer /\ ~cache[w].deleting
    BY <1>0, <1>2, <1>4, <2>1 DEF Get, UneditedCopy
  <2>2. CASE ~(cache[w].finalizer /\ ~cache[w].deleting)
    <3>1. loc'[w] = cache[w] /\ pc'[w] \in {"finalizeDelete", "addFinalizer"}
      BY <1>4, <2>2 DEF Get, Goto, TypeOK
    <3>2. QED
      BY <3>1 DEF UneditedCopy, InHandler
  <2>3. QED
    BY <2>1, <2>2
<1>5. CASE Decide(w)
  BY <1>0, <1>2, <1>5 DEF Decide, UneditedCopy, BeforeDispatch
<1>6. CASE AddFinalizer(w) /\ pc'[w] # "idle"
  <2>1. pc[w] = "addFinalizer" /\ pc'[w] = "decide" /\ loc' = [loc EXCEPT ![w].finalizer = TRUE]
    BY <1>6 DEF AddFinalizer, ReturnNoWrite, Return, Goto, TypeOK
  <2>2. loc'[w].spec = loc[w].spec
    BY <1>0, <2>1 DEF TypeOK, ExamObjects
  <2>3. QED
    BY <2>1, <2>2 DEF UneditedCopy, InHandler
<1>7. CASE FinalizeDelete(w) /\ pc'[w] # "idle"
  <2>1. /\ pc[w] = "finalizeDelete" /\ pc'[w] = "removeFinalizer"
        /\ loc' = [loc EXCEPT ![w].phase = "TearingDown"]
    BY <1>7 DEF FinalizeDelete, ReturnNoWrite, Return, Goto, TypeOK
  <2>2. loc'[w].spec = loc[w].spec
    BY <1>0, <2>1 DEF TypeOK, ExamObjects
  <2>3. QED
    BY <2>1, <2>2 DEF UneditedCopy, InHandler
<1>8. CASE \/ CreateNamespace(w) \/ provisionInstance(w) \/ SlugError(w)
           \/ FinishProvisioning(w) \/ sendNextPendingEmail(w) \/ ReadyContinue(w)
           \/ enforcePolicies(w) \/ deleteIngresses(w) \/ NotifyInstructor(w)
           \/ reconcileTeardown(w)
  <2>1. /\ pc[w] \in InHandler /\ loc'[w].spec = loc[w].spec
        /\ loc'[w].phase = loc[w].phase \/ loc'[w].phase = "Ready"
    BY <1>8, HandlerCopy
  <2>2. OnTime(loc[w].phase) /\ OnTime("Ready")
    BY <2>1, RankValues DEF UneditedCopy, OnTime, Past
  <2>3. OnTime(loc[w].phase)'
    BY <2>1, <2>2 DEF OnTime
  <2>4. QED
    BY <2>1, <2>3 DEF UneditedCopy, InHandler
<1>9. CASE GetNothing(w)
  <2>1. loc' = loc /\ pc' = pc
    BY <1>9 DEF GetNothing, vars
  <2>2. QED
    BY <1>1, <2>1 DEF UneditedCopy, OnTime
<1>10. CASE StatusUpdate(w) \/ RemoveFinalizer(w)
  BY <1>3, <1>10 DEF StatusUpdate, RemoveFinalizer, ReturnNoWrite, Return, TypeOK
<1>11. QED
  BY <1>3, <1>4, <1>5, <1>6, <1>7, <1>8, <1>9, <1>10 DEF Reconcile
LEMMA UneditedNext ==
  ASSUME TypeOK, TypeOK', QueueTypeOK, IInv, UneditedInv, [QueueNext]_allVars
  PROVE  UneditedInv'
<1> SUFFICES ASSUME edits' = 0
             PROVE  /\ OnTime(exam.phase)'
                    /\ objs' \cap AccessObjects # {} => clock' >= exam'.spec.unlock
                    /\ exam'.phase = "Locked" /\ ~exam'.deleting /\ ns' # "active"
                         => clock' >= RetentionDeadline(exam'.spec)
                    /\ \A v \in Workers : UneditedCopy(v)'
  BY DEF UneditedInv, AccessObjects
<1>0. /\ exam.spec \in Specs /\ exam.spec.unlock \in Int
      /\ RetentionDeadline(exam.spec) \in Int /\ LockTime(exam.spec) \in Int
      /\ clock \in Int /\ clock' \in Int
      /\ exam.phase \in ExamPhases /\ exam'.phase \in ExamPhases
  <2>1. exam.spec \in Specs
    BY DEF TypeOK, ExamObjects
  <2>2. QED
    BY <2>1, ScheduleType, ControllerAssumption DEF TypeOK, ExamObjects
<1>1. [Next]_vars
  BY QueueNextStep
<1>2. /\ edits = 0 /\ exam'.spec = exam.spec /\ clock <= clock'
      /\ exam.deleting => exam'.deleting
  BY <1>1, SpecKept
<1>3. /\ OnTime(exam.phase)
      /\ objs \cap AccessObjects # {} => clock >= exam.spec.unlock
      /\ exam.phase = "Locked" /\ ~exam.deleting /\ ns # "active"
           => clock >= RetentionDeadline(exam.spec)
      /\ \A v \in Workers : UneditedCopy(v)
  BY <1>2 DEF UneditedInv
<1>4. /\ \/ exam'.phase = exam.phase
         \/ Contract!MayFollow(exam.phase, exam'.phase, exam.spec, clock)
  BY <1>1, PhaseStep
<1>5. OnTime(exam.phase)'
  <2>1. OnTime(exam'.phase)
    BY <1>0, <1>3, <1>4, RankValues, SameSchedule DEF Contract!MayFollow, OnTime, Past, ExamPhases
  <2>2. \A p : OnTime(p) => OnTime(p)'
    BY <1>2, OnTimeLater
  <2>3. QED
    BY <2>1, <2>2 DEF OnTime
<1>6. objs' \cap AccessObjects # {} => clock' >= exam'.spec.unlock
  <2>1. ASSUME NEW w \in Workers, pc[w] = "enforce", loc[w].phase = "Unlocked"
        PROVE  clock >= exam.spec.unlock
    BY <1>3, <2>1, RankValues DEF UneditedCopy, OnTime, InHandler, Past
  <2>2. objs' \cap AccessObjects # {} => clock >= exam.spec.unlock
    BY <1>1, <1>3, <2>1, RoutesOpened
  <2>3. QED
    BY <1>0, <1>2, <2>2
<1>7. exam'.phase = "Locked" /\ ~exam'.deleting /\ ns' # "active"
        => clock' >= RetentionDeadline(exam'.spec)
  <2> SUFFICES ASSUME exam'.phase = "Locked", ~exam'.deleting, ns' # "active"
               PROVE  clock >= RetentionDeadline(exam.spec)
    BY <1>0, <1>2
  <2>1. CASE ns' = ns
    <3>1. exam.phase \in {"Unlocked", "Locked"}
      BY <1>4 DEF Contract!MayFollow
    <3>2. ~exam.deleting
      BY <1>2
    <3>3. exam.phase = "Unlocked" => ns = "active"
      BY <3>2, RankValues DEF IInv, StoredInv, Kept, Past
    <3>4. QED
      BY <1>3, <2>1, <3>1, <3>2, <3>3
  <2>2. CASE ns' # ns
    <3>1. exam' = exam
      BY <1>1, <2>2, NamespaceStep
    <3>2. CASE ns = "terminating"
      BY <1>3, <3>1, <3>2
    <3>3. ASSUME NEW w \in Workers, pc[w] = "teardown" PROVE clock >= RetentionDeadline(exam.spec)
      <4>1. loc[w].phase = "TearingDown"
        BY <3>3 DEF IInv, HandlerPhaseInv, HandlerPhaseOK
      <4>2. QED
        BY <1>3, <3>3, <4>1, RankValues DEF UneditedCopy, OnTime, InHandler, Past
    <3>4. ASSUME NEW w \in Workers, pc[w] = "finalizeDelete" PROVE FALSE
      BY <3>1, <3>4 DEF IInv, WorkerInv, InFlightInv, InDeletion
    <3>5. QED
      BY <1>1, <2>2, <3>2, <3>3, <3>4, NamespaceStep
  <2>3. QED
    BY <2>1, <2>2
<1>8. ASSUME NEW v \in Workers PROVE UneditedCopy(v)'
  <2>1. CASE Untouched(v)
    BY <1>2, <1>3, <2>1, UneditedKeep
  <2>2. CASE Outside
    BY <2>1, <2>2, OutsideFrame
  <2>3. ASSUME NEW w \in Workers, QueueReconcile(w) PROVE UneditedCopy(v)'
    <3>1. CASE v # w
      BY <2>1, <2>3, <3>1, ReconcileFrame
    <3>2. CASE v = w
      <4>1. Reconcile(w)
        BY <2>3, QueueReconcileStep
      <4>2. cache' = cache /\ clock' = clock
        BY <4>1 DEF Reconcile, GetNothing, vars, Get, AddFinalizer, Decide, CreateNamespace,
           provisionInstance, SlugError, FinishProvisioning, sendNextPendingEmail, ReadyContinue,
           enforcePolicies, deleteIngresses, NotifyInstructor, reconcileTeardown, FinalizeDelete,
           RemoveFinalizer, StatusUpdate
      <4>3. QED
        BY <1>2, <1>3, <3>2, <4>1, <4>2, UneditedOwn
    <3>3. QED
      BY <3>1, <3>2
  <2>4. ASSUME NEW w \in Workers,
               WatchExam(w) \/ WatchOwned(w) \/ PauseOver(w) \/ Restart(w)
        PROVE  UneditedCopy(v)'
    <3>1. CASE v # w \/ PauseOver(w)
      BY <2>1, <2>4, <3>1, WatchFrame
    <3>2. CASE v = w /\ WatchOwned(w)
      <4>1. UNCHANGED <<pc, loc, clock, exam, cache>>
        BY <3>2 DEF WatchOwned, vars
      <4>2. QED
        BY <1>3, <4>1 DEF UneditedCopy, OnTime
    <3>3. CASE v = w /\ Restart(w)
      <4>1. pc'[w] = "idle" /\ cache'[w] = exam
        BY <3>3 DEF Restart, Crash, Return, TypeOK
      <4>2. QED
        BY <1>2, <3>3, <4>1 DEF UneditedCopy, InHandler
    <3>4. CASE v = w /\ WatchExam(w)
      <4>1. UNCHANGED <<pc, loc, clock, exam>> /\ cache'[w] = exam
        BY <3>4 DEF WatchExam, InformerSync, worker, TypeOK
      <4>2. QED
        BY <1>2, <1>3, <3>4, <4>1 DEF UneditedCopy, OnTime
    <3>5. QED
      BY <2>4, <3>1, <3>2, <3>3, <3>4
  <2>5. CASE UNCHANGED allVars
    BY <2>1, <2>5 DEF allVars, vars, queueVars, Untouched
  <2>6. QED
    BY <2>2, <2>3, <2>4, <2>5 DEF QueueNext
<1>9. QED
  BY <1>5, <1>6, <1>7, <1>8

LEMMA UneditedInit == QueueInit => UneditedInv
<1> SUFFICES ASSUME QueueInit PROVE UneditedInv
  OBVIOUS
<1>1. /\ exam.phase = "Unset" /\ objs = {}
      /\ \A w \in Workers : cache[w] = exam /\ pc[w] = "idle"
  BY DEF QueueInit, Init, NewExam
<1>2. QED
  BY <1>1, RankValues DEF UneditedInv, UneditedCopy, OnTime, Past, InHandler
-----------------------------------------------------------------------------
(***************************************************************************)
(* One manager, and an Exam to which nothing out of the ordinary happens.  *)
(***************************************************************************)

\* An Exam that is past provisioning and not deleted has lost its namespace
\* only after the lock, so one manager is not creating it.
LEMMA NotRecreated ==
  ASSUME Solo, TypeOK, IInv, SoloInv, NEW w \in Workers, pc[w] = "namespace",
         ~exam.deleting, ns # "active"
  PROVE  ~Past(exam.phase, 3)
<1>1. loc[w].phase = "Provisioning" /\ LockFinal(w)
  BY DEF IInv, HandlerPhaseInv, HandlerPhaseOK, SoloInv, RouteInv
<1>2. ~Past(exam.phase, 5)
  BY <1>1, RankValues DEF LockFinal, InHandler, Past
<1>3. QED
  BY <1>2 DEF IInv, StoredInv, Kept

\* It was calm before, unless the namespace has just been created.
LEMMA CalmBefore ==
  ASSUME TypeOK, [Next]_vars, Calm'
  PROVE  /\ Solo /\ faults = 0 /\ edits = 0 /\ exam.present /\ ~exam.deleting
         /\ exam'.spec = exam.spec /\ clock <= clock'
         /\ \/ Calm
            \/ /\ ns # "active" /\ exam' = exam /\ clock' = clock /\ objs' \subseteq objs
               /\ \E w \in Workers : CreateNamespace(w)
<1>1. /\ faults' = 0 /\ edits' = 0 /\ exam'.present /\ ~exam'.deleting /\ ns' = "active" /\ Solo
  BY DEF Calm, Solo
<1>2. /\ faults = 0 /\ edits = 0 /\ exam.present /\ ~exam.deleting
      /\ exam'.spec = exam.spec /\ clock <= clock'
  BY <1>1, FaultFree, SpecKept
<1>3. CASE ns = "active"
  BY <1>1, <1>2, <1>3 DEF Calm
<1>4. CASE ns # "active"
  <2>1. /\ exam' = exam /\ clock' = clock /\ objs' \subseteq objs
        /\ \E w \in Workers : CreateNamespace(w)
    BY <1>1, <1>4, NamespaceStep
  <2>2. QED
    BY <1>1, <1>2, <1>4, <2>1
<1>5. QED
  BY <1>3, <1>4

\* No edit and no deletion leads to a calm state.
LEMMA CalmEdits ==
  ASSUME TypeOK, Calm'
  PROVE  ~(\E s \in Specs : EditSpec(s)) /\ ~DeleteExam
<1>1. ASSUME NEW s \in Specs, EditSpec(s) PROVE FALSE
  BY <1>1, ControllerAssumption DEF EditSpec, Calm, TypeOK
<1>2. ASSUME DeleteExam PROVE FALSE
  BY <1>2 DEF DeleteExam, UserStore, Store, Calm, TypeOK, ExamObjects
<1>3. QED
  BY <1>1, <1>2

\* The time has come for what the dispatch decides, so an Exam that was stored
\* as Unlocked is not taken to be Ready.
LEMMA UnlockDispatch ==
  ASSUME TypeOK, OnTime(exam.phase), Past(exam.phase, 4), NEW e \in ExamObjects,
         Past(e.phase, 3), e.spec = exam.spec
  PROVE  Past(determineDesiredPhase(e.phase, e.spec, clock), 4)
<1>1. /\ exam.spec.unlock \in Int /\ clock \in Int /\ e.phase \in ExamPhases
  <2>1. exam.spec \in Specs
    BY DEF TypeOK, ExamObjects
  <2>2. QED
    BY <2>1, ScheduleType, ControllerAssumption DEF TypeOK, ExamObjects
<1>2. clock >= exam.spec.unlock
  BY DEF OnTime
<1>3. QED
  BY <1>1, <1>2, RankValues DEF Past, determineDesiredPhase, FromPending, FromReady,
     FromUnlocked, FromLocked, ExamPhases

LEMMA UnlockFinalNext ==
  ASSUME Solo, TypeOK, TypeOK', IInv, SoloInv, UneditedInv, [Next]_vars,
         NEW v \in Workers, UnlockFinal(v)
  PROVE  UnlockFinal(v)'
<1> SUFFICES ASSUME edits' = 0, Past(exam.phase, 4)'
             PROVE  /\ Past(cache'[v].phase, 3)
                    /\ pc'[v] \in BeforeDispatch => Past(loc'[v].phase, 3)
                    /\ pc'[v] \in InHandler => Past(loc'[v].phase, 4)
  BY DEF UnlockFinal, Past
<1>0. /\ cache[v] \in ExamObjects /\ loc[v] \in ExamObjects
      /\ PhaseRank[exam.phase] \in Int /\ PhaseRank[exam'.phase] \in Int
  <2>1. exam \in ExamObjects /\ exam' \in ExamObjects
    BY DEF TypeOK
  <2>2. exam.phase \in ExamPhases /\ exam'.phase \in ExamPhases
    BY <2>1 DEF ExamObjects
  <2>3. QED
    BY <2>2, RankType DEF TypeOK
<1>1. edits = 0 /\ exam'.spec = exam.spec
  BY SpecKept
<1>2. OnTime(exam.phase) /\ UneditedCopy(v)
  BY <1>1 DEF UneditedInv
<1>3. Past(exam.phase, 4) =>
        /\ Past(cache[v].phase, 3)
        /\ pc[v] \in BeforeDispatch => Past(loc[v].phase, 3)
        /\ pc[v] \in InHandler => Past(loc[v].phase, 4)
  BY <1>1 DEF UnlockFinal
<1>4. ASSUME NEW e \in ExamObjects, Past(e.phase, 3), e.spec = exam.spec, Past(exam.phase, 4),
             DecideOn(v, e)
      PROVE  pc'[v] \in InHandler /\ Past(loc'[v].phase, 4)
  <2> DEFINE d == determineDesiredPhase(e.phase, e.spec, clock)
  <2>1. Past(d, 4) /\ d \in ExamPhases
    BY <1>2, <1>4, UnlockDispatch, DesiredPhaseType DEF ExamObjects
  <2>2. loc'[v].phase = d /\ pc'[v] = HandlerLabel(e, d)
    BY <1>4 DEF DecideOn, Goto, TypeOK, ExamObjects
  <2> HIDE DEF d
  <2>3. QED
    BY <2>1, <2>2, HandlerEntry DEF Past
<1>5. CASE exam'.phase = exam.phase
  <2>0. /\ Past(cache[v].phase, 3) /\ Past(exam.phase, 3) /\ Past(exam.phase, 4)
        /\ pc[v] \in BeforeDispatch => Past(loc[v].phase, 3)
        /\ pc[v] \in InHandler => Past(loc[v].phase, 4)
    BY <1>0, <1>3, <1>5 DEF Past
  <2>1. CASE UNCHANGED <<pc, loc, cache>>
    BY <2>0, <2>1
  <2>2. CASE pc'[v] = "idle" /\ cache'[v] \in {exam, cache[v]}
    BY <2>0, <2>2 DEF BeforeDispatch, InHandler
  <2>3. CASE Environment
    <3>1. ASSUME NEW w \in Workers, InformerSync(w)
          PROVE  pc' = pc /\ loc' = loc /\ cache'[v] \in {exam, cache[v]}
      BY <3>1 DEF InformerSync, worker, TypeOK
    <3>2. ASSUME NEW w \in Workers, Crash(w)
          PROVE  pc'[v] = "idle" /\ cache'[v] \in {exam, cache[v]}
      BY <3>2 DEF Crash, Return, TypeOK, Solo
    <3>3. QED
      BY <2>0, <2>1, <2>2, <2>3, <3>1, <3>2 DEF Environment, Tick, DeleteExam, EditSpec, UserStore,
         NamespaceGone, DeploymentReady, Drift, worker
  <2>4. ASSUME NEW w \in Workers, Reconcile(w) PROVE v = w /\ Reconcile(v)
    BY <2>4 DEF Solo
  <2>5. ASSUME Reconcile(v)
        PROVE  /\ Past(cache'[v].phase, 3)
               /\ pc'[v] \in BeforeDispatch => Past(loc'[v].phase, 3)
               /\ pc'[v] \in InHandler => Past(loc'[v].phase, 4)
    <3>0. cache' = cache
      BY <2>5 DEF Reconcile, GetNothing, vars, Get, AddFinalizer, Decide, CreateNamespace,
         provisionInstance, SlugError, FinishProvisioning, sendNextPendingEmail, ReadyContinue,
         enforcePolicies, deleteIngresses, NotifyInstructor, reconcileTeardown, FinalizeDelete,
         RemoveFinalizer, StatusUpdate
    <3>1. CASE Get(v)
      <4>1. CASE cache[v].finalizer /\ ~cache[v].deleting
        <5>1. DecideOn(v, cache[v]) /\ cache[v].spec = exam.spec
          BY <1>2, <3>1, <4>1 DEF Get, UneditedCopy
        <5>2. pc'[v] \in InHandler /\ Past(loc'[v].phase, 4)
          BY <1>0, <1>4, <2>0, <5>1
        <5>3. QED
          BY <2>0, <3>0, <5>2 DEF BeforeDispatch, InHandler
      <4>2. CASE ~(cache[v].finalizer /\ ~cache[v].deleting)
        <5>1. loc'[v] = cache[v] /\ pc'[v] \in {"finalizeDelete", "addFinalizer"}
          BY <3>1, <4>2 DEF Get, Goto, TypeOK
        <5>2. QED
          BY <2>0, <3>0, <5>1 DEF InHandler
      <4>3. QED
        BY <4>1, <4>2
    <3>2. CASE Decide(v)
      <4>1. DecideOn(v, loc[v]) /\ loc[v].spec = exam.spec /\ Past(loc[v].phase, 3)
        BY <1>2, <2>0, <3>2 DEF Decide, UneditedCopy, BeforeDispatch
      <4>2. pc'[v] \in InHandler /\ Past(loc'[v].phase, 4)
        BY <1>0, <1>4, <2>0, <4>1
      <4>3. QED
        BY <2>0, <3>0, <4>2 DEF BeforeDispatch, InHandler
    <3>3. CASE pc'[v] = "idle"
      BY <2>2, <3>0, <3>3 DEF BeforeDispatch, InHandler
    <3>4. CASE AddFinalizer(v) /\ pc'[v] # "idle"
      <4>1. /\ pc[v] = "addFinalizer" /\ pc'[v] = "decide"
            /\ loc' = [loc EXCEPT ![v].finalizer = TRUE]
        BY <3>4 DEF AddFinalizer, ReturnNoWrite, Return, Goto, TypeOK
      <4>2. loc'[v].phase = loc[v].phase
        BY <1>0, <4>1 DEF TypeOK, ExamObjects
      <4>3. QED
        BY <2>0, <3>0, <4>1, <4>2 DEF BeforeDispatch, InHandler
    <3>5. CASE FinalizeDelete(v) /\ pc'[v] # "idle"
      <4>1. pc'[v] = "removeFinalizer"
        BY <3>5 DEF FinalizeDelete, ReturnNoWrite, Return, Goto, TypeOK
      <4>2. QED
        BY <2>0, <3>0, <4>1 DEF BeforeDispatch, InHandler
    <3>6. CASE \/ CreateNamespace(v) \/ provisionInstance(v) \/ SlugError(v)
               \/ FinishProvisioning(v) \/ sendNextPendingEmail(v) \/ ReadyContinue(v)
               \/ enforcePolicies(v) \/ deleteIngresses(v) \/ NotifyInstructor(v)
               \/ reconcileTeardown(v)
      <4>1. /\ pc[v] \in InHandler
            /\ loc'[v].phase = loc[v].phase \/ pc[v] = "provision"
        BY <3>6, HandlerCopy
      <4>2. pc[v] # "provision"
        BY <2>0, RankValues DEF IInv, HandlerPhaseInv, HandlerPhaseOK, InHandler, Past
      <4>3. pc'[v] \notin BeforeDispatch
        BY <3>6 DEF CreateNamespace, provisionInstance, SlugError, FinishProvisioning,
           sendNextPendingEmail, ReadyContinue, enforcePolicies, deleteIngresses,
           NotifyInstructor, reconcileTeardown, Goto, EnforceLabel, AfterEnforce, TypeOK,
           BeforeDispatch
      <4>4. QED
        BY <2>0, <3>0, <4>1, <4>2, <4>3
    <3>7. CASE StatusUpdate(v) \/ RemoveFinalizer(v)
      BY <3>3, <3>7 DEF StatusUpdate, RemoveFinalizer, ReturnNoWrite, Return, TypeOK
    <3>8. QED
      BY <2>1, <2>5, <3>1, <3>2, <3>3, <3>4, <3>5, <3>6, <3>7 DEF Reconcile, GetNothing, vars
  <2>6. QED
    BY <2>1, <2>3, <2>4, <2>5 DEF Next, vars
<1>6. CASE exam'.phase # exam.phase
  <2>1. exam.phase \in {"Ready", "Unlocked", "Locked"}
    <3>1. Contract!MayFollow(exam.phase, exam'.phase, exam.spec, clock)
      BY <1>6, PhaseStep
    <3>2. QED
      BY <1>6, <3>1, RankValues DEF Contract!MayFollow, Past
  <2>2. PICK w \in Workers : StatusUpdate(w) /\ ~ReturnNoWrite(w)
    BY <1>6, StatusWriter
  <2>3. v = w
    BY DEF Solo
  <2>4. fresh[v] /\ pc'[v] = "idle" /\ cache' = cache
    BY <2>2, <2>3 DEF StatusUpdate, Conflict, Return, TypeOK
  <2>5. cache[v].phase = exam.phase
    BY <2>4 DEF SoloInv, RouteInv, LatestCopy
  <2>6. QED
    BY <2>1, <2>4, <2>5, RankValues DEF BeforeDispatch, InHandler, Past
<1>7. QED
  BY <1>5, <1>6
\* While it is calm nobody deletes a policy of provisionInstance: every
\* instance a reconcile has visited has an entry, so the cleanup spares it.
LEMMA BaseKept ==
  ASSUME TypeOK, BaseInv, Calm, Calm', [Next]_vars, NEW i \in Instances, BasePolicies(i)
  PROVE  BasePolicies(i)'
<1>0. ns = "active" /\ ns' = "active" /\ faults = 0 /\ faults' = 0
  BY DEF Calm
<1>1. CASE \A o \in objs : o[1] \in {"denyAll", "egressAllow"} => o \in objs'
  BY <1>1 DEF BasePolicies
<1>2. CASE Environment
  <2>1. ~(\E o \in objs : Drift(o)) /\ ~NamespaceGone
    BY <1>0 DEF Drift, OneFault, Charge, NamespaceGone
  <2>2. objs' = objs
    BY <1>2, <2>1 DEF Environment, Tick, DeleteExam, EditSpec, UserStore, DeploymentReady,
       InformerSync, Crash, cluster
  <2>3. QED
    BY <1>1, <2>2
<1>3. ASSUME NEW w \in Workers, enforcePolicies(w) \/ deleteIngresses(w) \/ provisionInstance(w)
      PROVE  \A o \in objs : o[1] \in {"denyAll", "egressAllow"} => o \in objs'
  BY <1>3 DEF enforcePolicies, EnforceDeletes, deleteIngresses, Ingresses, provisionInstance
<1>4. ASSUME NEW w \in Workers, FinishProvisioning(w) PROVE objs' = objs
  <2>1. \A j \in Instances : loc[w].inst[j] # "none"
    BY <1>4 DEF BaseInv, FinishProvisioning
  <2>2. Orphans(loc[w]) = {}
    BY <2>1 DEF Orphans, collectSlugs
  <2>3. QED
    BY <1>4, <2>2 DEF FinishProvisioning
<1>5. ASSUME NEW w \in Workers, Reconcile(w), ~enforcePolicies(w), ~deleteIngresses(w),
             ~provisionInstance(w), ~FinishProvisioning(w)
      PROVE  objs' = objs
  BY <1>5 DEF Reconcile, GetNothing, vars, Get, AddFinalizer, Decide, CreateNamespace, SlugError,
     sendNextPendingEmail, ReadyContinue, NotifyInstructor, reconcileTeardown, FinalizeDelete,
     RemoveFinalizer, StatusUpdate, cluster
<1>6. QED
  BY <1>1, <1>2, <1>3, <1>4, <1>5 DEF Next, vars

LEMMA BaseNext ==
  ASSUME Solo, TypeOK, TypeOK', IInv, SoloInv, MailInv, BaseInv, [Next]_vars
  PROVE  BaseInv'
<1> DEFINE Provided(v) ==
             /\ pc[v] = "provision" =>
                  \A i \in Instances \ todo[v] : BasePolicies(i) /\ loc[v].inst[i] # "none"
             /\ pc[v] = "status" /\ loc[v].phase = "Ready" =>
                  \A i \in Instances : BasePolicies(i)
<1> SUFFICES ASSUME Calm'
             PROVE  /\ Past(exam'.phase, 3) => \A i \in Instances : BasePolicies(i)'
                    /\ \A v \in Workers : Provided(v)'
  BY DEF BaseInv, Past
<1>0. ns' = "active" /\ faults' = 0
  BY DEF Calm
<1>1. ASSUME NEW w \in Workers, CreateNamespace(w) PROVE Provided(w)'
  <2>1. CASE pc'[w] = "provision"
    <3>1. pc[w] = "namespace" /\ todo' = todo
      BY <1>1, <2>1 DEF CreateNamespace, Goto, TypeOK
    <3>2. todo[w] = Instances
      BY <3>1 DEF MailInv, LoopMail
    <3>3. QED
      BY <2>1, <3>1, <3>2
  <2>2. CASE pc'[w] # "provision"
    <3>1. pc[w] = "namespace" /\ loc' = loc
      BY <1>1 DEF CreateNamespace
    <3>2. loc[w].phase = "Provisioning"
      BY <3>1 DEF IInv, HandlerPhaseInv, HandlerPhaseOK
    <3>3. QED
      BY <2>2, <3>1, <3>2
  <2>3. QED
    BY <2>1, <2>2
<1>2. CASE ~Calm
  <2>1. PICK w \in Workers : CreateNamespace(w)
    BY <1>2, CalmBefore
  <2>2. ns # "active" /\ exam' = exam /\ ~exam.deleting
    BY <1>2, CalmBefore
  <2>3. ~Past(exam.phase, 3)
    BY <2>1, <2>2, NotRecreated DEF CreateNamespace
  <2>4. \A v \in Workers : v = w
    BY DEF Solo
  <2>5. QED
    BY <1>1, <2>1, <2>2, <2>3, <2>4
<1>3. CASE Calm
  <2>0. /\ Past(exam.phase, 3) => \A i \in Instances : BasePolicies(i)
        /\ \A v \in Workers : Provided(v)
        /\ \A i \in Instances : BasePolicies(i) => BasePolicies(i)'
    BY <1>3, BaseKept DEF BaseInv
  <2>1. Past(exam'.phase, 3) => \A i \in Instances : BasePolicies(i)
    <3>1. CASE exam'.phase = exam.phase
      BY <2>0, <3>1
    <3>2. CASE exam'.phase # exam.phase
      <4>1. PICK w \in Workers : StatusUpdate(w) /\ ~ReturnNoWrite(w)
        BY <3>2, StatusWriter
      <4>2. /\ pc[w] = "status"
            /\ exam' = [exam EXCEPT !.phase = loc[w].phase, !.inst = loc[w].inst,
                                    !.mail = loc[w].mail, !.conds = loc[w].conds]
        BY <4>1 DEF StatusUpdate, Store
      <4>3. exam'.phase = loc[w].phase
        BY <4>2 DEF TypeOK, ExamObjects
      <4>4. Contract!MayFollow(exam.phase, exam'.phase, exam.spec, clock)
        BY <3>2, PhaseStep
      <4>5. Past(exam'.phase, 3) => exam'.phase = "Ready" \/ Past(exam.phase, 3)
        BY <3>2, <4>4, RankValues DEF Contract!MayFollow, Past
      <4>6. QED
        BY <2>0, <4>2, <4>3, <4>5
    <3>3. QED
      BY <3>1, <3>2
  <2>2. ASSUME NEW v \in Workers PROVE Provided(v)'
    <3>1. CASE UNCHANGED <<pc, loc, todo>>
      BY <2>0, <3>1
    <3>2. CASE pc'[v] \notin {"provision", "status"}
      BY <3>2
    <3>3. CASE Environment
      <4>1. ASSUME NEW w \in Workers, Crash(w) PROVE pc'[v] = "idle"
        BY <4>1 DEF Crash, Return, TypeOK, Solo
      <4>2. QED
        BY <3>1, <3>2, <3>3, <4>1 DEF Environment, Tick, DeleteExam, EditSpec, UserStore,
           NamespaceGone, DeploymentReady, Drift, InformerSync, worker
    <3>4. ASSUME Reconcile(v) PROVE Provided(v)'
      <4>1. CASE provisionInstance(v)
        <5>1. PICK i \in todo[v], n \in 0..4 :
                /\ IF n < 4 /\ ns = "active" THEN OneFault ELSE NoFault
                /\ objs' = objs \cup Create({ProvisionedKinds[k] : k \in 1..n}, i)
                /\ loc' = [loc EXCEPT ![v] = setInstanceStatus(@, i, n = 4)]
                /\ todo' = [todo EXCEPT ![v] = @ \ {i}]
          BY <4>1 DEF provisionInstance
        <5>2. pc[v] = "provision" /\ pc' = pc
          BY <4>1 DEF provisionInstance
        <5>3. n = 4 /\ ns = "active" /\ i \in Instances
          BY <1>0, <1>3, <5>1 DEF Calm, OneFault, Charge, TypeOK
        <5>4. BasePolicies(i)'
          <6>1. {"denyAll", "egressAllow"} \subseteq {ProvisionedKinds[k] : k \in 1..4}
            BY DEF ProvisionedKinds
          <6>2. QED
            BY <5>1, <5>3, <6>1 DEF Create, BasePolicies
        <5>5. /\ loc'[v].inst[i] = "Provisioned"
              /\ \A j \in Instances \ {i} : loc'[v].inst[j] = loc[v].inst[j]
          <6>1. loc'[v] = setInstanceStatus(loc[v], i, TRUE) /\ loc[v] \in ExamObjects
            BY <5>1, <5>3 DEF TypeOK
          <6>2. loc'[v].inst = [j \in Instances |-> IF j = i THEN "Provisioned" ELSE loc[v].inst[j]]
            BY <6>1 DEF setInstanceStatus, ExamObjects
          <6>3. QED
            BY <5>3, <6>2
        <5>6. ASSUME NEW j \in Instances, j \notin todo'[v]
              PROVE  BasePolicies(j)' /\ loc'[v].inst[j] # "none"
          <6>1. CASE j = i
            BY <5>4, <5>5, <6>1
          <6>2. CASE j # i
            BY <2>0, <5>1, <5>2, <5>5, <5>6, <6>2 DEF TypeOK
          <6>3. QED
            BY <6>1, <6>2
        <5>7. QED
          BY <5>2, <5>6
      <4>2. CASE FinishProvisioning(v)
        BY <2>0, <4>2 DEF FinishProvisioning, Goto, TypeOK
      <4>3. CASE \/ sendNextPendingEmail(v) \/ ReadyContinue(v) \/ enforcePolicies(v)
                 \/ deleteIngresses(v) \/ NotifyInstructor(v) \/ reconcileTeardown(v)
        <5>1. pc[v] \in {"ready", "enforce", "deleteIngresses", "notify", "teardown"}
          BY <4>3 DEF sendNextPendingEmail, ReadyContinue, enforcePolicies, deleteIngresses,
             NotifyInstructor, reconcileTeardown
        <5>2. Past(exam.phase, 3)
          BY <5>1 DEF SoloInv, EntryInv, SameEntries
        <5>3. pc'[v] # "provision"
          BY <4>3 DEF sendNextPendingEmail, ReadyContinue, enforcePolicies, deleteIngresses,
             NotifyInstructor, reconcileTeardown, Goto, EnforceLabel, AfterEnforce, TypeOK
        <5>4. QED
          BY <2>0, <5>2, <5>3
      <4>4. CASE SlugError(v)
        <5>1. pc[v] = "provision" /\ pc'[v] = "status" /\ loc' = loc
          BY <4>4 DEF SlugError, Goto, TypeOK
        <5>2. loc[v].phase = "Provisioning"
          BY <5>1 DEF IInv, HandlerPhaseInv, HandlerPhaseOK
        <5>3. QED
          BY <5>1, <5>2
      <4>5. ASSUME NEW e \in ExamObjects, DecideOn(v, e) PROVE Provided(v)'
        <5> DEFINE d == determineDesiredPhase(e.phase, e.spec, clock)
        <5>1. d \in ExamPhases
          BY DesiredPhaseType DEF ExamObjects
        <5>2. loc'[v].phase = d /\ pc'[v] = HandlerLabel(e, d)
          BY <4>5 DEF DecideOn, Goto, TypeOK, ExamObjects
        <5> HIDE DEF d
        <5>3. pc'[v] # "provision" /\ (d = "Ready" => pc'[v] = "ready")
          BY <5>1, <5>2, HandlerEntry DEF HandlerLabel
        <5>4. QED
          BY <5>2, <5>3
      <4>6. CASE Get(v)
        <5>1. CASE cache[v].finalizer /\ ~cache[v].deleting
          BY <4>5, <4>6, <5>1 DEF Get, TypeOK
        <5>2. CASE ~(cache[v].finalizer /\ ~cache[v].deleting)
          BY <3>2, <4>6, <5>2 DEF Get, Goto, TypeOK
        <5>3. QED
          BY <5>1, <5>2
      <4>7. CASE Decide(v)
        BY <4>5, <4>7 DEF Decide, TypeOK
      <4>8. CASE AddFinalizer(v) \/ StatusUpdate(v) \/ RemoveFinalizer(v) \/ FinalizeDelete(v)
        BY <3>2, <4>8 DEF AddFinalizer, StatusUpdate, RemoveFinalizer, FinalizeDelete,
           ReturnNoWrite, Return, Goto, TypeOK
      <4>9. QED
        BY <1>1, <3>1, <3>4, <4>1, <4>2, <4>3, <4>4, <4>6, <4>7, <4>8 DEF Reconcile, GetNothing, vars
    <3>5. ASSUME NEW w \in Workers, Reconcile(w) PROVE Reconcile(v)
      BY <3>5 DEF Solo
    <3>6. QED
      BY <3>1, <3>3, <3>4, <3>5 DEF Next, vars
  <2>3. QED
    BY <2>0, <2>1, <2>2
<1>4. QED
  BY <1>2, <1>3
\* While it is calm and the Exam is stored as Unlocked, only a reconcile that
\* locks deletes routes, and none does before the lock time.
LEMMA StaysOpenNext ==
  ASSUME Solo, TypeOK, TypeOK', IInv, SoloInv, UneditedInv, StaysOpen, [Next]_vars,
         \A v \in Workers : UnlockFinal(v)
  PROVE  StaysOpen'
<1> SUFFICES ASSUME Calm', exam'.phase = "Unlocked", clock' < LockTime(exam'.spec)
             PROVE  AccessKinds \X collectSlugs(exam') \subseteq objs'
  BY DEF StaysOpen, collectSlugs
<1>0. /\ exam \in ExamObjects /\ LockTime(exam.spec) \in Int /\ clock \in Int /\ clock' \in Int
      /\ faults' = 0 /\ ns' = "active"
  <2>1. exam.spec \in Specs
    BY DEF TypeOK, ExamObjects
  <2>2. QED
    BY <2>1, ScheduleType, ControllerAssumption DEF TypeOK, Calm
<1>1. /\ faults = 0 /\ edits = 0 /\ exam.present /\ ~exam.deleting
      /\ exam'.spec = exam.spec /\ clock <= clock'
  BY CalmBefore
<1>2. clock < LockTime(exam.spec)
  BY <1>0, <1>1
<1>3. CASE exam.phase # "Unlocked"
  <2>1. PICK w \in Workers : StatusUpdate(w) /\ ~ReturnNoWrite(w)
    BY <1>3, StatusWriter
  <2>2. /\ pc[w] = "status" /\ fresh[w] /\ objs' = objs
        /\ exam' = [exam EXCEPT !.phase = loc[w].phase, !.inst = loc[w].inst,
                                !.mail = loc[w].mail, !.conds = loc[w].conds]
    BY <2>1 DEF StatusUpdate, Store, Conflict, cluster
  <2>3. exam'.phase = loc[w].phase /\ exam'.inst = loc[w].inst
    BY <1>0, <2>2 DEF ExamObjects
  <2>4. AccessKinds \X collectSlugs(loc[w]) \subseteq objs
    BY <1>1, <2>2, <2>3 DEF SoloInv, RouteInv, OpeningInv
  <2>5. QED
    BY <2>2, <2>3, <2>4, SlugsOf
<1>4. CASE exam.phase = "Unlocked"
  <2>0. Past(exam.phase, 3) /\ Past(exam.phase, 4)
    BY <1>4, RankValues DEF Past
  <2>1. Calm
    <3>1. ns = "active"
      BY <1>1, <1>4, <2>0, RankValues DEF IInv, StoredInv, Kept, Past
    <3>2. QED
      BY <1>1, <3>1 DEF Calm
  <2>2. AccessKinds \X collectSlugs(exam) \subseteq objs
    BY <1>2, <1>4, <2>1 DEF StaysOpen
  <2>3. collectSlugs(exam') = collectSlugs(exam)
    <3>1. CASE exam'.inst = exam.inst
      BY <3>1, SlugsOf
    <3>2. CASE exam'.inst # exam.inst
      <4>1. PICK w \in Workers : StatusUpdate(w) /\ ~ReturnNoWrite(w)
        BY <3>2, StatusWriter
      <4>2. /\ pc[w] = "status" /\ fresh[w]
            /\ exam' = [exam EXCEPT !.phase = loc[w].phase, !.inst = loc[w].inst,
                                    !.mail = loc[w].mail, !.conds = loc[w].conds]
        BY <4>1 DEF StatusUpdate, Store, Conflict
      <4>3. collectSlugs(loc[w]) = collectSlugs(exam)
        BY <2>0, <4>2 DEF SoloInv, EntryInv, SameEntries
      <4>4. exam'.inst = loc[w].inst
        BY <1>0, <4>2 DEF ExamObjects
      <4>5. QED
        BY <4>3, <4>4, SlugsOf
    <3>3. QED
      BY <3>1, <3>2
  <2>4. ASSUME NEW w \in Workers, pc[w] \in InHandler
        PROVE  Past(loc[w].phase, 4) /\ ~Past(loc[w].phase, 5)
    <3>1. Past(loc[w].phase, 4)
      BY <1>1, <2>0, <2>4 DEF UnlockFinal
    <3>2. OnTime(loc[w].phase)
      BY <1>1, <2>4 DEF UneditedInv, UneditedCopy
    <3>3. QED
      BY <1>0, <1>2, <3>1, <3>2 DEF OnTime
  <2>5. objs \cap AccessObjects \subseteq objs'
    <3>1. CASE Environment
      <4>1. ~(\E o \in objs : Drift(o)) /\ ~NamespaceGone
        BY <1>0, <1>1 DEF Drift, OneFault, Charge, NamespaceGone
      <4>2. QED
        BY <3>1, <4>1 DEF Environment, Tick, DeleteExam, EditSpec, UserStore, DeploymentReady,
           InformerSync, Crash, cluster
    <3>2. ASSUME NEW w \in Workers, enforcePolicies(w) PROVE objs \subseteq objs'
      <4>1. pc[w] = "enforce"
        BY <3>2 DEF enforcePolicies
      <4>2. loc[w].phase = "Unlocked"
        BY <2>4, <4>1, RankValues DEF IInv, HandlerPhaseInv, HandlerPhaseOK, InHandler, Past
      <4>3. EnforceDeletes(w) = {}
        BY <4>2 DEF EnforceDeletes, Unlocking
      <4>4. QED
        BY <3>2, <4>3 DEF enforcePolicies
    <3>3. ASSUME NEW w \in Workers, deleteIngresses(w) \/ FinishProvisioning(w) PROVE FALSE
      <4>1. pc[w] \in {"deleteIngresses", "provision"}
        BY <3>3 DEF deleteIngresses, FinishProvisioning
      <4>2. loc[w].phase \in {"Locked", "Provisioning"}
        BY <4>1 DEF IInv, HandlerPhaseInv, HandlerPhaseOK
      <4>3. QED
        BY <2>4, <4>1, <4>2, RankValues DEF InHandler, Past
    <3>4. ASSUME NEW w \in Workers, Reconcile(w), ~enforcePolicies(w), ~deleteIngresses(w),
                 ~FinishProvisioning(w)
          PROVE  objs \subseteq objs'
      BY <3>4 DEF Reconcile, GetNothing, vars, Get, AddFinalizer, Decide, CreateNamespace,
         provisionInstance, SlugError, sendNextPendingEmail, ReadyContinue, NotifyInstructor,
         reconcileTeardown, FinalizeDelete, RemoveFinalizer, StatusUpdate, cluster
    <3>5. QED
      BY <3>1, <3>2, <3>3, <3>4 DEF Next, vars
  <2>6. AccessKinds \X collectSlugs(exam) \subseteq AccessObjects
    BY DEF AccessObjects, collectSlugs
  <2>7. QED
    BY <2>2, <2>3, <2>5, <2>6
<1>5. QED
  BY <1>3, <1>4

\* A dispatch that keeps the phase finds everything in place.
LEMMA SteadyDispatch ==
  ASSUME TypeOK, SoloInv, UneditedInv, BaseInv, StaysOpen, Calm,
         exam.phase \in {"Ready", "Unlocked", "Locked"},
         determineDesiredPhase(exam.phase, exam.spec, clock) = exam.phase
  PROVE  AllInPlace
<1>0. /\ exam.spec.unlock \in Int /\ LockTime(exam.spec) \in Int /\ clock \in Int
      /\ edits = 0 /\ faults = 0
  <2>1. exam.spec \in Specs
    BY DEF TypeOK, ExamObjects
  <2>2. QED
    BY <2>1, ScheduleType, ControllerAssumption DEF TypeOK, Calm
<1>1. \A i \in Instances : BasePolicies(i)
  BY RankValues DEF BaseInv, Past
<1>2. collectSlugs(exam) \subseteq Instances
  BY DEF collectSlugs
<1>3. CASE exam.phase = "Ready"
  <2>1. clock < exam.spec.unlock
    BY <1>0, <1>3 DEF determineDesiredPhase, FromReady
  <2>2. objs \cap AccessObjects = {}
    BY <1>0, <2>1 DEF UneditedInv
  <2>3. QED
    BY <1>1, <1>2, <1>3, <2>2 DEF AllInPlace, InPlace, WantedKinds, BasePolicies,
       AccessObjects, AccessKinds
<1>4. CASE exam.phase = "Unlocked"
  <2>1. clock < LockTime(exam.spec)
    BY <1>0, <1>4 DEF determineDesiredPhase, FromUnlocked
  <2>2. AccessKinds \X collectSlugs(exam) \subseteq objs
    BY <1>4, <2>1 DEF StaysOpen
  <2>3. QED
    BY <1>1, <1>2, <1>4, <2>2 DEF AllInPlace, InPlace, WantedKinds, EnforcedKinds, BasePolicies
<1>5. CASE exam.phase = "Locked"
  <2>1. \A i \in Instances : <<"ingressAllow", i>> \notin objs
    BY <1>0, <1>5 DEF SoloInv, RouteInv, LockedClosed
  <2>2. QED
    BY <1>1, <1>2, <1>5, <2>1 DEF AllInPlace, InPlace, WantedKinds, BasePolicies
<1>6. QED
  BY <1>3, <1>4, <1>5
\* What is in place for the phase of the copy stays so, whichever calls fail.
LEMMA EnforceKeeps ==
  ASSUME NEW w \in Workers, enforcePolicies(w) \/ deleteIngresses(w), loc[w].phase = exam.phase,
         pc[w] = "deleteIngresses" => exam.phase = "Locked",
         AllInPlace
  PROVE  AllInPlace'
<1>0. exam' = exam
  BY DEF enforcePolicies, deleteIngresses
<1>1. CASE deleteIngresses(w)
  <2>1. objs' \subseteq objs /\ \A o \in objs : o[1] # "ingress" => o \in objs'
    BY <1>1 DEF deleteIngresses, Ingresses
  <2>2. exam.phase = "Locked"
    BY <1>1 DEF deleteIngresses
  <2>3. WantedKinds("Locked") = {"denyAll", "egressAllow"}
    BY DEF WantedKinds
  <2>4. QED
    BY <1>0, <2>1, <2>2, <2>3 DEF AllInPlace, InPlace
<1>2. CASE enforcePolicies(w)
  <2>1. PICK i \in todo[w], failed \in SUBSET (EnforceCreates(w) \cup EnforceDeletes(w)) :
          objs' = (objs \cup Create(EnforceCreates(w) \ failed, i))
                    \ ((EnforceDeletes(w) \ failed) \X {i})
    BY <1>2 DEF enforcePolicies
  <2>2. CASE exam.phase = "Unlocked"
    <3>1. EnforceDeletes(w) = {}
      BY <2>2 DEF EnforceDeletes, Unlocking
    <3>2. objs \subseteq objs'
      BY <2>1, <3>1
    <3>3. QED
      BY <1>0, <2>2, <3>2 DEF AllInPlace, InPlace
  <2>3. CASE exam.phase # "Unlocked"
    <3>1. EnforceDeletes(w) = {"ingressAllow"} /\ EnforceCreates(w) = {"denyAll", "egressAllow"}
      BY <2>3 DEF EnforceDeletes, EnforceCreates, Unlocking
    <3>2. /\ \A o \in objs : o[1] # "ingressAllow" => o \in objs'
          /\ \A o \in objs' : o \in objs \/ o[1] \in {"denyAll", "egressAllow"}
      BY <2>1, <3>1 DEF Create
    <3>3. WantedKinds(exam.phase) = {"denyAll", "egressAllow"}
      BY <2>3 DEF WantedKinds
    <3>4. QED
      BY <1>0, <2>3, <3>2, <3>3 DEF AllInPlace, InPlace
  <2>4. QED
    BY <2>2, <2>3
<1>3. QED
  BY <1>1, <1>2

LEMMA SteadyNext ==
  ASSUME Solo, TypeOK, TypeOK', IInv, SoloInv, UneditedInv, BaseInv, StaysOpen, [Next]_vars,
         NEW v \in Workers, SteadyInv(v)
  PROVE  SteadyInv(v)'
<1> DEFINE Late == {"ready", "enforce", "deleteIngresses", "notify", "status"}
<1> SUFFICES ASSUME Calm', exam'.phase \in {"Ready", "Unlocked", "Locked"}, fresh'[v],
                    loc'[v].phase = exam'.phase, pc'[v] \in Late
             PROVE  AllInPlace'
  BY DEF SteadyInv
<1>0. exam \in ExamObjects /\ faults' = 0 /\ ns' = "active"
  BY DEF TypeOK, Calm
<1>1. /\ faults = 0 /\ edits = 0 /\ exam.present /\ ~exam.deleting
  BY CalmBefore
<1>2. ASSUME exam' = exam, AllInPlace, objs' = objs
      PROVE  AllInPlace'
  BY <1>2 DEF AllInPlace, InPlace
<1>3. Calm \/ \E w \in Workers : CreateNamespace(w)
  BY CalmBefore
<1>4. ASSUME CreateNamespace(v) \/ SlugError(v) PROVE FALSE
  <2>1. pc[v] \in {"namespace", "provision"} /\ loc' = loc
    BY <1>4 DEF CreateNamespace, SlugError
  <2>2. loc[v].phase = "Provisioning"
    BY <2>1 DEF IInv, HandlerPhaseInv, HandlerPhaseOK
  <2>3. QED
    BY <2>1, <2>2
<1>5. ~(\E w \in Workers : CreateNamespace(w)) /\ Calm
  BY <1>3, <1>4 DEF Solo
<1>6. CASE pc[v] \in Late /\ fresh[v] /\ loc[v].phase = exam.phase /\ exam' = exam /\ objs' = objs
  <2>1. AllInPlace
    BY <1>5, <1>6 DEF SteadyInv
  <2>2. QED
    BY <1>2, <1>6, <2>1
<1>7. CASE Environment
  <2>1. ~(\E o \in objs : Drift(o)) /\ ~NamespaceGone
    BY <1>0, <1>1 DEF Drift, OneFault, Charge, NamespaceGone
  <2>2. ~(\E s \in Specs : EditSpec(s)) /\ ~DeleteExam
    BY CalmEdits
  <2>3. ASSUME NEW w \in Workers, Crash(w) PROVE FALSE
    BY <2>3 DEF Crash, Return, TypeOK, Solo
  <2>4. UNCHANGED <<pc, fresh, loc, exam, objs>>
    BY <1>7, <2>1, <2>2, <2>3 DEF Environment, Tick, DeploymentReady, InformerSync, cluster, worker
  <2>5. QED
    BY <1>6, <2>4
<1>8. ASSUME NEW e \in ExamObjects, DecideOn(v, e), fresh'[v] => e = exam,
             UNCHANGED <<exam, objs>>
      PROVE  AllInPlace'
  <2>1. loc'[v].phase = determineDesiredPhase(exam.phase, exam.spec, clock)
    BY <1>8 DEF DecideOn, TypeOK, ExamObjects
  <2>2. AllInPlace
    BY <1>5, <1>8, <2>1, SteadyDispatch
  <2>3. QED
    BY <1>2, <1>8, <2>2
<1>9. ASSUME Reconcile(v) PROVE AllInPlace'
  <2>0. /\ cache[v] \in ExamObjects /\ loc[v] \in ExamObjects
        /\ CacheInv(v) /\ FreshInv(v) /\ HandlerPhaseOK(v)
    BY DEF TypeOK, IInv, WorkerInv, HandlerPhaseInv
  <2>1. CASE Get(v)
    <3>1. cache[v].finalizer /\ ~cache[v].deleting
      BY <2>1 DEF Get, Goto, TypeOK
    <3>2. DecideOn(v, cache[v]) /\ fresh'[v] = synced[v] /\ UNCHANGED <<exam, objs>>
      BY <2>1, <3>1 DEF Get, TypeOK, cluster
    <3>3. QED
      BY <1>8, <2>0, <3>2 DEF CacheInv
  <2>2. CASE Decide(v)
    <3>1. DecideOn(v, loc[v]) /\ fresh' = fresh /\ UNCHANGED <<exam, objs>> /\ pc[v] = "decide"
      BY <2>2 DEF Decide, cluster
    <3>2. QED
      BY <1>8, <2>0, <3>1 DEF FreshInv, BeforeDispatch
  <2>3. CASE provisionInstance(v)
    BY <2>3 DEF provisionInstance
  <2>4. CASE FinishProvisioning(v)
    <3>1. /\ pc[v] = "provision" /\ fresh' = fresh /\ exam' = exam
          /\ loc[v].phase = "Provisioning"
      BY <2>0, <2>4 DEF FinishProvisioning, HandlerPhaseOK
    <3>2. exam.phase \notin {"Ready", "Unlocked", "Locked"}
      BY <2>0, <3>1 DEF FreshInv, InHandler, Contract!MayFollow
    <3>3. QED
      BY <3>1, <3>2
  <2>5. CASE enforcePolicies(v) \/ deleteIngresses(v)
    <3>1. /\ pc[v] \in {"enforce", "deleteIngresses"} /\ fresh' = fresh /\ exam' = exam
          /\ loc' = loc
      BY <2>5 DEF enforcePolicies, deleteIngresses
    <3>2. AllInPlace
      BY <1>5, <3>1 DEF SteadyInv
    <3>3. pc[v] = "deleteIngresses" => exam.phase = "Locked"
      BY <2>0, <3>1 DEF HandlerPhaseOK
    <3>4. QED
      BY <2>5, <3>1, <3>2, <3>3, EnforceKeeps
  <2>6. CASE sendNextPendingEmail(v) \/ ReadyContinue(v) \/ NotifyInstructor(v)
    <3>1. /\ pc[v] \in {"ready", "notify"} /\ fresh' = fresh /\ exam' = exam /\ objs' = objs
      BY <2>6 DEF sendNextPendingEmail, ReadyContinue, NotifyInstructor, cluster
    <3>2. loc'[v].phase = loc[v].phase
      BY <2>6, <3>1, HandlerCopy
    <3>3. QED
      BY <1>6, <3>1, <3>2
  <2>7. CASE reconcileTeardown(v)
    <3>1. pc[v] = "teardown" /\ loc' = loc
      BY <2>7 DEF reconcileTeardown
    <3>2. QED
      BY <2>0, <3>1 DEF HandlerPhaseOK
  <2>8. CASE AddFinalizer(v) \/ StatusUpdate(v) \/ RemoveFinalizer(v) \/ FinalizeDelete(v)
    <3>1. pc'[v] \in {"idle", "decide", "removeFinalizer"}
      BY <2>8 DEF AddFinalizer, StatusUpdate, RemoveFinalizer, FinalizeDelete,
         ReturnNoWrite, Return, Goto, TypeOK
    <3>2. QED
      BY <3>1
  <2>9. CASE GetNothing(v)
    BY <2>9 DEF GetNothing, vars
  <2>10. QED
    BY <1>4, <1>9, <2>1, <2>2, <2>3, <2>4, <2>5, <2>6, <2>7, <2>8, <2>9 DEF Reconcile
<1>10. CASE UNCHANGED vars
  BY <1>6, <1>10 DEF vars
<1>11. ASSUME NEW w \in Workers, Reconcile(w) PROVE Reconcile(v)
  BY <1>11 DEF Solo
<1>12. QED
  BY <1>7, <1>9, <1>10, <1>11 DEF Next

LEMMA CalmNext ==
  ASSUME Solo, TypeOK, TypeOK', IInv, SoloInv, MailInv, UneditedInv, CalmInv, [Next]_vars
  PROVE  CalmInv'
<1>1. BaseInv' /\ StaysOpen'
  BY BaseNext, StaysOpenNext DEF CalmInv
<1>2. \A v \in Workers : UnlockFinal(v)' /\ SteadyInv(v)'
  BY UnlockFinalNext, SteadyNext DEF CalmInv
<1>3. QED
  BY <1>1, <1>2 DEF CalmInv

LEMMA CalmInit == Init => CalmInv
<1> SUFFICES ASSUME Init PROVE CalmInv
  OBVIOUS
<1>1. exam.phase = "Unset" /\ ns = "absent" /\ ~Past(exam.phase, 4)
  BY RankValues DEF Init, NewExam, Past
<1>2. QED
  BY <1>1 DEF CalmInv, BaseInv, StaysOpen, UnlockFinal, SteadyInv, Calm

-----------------------------------------------------------------------------
(***************************************************************************)
(* What an undisturbed reconcile of the latest version leaves in place.    *)
(***************************************************************************)

\* An Exam that is in use with no more gone wrong than is tolerated was so
\* before the step, and a failure of the step is the first and only one.
LEMMA LiveBefore ==
  ASSUME TypeOK, TypeOK', IInv, Solo => SoloInv, UneditedInv, [Next]_vars, Live', exam' = exam
  PROVE  Live /\ (faults' # faults => Calm)
<1>0. /\ exam.present /\ ~exam.deleting /\ exam.phase \in {"Ready", "Unlocked", "Locked"}
      /\ ns' = "active" /\ Past(exam.phase, 3)
  BY RankValues DEF Live, Past
<1>1. /\ \/ faults' = 0 /\ Solo
         \/ faults' = 1 /\ Solo /\ edits' = 0
         \/ /\ faults' = 0 /\ edits' = 0
            /\ exam.phase = "Locked" => clock' < RetentionDeadline(exam.spec)
  BY DEF Live, Solo
<1>2. /\ faults \in Nat /\ faults <= faults' /\ (edits' = 0 => edits = 0) /\ clock <= clock'
      /\ faults' \in Int /\ clock \in Int /\ clock' \in Int /\ RetentionDeadline(exam.spec) \in Int
  <2>1. exam.spec \in Specs
    BY DEF TypeOK, ExamObjects
  <2>2. clock \in Int /\ clock' \in Int /\ faults' \in Int
    BY ControllerAssumption DEF TypeOK
  <2>3. QED
    BY <2>1, <2>2, ScheduleType, FaultsCounted, SpecKept
<1>3. ns = "active"
  <2>1. SUFFICES ASSUME ns # "active" PROVE FALSE
    OBVIOUS
  <2>2. clock' = clock /\ \E w \in Workers : CreateNamespace(w)
    BY <1>0, <2>1, NamespaceStep
  <2>3. CASE Solo
    <3>1. PICK w \in Workers : pc[w] = "namespace"
      BY <2>2 DEF CreateNamespace
    <3>2. QED
      BY <1>0, <2>1, <2>3, <3>1, NotRecreated
  <2>4. CASE ~Solo
    <3>1. exam.phase = "Locked"
      BY <1>0, <2>1, RankValues DEF IInv, StoredInv, Kept, Past
    <3>2. edits = 0 /\ clock < RetentionDeadline(exam.spec)
      BY <1>1, <1>2, <2>2, <2>4, <3>1
    <3>3. clock >= RetentionDeadline(exam.spec)
      BY <1>0, <2>1, <3>1, <3>2 DEF UneditedInv
    <3>4. QED
      BY <1>2, <3>2, <3>3
  <2>5. QED
    BY <2>3, <2>4
<1>4. \/ faults = 0 /\ Solo
      \/ faults = 1 /\ Solo /\ edits = 0
      \/ /\ faults = 0 /\ edits = 0
         /\ exam.phase = "Locked" => clock < RetentionDeadline(exam.spec)
  BY <1>1, <1>2
<1>5. faults' # faults => faults = 0 /\ Solo /\ edits = 0
  BY <1>1, <1>2
<1>6. QED
  BY <1>0, <1>3, <1>4, <1>5 DEF Live, Calm

\* Objects that do not change stay in place for an Exam that does not.
LEMMA SamePlaces ==
  ASSUME exam' = exam, objs' = objs
  PROVE  /\ \A i, p : InPlace(i, p)' <=> InPlace(i, p)
         /\ AllInPlace' <=> AllInPlace
         /\ NoIngress' <=> NoIngress
  BY DEF AllInPlace, NoIngress, InPlace

\* A step of somebody else.
LEMMA PlacedKeep ==
  ASSUME NEW v \in Workers, PlacedInv(v), Untouched(v), SameVersions(v), Watched(v),
         Live' /\ exam' = exam => Live
  PROVE  PlacedInv(v)'
<1> SUFFICES ASSUME Live', Undisturbed(v)', fresh'[v] \/ synced'[v]
             PROVE  PlacedInv(v)'
  BY DEF PlacedInv
<1>1. exam' = exam
  BY DEF SameVersions
<1>2. objs' = objs /\ Undisturbed(v) /\ Live
  BY <1>1 DEF Undisturbed, Watched, Untouched
<1>3. /\ pc'[v] = pc[v] /\ loc'[v] = loc[v] /\ todo'[v] = todo[v] /\ queue'[v] = queue[v]
      /\ result'[v] = result[v] /\ (fresh'[v] => fresh[v]) /\ (synced'[v] => synced[v])
  BY DEF Untouched, SameVersions
<1>4. QED
  BY <1>1, <1>2, <1>3 DEF PlacedInv, InPlace, AllInPlace, NoIngress

\* The dispatch: nothing has been visited yet, or there is nothing to visit.
LEMMA PlacedDispatch ==
  ASSUME TypeOK, NEW w \in Workers, NEW e \in ExamObjects, DecideOn(w, e),
         fresh'[w] => e = exam, exam' = exam
  PROVE  PlacedInv(w)'
<1> DEFINE d == determineDesiredPhase(e.phase, e.spec, clock)
<1>1. d \in ExamPhases
  BY DesiredPhaseType DEF ExamObjects
<1>2. /\ pc'[w] = HandlerLabel(e, d) /\ loc'[w].phase = d
      /\ d \in {"Unlocked", "Locked"} => todo'[w] = collectSlugs(e)
  BY DEF DecideOn, Goto, TypeOK, ExamObjects
<1> HIDE DEF d
<1>3. pc'[w] \in InHandler
  BY <1>1, <1>2, HandlerEntry
<1> SUFFICES ASSUME Live', Undisturbed(w)', fresh'[w], loc'[w].phase = exam'.phase
             PROVE  PlacedInv(w)'
  BY <1>3 DEF PlacedInv, InHandler
<1>4. e = exam /\ d = exam.phase /\ d \in {"Ready", "Unlocked", "Locked"}
  BY <1>2 DEF Live
<1>5. CASE d = "Ready"
  <2>1. pc'[w] = "ready"
    BY <1>2, <1>5 DEF HandlerLabel
  <2>2. QED
    BY <2>1 DEF PlacedInv
<1>6. CASE d \in {"Unlocked", "Locked"} /\ collectSlugs(exam) # {}
  <2>1. pc'[w] = "enforce" /\ todo'[w] = collectSlugs(exam)
    BY <1>2, <1>4, <1>6 DEF HandlerLabel, EnforceLabel
  <2>2. QED
    BY <2>1 DEF PlacedInv, collectSlugs
<1>7. CASE d \in {"Unlocked", "Locked"} /\ collectSlugs(exam) = {}
  <2>1. pc'[w] = AfterEnforce(d)
    BY <1>2, <1>4, <1>7 DEF HandlerLabel, EnforceLabel
  <2>2. AllInPlace'
    BY <1>7 DEF AllInPlace, collectSlugs
  <2>3. CASE d = "Unlocked"
    <3>1. NoIngress' /\ pc'[w] = "notify"
      BY <1>4, <2>1, <2>3 DEF NoIngress, AfterEnforce
    <3>2. QED
      BY <2>2, <3>1 DEF PlacedInv
  <2>4. CASE d = "Locked"
    <3>1. pc'[w] = "deleteIngresses"
      BY <2>1, <2>4 DEF AfterEnforce
    <3>2. QED
      BY <2>2, <3>1 DEF PlacedInv
  <2>5. QED
    BY <1>7, <2>3, <2>4
<1>8. QED
  BY <1>4, <1>5, <1>6, <1>7

\* enforcePolicies has put the policies of an instance in place; when a call
\* fails, everything was in place before.
LEMMA PlacedEnforce ==
  ASSUME TypeOK, NEW w \in Workers, enforcePolicies(w), PlacedInv(w), SteadyInv(w),
         Live, Undisturbed(w), faults' # faults => Calm, objs' = objs,
         HandlerPhaseOK(w), fresh[w], loc[w].phase = exam.phase
  PROVE  PlacedInv(w)'
<1>1. PICK i \in todo[w], failed \in SUBSET (EnforceCreates(w) \cup EnforceDeletes(w)) :
        /\ IF failed = {} THEN NoFault ELSE OneFault
        /\ objs' = (objs \cup Create(EnforceCreates(w) \ failed, i))
                     \ ((EnforceDeletes(w) \ failed) \X {i})
        /\ todo' = [todo EXCEPT ![w] = @ \ {i}]
        /\ Goto(w, EnforceLabel(todo[w] \ {i}, loc[w].phase))
  BY DEF enforcePolicies
<1>2. /\ pc[w] = "enforce" /\ UNCHANGED <<exam, loc, fresh>>
      /\ exam.phase \in {"Ready", "Unlocked", "Locked"}
      /\ ns = "active" /\ todo'[w] = todo[w] \ {i}
      /\ pc'[w] = EnforceLabel(todo[w] \ {i}, exam.phase)
  BY <1>1 DEF enforcePolicies, Live, Goto, TypeOK
<1>3. InPlace(i, exam.phase) \/ AllInPlace
  <2>1. CASE failed = {}
    <3>1. CASE exam.phase = "Unlocked"
      <4>1. EnforceCreates(w) = EnforcedKinds /\ EnforceDeletes(w) = {}
        BY <3>1 DEF EnforceCreates, EnforceDeletes, EnforcedKinds, Unlocking
      <4>2. EnforcedKinds \X {i} \subseteq objs
        BY <1>1, <1>2, <2>1, <4>1 DEF Create
      <4>3. QED
        BY <3>1, <4>2 DEF InPlace, WantedKinds
    <3>2. CASE exam.phase # "Unlocked"
      <4>1. EnforceCreates(w) = {"denyAll", "egressAllow"} /\ EnforceDeletes(w) = {"ingressAllow"}
        BY <3>2 DEF EnforceCreates, EnforceDeletes, Unlocking
      <4>2. /\ {"denyAll", "egressAllow"} \X {i} \subseteq objs
            /\ <<"ingressAllow", i>> \notin objs
        BY <1>1, <1>2, <2>1, <4>1 DEF Create
      <4>3. QED
        BY <3>2, <4>2 DEF InPlace, WantedKinds
    <3>3. QED
      BY <3>1, <3>2
  <2>2. CASE failed # {}
    <3>1. Calm
      BY <1>1, <2>2, ControllerAssumption DEF OneFault, Charge, TypeOK
    <3>2. QED
      BY <1>2, <3>1 DEF SteadyInv
  <2>3. QED
    BY <2>1, <2>2
<1>4. \A j \in collectSlugs(exam) \ (todo[w] \ {i}) : InPlace(j, exam.phase)
  <2>1. \A j \in collectSlugs(exam) \ todo[w] : InPlace(j, exam.phase)
    BY <1>2 DEF PlacedInv
  <2>2. QED
    BY <1>3, <2>1 DEF AllInPlace
<1>5. CASE todo[w] \ {i} # {}
  <2>1. pc'[w] = "enforce"
    BY <1>2, <1>5 DEF EnforceLabel
  <2>2. QED
    BY <1>2, <1>4, <2>1, SamePlaces DEF PlacedInv, InPlace
<1>6. CASE todo[w] \ {i} = {}
  <2>1. pc'[w] = AfterEnforce(exam.phase)
    BY <1>2, <1>6 DEF EnforceLabel
  <2>2. AllInPlace'
    BY <1>2, <1>4, <1>6, SamePlaces DEF AllInPlace
  <2>3. CASE exam.phase = "Locked"
    <3>1. pc'[w] = "deleteIngresses"
      BY <2>1, <2>3 DEF AfterEnforce
    <3>2. QED
      BY <2>2, <3>1 DEF PlacedInv
  <2>4. CASE exam.phase # "Locked"
    <3>1. NoIngress' /\ pc'[w] \in {"notify", "status"}
      BY <1>2, <2>1, <2>4 DEF NoIngress, AfterEnforce
    <3>2. QED
      BY <2>2, <3>1 DEF PlacedInv
  <2>5. QED
    BY <2>3, <2>4
<1>7. QED
  BY <1>5, <1>6

\* A reconcile that ends without an error and without having stored anything
\* new leaves everything in place.
LEMMA PlacedFinish ==
  ASSUME TypeOK, QueueTypeOK, NEW w \in Workers, Finish(w), PlacedInv(w), objs' = objs,
         ~event[w], Live', Undisturbed(w)', Live' /\ exam' = exam => Live
  PROVE  PlacedInv(w)'
<1>1. pc'[w] = "idle"
  BY DEF Finish, StatusUpdate, RemoveFinalizer, ReturnNoWrite, Return, TypeOK
<1>2. queue'[w] = IF Failed(w) \/ queue[w] = Now THEN Now ELSE result[w]
  BY DEF Finish, Requeue, QueueTypeOK
<1>3. ~Failed(w) /\ queue[w] # Now /\ queue'[w] = result[w] /\ result[w] # Now
  BY <1>2 DEF Undisturbed
<1>4. fresh[w] /\ ~OneFault
  BY <1>3, ControllerAssumption DEF Failed, Conflict, OneFault, Charge, TypeOK
<1> SUFFICES ASSUME synced'[w], queue'[w] # Paused
             PROVE  (AllInPlace /\ NoIngress)'
  BY <1>1 DEF PlacedInv
<1>5. StatusUpdate(w)
  <2>1. ~(AddFinalizer(w) /\ pc'[w] = "idle")
    BY <1>4 DEF AddFinalizer, Conflict, Goto, TypeOK
  <2>2. ~(FinalizeDelete(w) /\ pc'[w] = "idle")
    BY <1>4 DEF FinalizeDelete, Goto, TypeOK
  <2>3. ASSUME RemoveFinalizer(w) PROVE FALSE
    <3>1. exam' = [exam EXCEPT !.present = FALSE, !.finalizer = FALSE]
      BY <1>4, <2>3 DEF RemoveFinalizer, Conflict, Store
    <3>2. ~exam'.present
      BY <3>1 DEF TypeOK, ExamObjects
    <3>3. QED
      BY <3>2 DEF Live
  <2>4. QED
    BY <2>1, <2>2, <2>3 DEF Finish
<1>6. /\ pc[w] = "status" /\ Store(exam')
      /\ exam' = [exam EXCEPT !.phase = loc[w].phase, !.inst = loc[w].inst,
                              !.mail = loc[w].mail, !.conds = loc[w].conds]
  BY <1>4, <1>5 DEF StatusUpdate, Conflict, Store
<1>7. exam' = exam /\ loc[w].phase = exam.phase
  <2>1. exam' = exam
    BY <1>6 DEF Store
  <2>2. exam'.phase = loc[w].phase
    BY <1>6 DEF TypeOK, ExamObjects
  <2>3. QED
    BY <2>1, <2>2
<1>8. AllInPlace /\ NoIngress
  BY <1>3, <1>4, <1>6, <1>7 DEF PlacedInv, Undisturbed
<1>9. QED
  BY <1>7, <1>8, SamePlaces

\* Every step of w's own reconcile.
LEMMA PlacedReconcile ==
  ASSUME TypeOK, TypeOK', QueueTypeOK, IInv, EntryInv, Solo => SoloInv, UneditedInv, CalmInv,
         NEW w \in Workers, PlacedInv(w), QueueReconcile(w)
  PROVE  PlacedInv(w)'
<1>0. /\ cache[w] \in ExamObjects /\ loc[w] \in ExamObjects
      /\ CacheInv(w) /\ FreshInv(w) /\ HandlerPhaseOK(w) /\ SameEntries(w) /\ SteadyInv(w)
  BY DEF TypeOK, IInv, WorkerInv, HandlerPhaseInv, EntryInv, CalmInv
<1> SUFFICES ASSUME Live', Undisturbed(w)'
             PROVE  PlacedInv(w)'
  BY DEF PlacedInv
<1>1. [Next]_vars
  BY QueueReconcileStep DEF Next
<1>2. ~event[w] /\ objs' = objs
  BY ReconcileWatched DEF Undisturbed, Watched
<1>3. exam' = exam => Live /\ (faults' # faults => Calm)
  BY <1>1, LiveBefore
<1>4. CASE Start(w)
  <2>1. CASE GetNothing(w)
    <3>1. UNCHANGED vars /\ pc[w] = "idle" /\ (synced[w] => ~exam.present \/ exam.deleting)
      BY <1>0, <2>1 DEF GetNothing, CacheInv
    <3>2. pc' = pc /\ synced' = synced /\ exam' = exam
      BY <3>1 DEF vars
    <3>3. QED
      BY <3>1, <3>2 DEF PlacedInv, Live
  <2>2. CASE Get(w)
    <3>1. exam' = exam /\ (fresh'[w] => cache[w] = exam)
      BY <1>0, <2>2 DEF Get, TypeOK, CacheInv
    <3>2. CASE cache[w].finalizer /\ ~cache[w].deleting
      BY <1>0, <2>2, <3>1, <3>2, PlacedDispatch DEF Get
    <3>3. CASE ~(cache[w].finalizer /\ ~cache[w].deleting)
      <4>1. pc'[w] \in {"finalizeDelete", "addFinalizer"}
        BY <2>2, <3>3 DEF Get, Goto, TypeOK
      <4>2. QED
        BY <4>1 DEF PlacedInv
    <3>4. QED
      BY <3>2, <3>3
  <2>3. QED
    BY <1>4, <2>1, <2>2 DEF Start
<1>5. CASE Dispatch(w)
  <2>1. pc[w] = "decide" /\ DecideOn(w, loc[w]) /\ UNCHANGED <<exam, fresh>>
    BY <1>5 DEF Dispatch, Decide
  <2>2. fresh'[w] => loc[w] = exam
    BY <1>0, <2>1 DEF FreshInv, BeforeDispatch
  <2>3. QED
    BY <1>0, <2>1, <2>2, PlacedDispatch
<1>6. CASE HandlerError(w) \/ Pace(w)
  <2>1. result'[w] \in {Now, Paused} /\ pc'[w] = "status"
    BY <1>6 DEF HandlerError, Pace, CreateNamespace, SlugError, deleteIngresses,
       reconcileTeardown, sendNextPendingEmail, Goto, Returns, QueueTypeOK, TypeOK
  <2>2. QED
    BY <2>1 DEF PlacedInv
<1>7. CASE Poll(w)
  <2>1. pc[w] = "provision" /\ pc'[w] = "status" /\ UNCHANGED <<exam, fresh>>
    BY <1>7 DEF Poll, FinishProvisioning, Goto, TypeOK
  <2>2. fresh[w] => exam.phase \notin {"Ready", "Unlocked", "Locked"}
    BY <1>0, <2>1 DEF FreshInv, HandlerPhaseOK, InHandler, Contract!MayFollow
  <2>3. QED
    BY <2>1, <2>2 DEF PlacedInv, Live
<1>8. CASE Wait(w)
  <2>1. /\ pc[w] = "ready" /\ UNCHANGED <<exam, fresh>> /\ loc[w].phase = "Ready"
        /\ todo'[w] = collectSlugs(exam)
        /\ pc'[w] = EnforceLabel(collectSlugs(exam), "Ready")
    BY <1>0, <1>8 DEF Wait, ReadyContinue, SameEntries, HandlerPhaseOK, Goto, TypeOK
  <2>2. CASE collectSlugs(exam) # {}
    <3>1. pc'[w] = "enforce"
      BY <2>1, <2>2 DEF EnforceLabel
    <3>2. collectSlugs(exam') = todo'[w]
      BY <2>1
    <3>3. QED
      BY <3>1, <3>2 DEF PlacedInv, collectSlugs
  <2>3. CASE collectSlugs(exam) = {}
    <3>1. loc'[w].phase = "Ready" /\ pc'[w] = "status"
      <4>1. loc'[w].phase = loc[w].phase
        BY <1>8, <2>1, HandlerCopy DEF Wait
      <4>2. QED
        BY <2>1, <2>3, <4>1 DEF EnforceLabel, AfterEnforce
    <3>2. AllInPlace'
      BY <2>1, <2>3 DEF AllInPlace, collectSlugs
    <3>3. QED
      BY <3>1, <3>2 DEF PlacedInv, NoIngress
  <2>4. QED
    BY <2>2, <2>3
<1>9. CASE Finish(w)
  BY <1>2, <1>3, <1>9, PlacedFinish
<1>10. ASSUME Work(w) PROVE PlacedInv(w)'
  <2>0. queue' = queue /\ result' = result /\ Undisturbed(w)
    BY <1>2, <1>10 DEF Work, Undisturbed
  <2>1. CASE \/ AddFinalizer(w) /\ pc'[w] = "decide"
             \/ CreateNamespace(w) /\ pc'[w] = "provision"
             \/ provisionInstance(w)
             \/ FinalizeDelete(w) /\ pc'[w] = "removeFinalizer"
    BY <2>1 DEF PlacedInv, provisionInstance
  <2>2. CASE enforcePolicies(w)
    <3>1. UNCHANGED <<exam, loc, fresh>> /\ pc'[w] # "idle"
      BY <2>2 DEF enforcePolicies, Goto, EnforceLabel, AfterEnforce, TypeOK
    <3>2. CASE fresh[w] /\ loc[w].phase = exam.phase
      BY <1>0, <1>2, <1>3, <2>0, <2>2, <3>1, <3>2, PlacedEnforce
    <3>3. CASE ~(fresh[w] /\ loc[w].phase = exam.phase)
      BY <3>1, <3>3 DEF PlacedInv
    <3>4. QED
      BY <3>2, <3>3
  <2>3. CASE deleteIngresses(w) /\ pc'[w] = "notify"
    <3>1. /\ pc[w] = "deleteIngresses" /\ UNCHANGED <<exam, loc, fresh>>
          /\ AllListed(w)
      BY <1>10, <2>3 DEF Work, deleteIngresses, AddFinalizer, CreateNamespace, provisionInstance,
         enforcePolicies, NotifyInstructor, reconcileTeardown, FinalizeDelete
    <3>2. ASSUME fresh[w], loc[w].phase = exam.phase PROVE AllInPlace /\ NoIngress
      <4>1. AllInPlace
        BY <1>3, <2>0, <3>1, <3>2 DEF PlacedInv
      <4>2. Ingresses(objs') = {} /\ objs' = objs
        BY <1>2, <2>0, <3>1 DEF AllListed, Undisturbed
      <4>3. QED
        BY <4>1, <4>2 DEF Ingresses, NoIngress
    <3>3. fresh[w] /\ loc[w].phase = exam.phase => (AllInPlace /\ NoIngress)'
      BY <1>2, <3>1, <3>2, SamePlaces
    <3>4. QED
      BY <2>3, <3>1, <3>3 DEF PlacedInv
  <2>4. CASE NotifyInstructor(w)
    <3>1. pc[w] = "notify" /\ pc'[w] = "status" /\ UNCHANGED <<exam, fresh>>
      BY <2>4 DEF NotifyInstructor, Goto, TypeOK
    <3>2. loc'[w].phase = loc[w].phase
      BY <2>4, <3>1, HandlerCopy
    <3>3. fresh[w] /\ loc[w].phase = exam.phase => AllInPlace /\ NoIngress
      BY <1>3, <2>0, <3>1 DEF PlacedInv
    <3>4. fresh[w] /\ loc[w].phase = exam.phase => (AllInPlace /\ NoIngress)'
      BY <1>2, <3>1, <3>3, SamePlaces
    <3>5. QED
      BY <3>1, <3>2, <3>4 DEF PlacedInv
  <2>5. CASE reconcileTeardown(w)
    <3>1. pc[w] = "teardown" /\ pc'[w] = "status" /\ UNCHANGED <<exam, loc, fresh>>
      BY <2>5 DEF reconcileTeardown, Goto, TypeOK
    <3>2. loc[w].phase = "TearingDown"
      BY <1>0, <3>1 DEF HandlerPhaseOK
    <3>3. QED
      BY <3>1, <3>2 DEF PlacedInv, Live
  <2>6. QED
    BY <1>10, <2>1, <2>2, <2>3, <2>4, <2>5 DEF Work
<1>11. QED
  BY <1>4, <1>5, <1>6, <1>7, <1>8, <1>9, <1>10 DEF QueueReconcile

LEMMA PlacedNext ==
  ASSUME TypeOK, TypeOK', QueueTypeOK, IInv, EntryInv, Solo => SoloInv, UneditedInv, CalmInv,
         [QueueNext]_allVars, NEW v \in Workers, PlacedInv(v)
  PROVE  PlacedInv(v)'
<1>0. Live' /\ exam' = exam => Live
  BY QueueNextStep, LiveBefore
<1>1. CASE Outside
  BY <1>0, <1>1, OutsideFrame, PlacedKeep
<1>2. ASSUME NEW w \in Workers, QueueReconcile(w) PROVE PlacedInv(v)'
  <2>1. CASE v = w
    BY <1>2, <2>1, PlacedReconcile
  <2>2. CASE v # w
    BY <1>0, <1>2, <2>2, ReconcileFrame, ReconcileWatched, PlacedKeep
  <2>3. QED
    BY <2>1, <2>2
<1>3. ASSUME NEW w \in Workers,
             WatchExam(w) \/ WatchOwned(w) \/ PauseOver(w) \/ Restart(w)
      PROVE  PlacedInv(v)'
  <2>1. CASE v # w \/ PauseOver(w)
    BY <1>0, <1>3, <2>1, WatchFrame, PlacedKeep
  <2>2. CASE v = w /\ ~PauseOver(w)
    BY <1>3, <2>2, WatchFrame DEF PlacedInv, Undisturbed
  <2>3. QED
    BY <2>1, <2>2
<1>4. CASE UNCHANGED allVars
  BY <1>0, <1>4, PlacedKeep DEF allVars, vars, queueVars, Untouched, SameVersions, Watched
<1>5. QED
  BY <1>1, <1>2, <1>3, <1>4 DEF QueueNext

-----------------------------------------------------------------------------
\* The invariant for one manager, where there is only one.
LEMMA AloneIfSolo == Spec => [](Solo => SoloInv)
<1>1. CASE Solo
  <2>1. Spec => []SoloInv
    BY <1>1, Alone
  <2>2. QED
    BY <2>1, PTL
<1>2. CASE ~Solo
  <2>1. Solo => SoloInv
    BY <1>2
  <2>2. QED
    BY <2>1, PTL
<1>3. QED
  BY <1>1, <1>2

\* The invariant for the work queue holds: an unedited Exam keeps its times,
\* what an undisturbed reconcile has visited is in place, and it returns in
\* time or is followed by an event or a retry.
THEOREM QueueInvariance == QueueSpec => []QueueInv
<1>1. QueueInit => QueueInv
  <2>1. SUFFICES ASSUME QueueInit PROVE QueueInv
    OBVIOUS
  <2>2. ~Live
    BY <2>1 DEF QueueInit, Init, Live
  <2>3. QED
    BY <2>1, <2>2, QueueTypeInit, UneditedInit, QueueInitInit, CalmInit, WakeInit
       DEF QueueInv, PlacedInv
<1>2. ASSUME QueueInv, TypeOK, TypeOK', IInv, EntryInv, MailInv, Solo => SoloInv,
             [QueueNext]_allVars
      PROVE  QueueInv'
  <2>1. [Next]_vars
    BY <1>2, QueueNextStep
  <2>2. QueueTypeOK' /\ UneditedInv'
    BY <1>2, QueueTypeNext, UneditedNext DEF QueueInv
  <2>3. CalmInv'
    <3>1. CASE Solo
      BY <1>2, <2>1, <3>1, CalmNext DEF QueueInv
    <3>2. CASE ~Solo
      BY <3>2 DEF CalmInv, BaseInv, StaysOpen, UnlockFinal, SteadyInv, Calm, Solo
    <3>3. QED
      BY <3>1, <3>2
  <2>4. \A w \in Workers : WakeInv(w)'
    BY <1>2, WakeNext DEF QueueInv
  <2>5. \A w \in Workers : PlacedInv(w)'
    BY <1>2, PlacedNext DEF QueueInv
  <2>6. QED
    BY <2>2, <2>3, <2>4, <2>5 DEF QueueInv
<1>3. QueueInv /\ [](TypeOK /\ IInv /\ EntryInv /\ MailInv /\ (Solo => SoloInv))
        /\ [][QueueNext]_allVars
      => []QueueInv
  BY <1>2, PTL
<1>4. QED
  BY <1>1, <1>3, QueueImplementsController, TypeCorrect, Invariance, Entries, MailInvariance,
     AloneIfSolo, PTL DEF QueueSpec

\* The cluster follows the phase: once every manager is at rest, the instances
\* have exactly the policies and routes of the stored phase, whichever single
\* call failed or object was deleted, although enforcePolicies only logs its
\* errors and nobody retries them.
THEOREM Convergence == QueueSpec => []Converged
<1>1. ASSUME TypeOK, QueueInv, EntryInv, NoLostWakeup, WebhookEnabled => NoEarlyAccess
      PROVE  Converged
  <2>1. SUFFICES ASSUME \A w \in Workers : Settled(w), exam.present, ~exam.deleting,
                        exam.phase \in {"Ready", "Unlocked", "Locked"},
                        ns = "active", Tolerated
                 PROVE  /\ Wanted(exam) \subseteq objs
                        /\ objs \cap AccessObjects \subseteq Wanted(exam)
    BY DEF Converged
  <2>2. PICK w \in Workers : Settled(w)
    BY <2>1, ControllerAssumption
  <2>3. /\ pc[w] = "idle" /\ synced[w] /\ ~event[w] /\ queue[w] # Paused
        /\ queue[w] \notin 0..clock
    BY <2>2 DEF Settled, Available
  <2>4. /\ exam.spec.unlock \in Int /\ LockTime(exam.spec) \in Int
        /\ RetentionDeadline(exam.spec) \in Int /\ clock \in Nat
    <3>1. exam.spec \in Specs
      BY <1>1 DEF TypeOK, ExamObjects
    <3>2. QED
      BY <1>1, <3>1, ScheduleType, ControllerAssumption DEF TypeOK
  <2>5. queue[w] # Never /\ \A t \in Due(exam) : queue[w] <= t
    BY <1>1, <2>1, <2>2 DEF NoLostWakeup
  <2>6. queue[w] \in Nat /\ queue[w] > clock /\ queue[w] # Now
    <3>1. queue[w] \in Nat
      BY <1>1, <2>3, <2>5 DEF QueueInv, QueueTypeOK
    <3>2. QED
      BY <2>3, <2>4, <3>1 DEF Now
  <2>7. /\ exam.phase = "Ready" => clock < exam.spec.unlock
        /\ exam.phase = "Locked" => clock < RetentionDeadline(exam.spec)
    <3>1. exam.phase = "Ready" => exam.spec.unlock \in Due(exam)
      BY DEF Due, Wakeups
    <3>2. exam.phase = "Locked" => RetentionDeadline(exam.spec) \in Due(exam)
      BY DEF Due
    <3>3. \A t \in Due(exam) : t \in Int => clock < t
      BY <2>4, <2>5, <2>6
    <3>4. QED
      BY <2>4, <3>1, <3>2, <3>3
  <2>8. Live
    BY <2>1, <2>7 DEF Live, Tolerated
  <2>9. AllInPlace /\ NoIngress
    BY <1>1, <2>3, <2>6, <2>8 DEF QueueInv, PlacedInv, Undisturbed
  <2>10. Wanted(exam) \subseteq objs
    BY <2>9 DEF AllInPlace, InPlace, Wanted
  <2>11. ASSUME NEW k \in AccessKinds, NEW i \in Instances, <<k, i>> \in objs
         PROVE  k \in WantedKinds(exam.phase) /\ i \in collectSlugs(exam)
    <3>1. <<k, i>> \in objs \cap AccessObjects
      BY <2>11 DEF AccessObjects
    <3>2. i \in collectSlugs(exam)
      BY <1>1, <3>1 DEF EntryInv, KnownRoutes
    <3>3. exam.phase # "Ready"
      <4>1. clock >= exam.spec.unlock
        BY <1>1, <2>1, <3>1 DEF Tolerated, QueueInv, UneditedInv, NoEarlyAccess
      <4>2. QED
        BY <2>4, <2>7, <4>1
    <3>4. exam.phase # "Locked"
      BY <2>9, <2>11, <3>2 DEF AllInPlace, InPlace, NoIngress, AccessKinds
    <3>5. exam.phase = "Unlocked"
      BY <2>1, <3>3, <3>4
    <3>6. QED
      BY <3>2, <3>5 DEF WantedKinds, EnforcedKinds
  <2>12. objs \cap AccessObjects \subseteq Wanted(exam)
    BY <2>11 DEF AccessObjects, Wanted
  <2>13. QED
    BY <2>10, <2>12
<1>2. Spec => [](WebhookEnabled => NoEarlyAccess)
  <2>1. CASE WebhookEnabled
    <3>1. Spec => []NoEarlyAccess
      BY <2>1, Access
    <3>2. QED
      BY <3>1, PTL
  <2>2. CASE ~WebhookEnabled
    <3>1. WebhookEnabled => NoEarlyAccess
      BY <2>2
    <3>2. QED
      BY <3>1, PTL
  <2>3. QED
    BY <2>1, <2>2
<1>3. QED
  BY <1>1, <1>2, QueueInvariance, Woken, QueueImplementsController, TypeCorrect, Entries, PTL
=============================================================================
