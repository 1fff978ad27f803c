------------------------ MODULE ExamRefinementProofs ------------------------
(***************************************************************************)
(* ExamController implements ExamContract, and so never moves the stored   *)
(* phase backwards.  Every step of the controller is a step of the         *)
(* contract on the stored Exam and the routes, or leaves both alone.       *)
(***************************************************************************)
EXTENDS ExamSafetyProofs

Routed == objs \cap AccessObjects

\* The webhook the contract speaks of is the one the controller runs behind.
LEMMA SameWebhook ==
  ASSUME NEW p, NEW s, NEW t, NEW now, ValidateUpdate(p, s, t, now)
  PROVE  Contract!ValidateUpdate(p, s, t, now)
  BY SameSchedule
  DEF ValidateUpdate, Contract!ValidateUpdate, validateFields, Contract!validateFields,
      EmailsFit, Contract!EmailsFit, SendInterval, Contract!SendInterval, OrDefault,
      Contract!OrDefault, effectiveMultiplier, Contract!effectiveMultiplier,
      SameAfterPending, Contract!SameAfterPending, LockFreeze, Contract!LockFreeze,
      SameLength, Contract!SameLength

LEMMA ContractInit == Init => Contract!Init
<1> SUFFICES ASSUME Init PROVE Contract!Init
  OBVIOUS
<1>1. exam.present = TRUE /\ exam.spec \in Specs /\ exam.phase = "Unset"
  BY DEF Init, NewExam
<1>2. QED
  BY <1>1 DEF Init, Contract!Init

\* A step that touches neither the Exam nor the clock and opens no route.
LEMMA Closing ==
  ASSUME UNCHANGED <<clock, exam>>, Routed' \subseteq Routed
  PROVE  Contract!Next
  BY DEF Contract!Next, Contract!CloseRoutes, Routed

\* Time, the instructor, the cluster and restarts.
LEMMA ContractEnvironment ==
  ASSUME TypeOK, IInv, WebhookEnabled, Environment
  PROVE  [Contract!Next]_Contract!vars
<1>1. CASE Tick
  <2>1. clock' = clock + 1 /\ exam' = exam /\ objs' = objs
    BY <1>1 DEF Tick, cluster
  <2>2. QED
    BY <2>1 DEF Contract!Next, Contract!Tick
<1>2. ASSUME NEW s \in Specs, EditSpec(s) PROVE Contract!Next
  <2>1. /\ exam' = [exam EXCEPT !.spec = s] /\ clock' = clock /\ objs' = objs
        /\ exam.present /\ ValidateUpdate(exam.phase, exam.spec, s, clock)
    BY <1>2 DEF EditSpec, UserStore, Store, cluster
  <2>2. exam'.phase = exam.phase /\ exam'.spec = s /\ exam'.present = exam.present
    BY <2>1 DEF TypeOK, ExamObjects
  <2>3. Contract!ValidateUpdate(exam.phase, exam.spec, exam'.spec, clock)
    BY <2>1, <2>2, SameWebhook
  <2>4. Contract!Reschedule
    BY <2>1, <2>2, <2>3 DEF Contract!Reschedule
  <2>5. QED
    BY <2>4 DEF Contract!Next
<1>3. CASE DeleteExam
  <2>1. /\ exam' = IF exam.finalizer THEN [exam EXCEPT !.deleting = TRUE]
                   ELSE [exam EXCEPT !.deleting = TRUE, !.present = FALSE]
        /\ clock' = clock /\ objs' = objs /\ exam.present
    BY <1>3 DEF DeleteExam, UserStore, Store, cluster
  <2>2. /\ exam'.phase = exam.phase /\ exam'.spec = exam.spec
        /\ exam'.present = exam.present \/ exam'.present = FALSE
    BY <2>1 DEF TypeOK, ExamObjects
  <2>3. QED
    BY <2>1, <2>2 DEF Contract!Next, Contract!Remove, Contract!vars
<1>4. CASE NamespaceGone
  BY <1>4, Closing DEF NamespaceGone, Routed
<1>5. ASSUME NEW i \in Instances, DeploymentReady(i) PROVE Contract!Next
  BY <1>5, Closing DEF DeploymentReady, Routed
<1>51. ASSUME NEW o \in objs, Drift(o) PROVE Contract!Next
  BY <1>51, Closing DEF Drift, Routed
<1>6. ASSUME NEW w \in Workers, InformerSync(w) \/ Crash(w) PROVE Contract!Next
  BY <1>6, Closing DEF InformerSync, Crash, cluster, Routed
<1>7. QED
  BY <1>1, <1>2, <1>3, <1>4, <1>5, <1>51, <1>6 DEF Environment

\* The steps that write the Exam.
LEMMA ContractWrite ==
  ASSUME TypeOK, TypeOK', IInv, NEW w \in Workers,
         AddFinalizer(w) \/ StatusUpdate(w) \/ RemoveFinalizer(w)
  PROVE  [Contract!Next]_Contract!vars
<1>0. FreshInv(w) /\ clock' = clock /\ objs' = objs
  BY DEF IInv, WorkerInv, AddFinalizer, StatusUpdate, RemoveFinalizer, cluster
<1>1. CASE ReturnNoWrite(w)
  BY <1>0, <1>1, Closing DEF ReturnNoWrite, Routed
<1>2. CASE ~ReturnNoWrite(w)
  <2>0. fresh[w] /\ exam.present
    BY <1>0, <1>2 DEF AddFinalizer, StatusUpdate, RemoveFinalizer, Conflict, FreshInv
  <2>1. CASE AddFinalizer(w)
    <3>1. exam' = [exam EXCEPT !.finalizer = TRUE]
      BY <1>2, <2>1 DEF AddFinalizer, Store
    <3>2. exam'.phase = exam.phase /\ exam'.spec = exam.spec /\ exam'.present = exam.present
      BY <3>1 DEF TypeOK, ExamObjects
    <3>3. QED
      BY <1>0, <3>2 DEF Contract!vars
  <2>2. CASE StatusUpdate(w)
    <3>1. /\ pc[w] = "status"
          /\ exam' = [exam EXCEPT !.phase = loc[w].phase, !.inst = loc[w].inst,
                                  !.mail = loc[w].mail, !.conds = loc[w].conds]
      BY <1>2, <2>2 DEF StatusUpdate, Store
    <3>2. /\ exam'.phase = loc[w].phase /\ exam'.spec = exam.spec
          /\ exam'.present = exam.present
      BY <3>1 DEF TypeOK, ExamObjects
    <3>3. Contract!MayFollow(exam.phase, exam'.phase, exam.spec, clock)
      BY <1>0, <2>0, <3>1, <3>2 DEF FreshInv, InHandler
    <3>4. exam'.phase \in Contract!ExamPhases
      BY DEF TypeOK, ExamObjects, ExamPhases, Contract!ExamPhases
    <3>5. Contract!Advance
      BY <1>0, <2>0, <3>2, <3>3, <3>4 DEF Contract!Advance
    <3>6. QED
      BY <3>5 DEF Contract!Next
  <2>3. CASE RemoveFinalizer(w)
    <3>1. exam' = [exam EXCEPT !.present = FALSE, !.finalizer = FALSE]
      BY <1>2, <2>3 DEF RemoveFinalizer, Store
    <3>2. exam'.phase = exam.phase /\ exam'.spec = exam.spec /\ exam'.present = FALSE
      BY <3>1 DEF TypeOK, ExamObjects
    <3>3. QED
      BY <1>0, <2>0, <3>2 DEF Contract!Next, Contract!Remove
  <2>4. QED
    BY <2>1, <2>2, <2>3
<1>3. QED
  BY <1>1, <1>2

\* enforcePolicies opens routes only for an unlocked exam, closes them else.
LEMMA ContractEnforce ==
  ASSUME TypeOK, TypeOK', IInv, WebhookEnabled, NEW w \in Workers, enforcePolicies(w)
  PROVE  Contract!Next
<1>1. PICK i \in todo[w], failed \in SUBSET (EnforceCreates(w) \cup EnforceDeletes(w)) :
        objs' = (objs \cup Create(EnforceCreates(w) \ failed, i))
                  \ ((EnforceDeletes(w) \ failed) \X {i})
  BY DEF enforcePolicies
<1>2. pc[w] = "enforce" /\ UNCHANGED <<clock, exam>>
  BY DEF enforcePolicies
<1>3. CASE loc[w].phase = "Unlocked"
  <2>1. clock >= exam.spec.unlock
    BY <1>2, <1>3, RankValues DEF IInv, WorkerInv, InFlightInv, InHandler, Past
  <2>2. Routed \subseteq Routed'
    BY <1>1, <1>3 DEF Routed, EnforceDeletes, Unlocking
  <2>3. QED
    BY <1>2, <2>1, <2>2 DEF Contract!Next, Contract!OpenRoutes, Routed
<1>4. CASE loc[w].phase # "Unlocked"
  <2>1. Create(EnforceCreates(w) \ failed, i) \cap AccessObjects = {}
    BY <1>4 DEF Create, EnforceCreates, Unlocking, AccessObjects, AccessKinds
  <2>2. Routed' \subseteq Routed
    BY <1>1, <2>1 DEF Routed
  <2>3. QED
    BY <1>2, <2>2, Closing
<1>5. QED
  BY <1>3, <1>4

\* provisionInstance creates no route.
LEMMA ContractProvision ==
  ASSUME TypeOK, NEW w \in Workers, provisionInstance(w)
  PROVE  Contract!Next
<1>1. PICK i \in todo[w], n \in 0..4 :
        objs' = objs \cup Create({ProvisionedKinds[k] : k \in 1..n}, i)
  BY DEF provisionInstance
<1>2. Create({ProvisionedKinds[k] : k \in 1..n}, i) \cap AccessObjects = {}
  BY ProvisionedKindsType DEF Create, AccessObjects
<1>3. UNCHANGED <<clock, exam>>
  BY DEF provisionInstance
<1>4. QED
  BY <1>1, <1>2, <1>3, Closing DEF Routed

LEMMA ContractNext ==
  ASSUME TypeOK, TypeOK', IInv, WebhookEnabled, [Next]_vars
  PROVE  [Contract!Next]_Contract!vars
<1>1. CASE Environment
  BY <1>1, ContractEnvironment
<1>2. ASSUME NEW w \in Workers, Reconcile(w) PROVE [Contract!Next]_Contract!vars
  <2>1. CASE AddFinalizer(w) \/ StatusUpdate(w) \/ RemoveFinalizer(w)
    BY <2>1, ContractWrite
  <2>2. CASE enforcePolicies(w)
    BY <2>2, ContractEnforce
  <2>3. CASE provisionInstance(w)
    BY <2>3, ContractProvision
  <2>4. CASE \/ Get(w) \/ Decide(w) \/ CreateNamespace(w) \/ sendNextPendingEmail(w)
             \/ ReadyContinue(w) \/ NotifyInstructor(w) \/ reconcileTeardown(w) \/ SlugError(w)
    BY <2>4, Closing DEF Get, SlugError, Decide, CreateNamespace, sendNextPendingEmail, ReadyContinue,
       NotifyInstructor, reconcileTeardown, cluster, Routed
  <2>5. CASE FinishProvisioning(w) \/ deleteIngresses(w)
    BY <2>5, Closing DEF FinishProvisioning, deleteIngresses, Routed
  <2>6. CASE FinalizeDelete(w)
    BY <2>6, Closing DEF FinalizeDelete, ReturnNoWrite, Routed
  <2>7. CASE GetNothing(w)
    BY <2>7, Closing DEF GetNothing, vars, Routed
  <2>8. QED
    BY <1>2, <2>1, <2>2, <2>3, <2>4, <2>5, <2>6, <2>7 DEF Reconcile
<1>3. CASE UNCHANGED vars
  BY <1>3 DEF vars, Contract!vars
<1>4. QED
  BY <1>1, <1>2, <1>3 DEF Next

\* The controller, with its caches, conflicts, failures, restarts and
\* overlapping managers, implements the contract.
THEOREM Refinement == ASSUME WebhookEnabled PROVE Spec => ImplementsContract
<1>1. TypeOK /\ TypeOK' /\ IInv /\ [Next]_vars => [Contract!Next]_Contract!vars
  BY ContractNext
<1>2. QED
  BY <1>1, ContractInit, Invariance, TypeCorrect, PTL
  DEF Spec, ImplementsContract, Contract!Spec

\* The only step that moves the stored phase is a status update, and it moves
\* it where the contract allows.
LEMMA PhaseStep ==
  ASSUME TypeOK, TypeOK', IInv, [Next]_vars
  PROVE  \/ exam'.phase = exam.phase
         \/ Contract!MayFollow(exam.phase, exam'.phase, exam.spec, clock)
<1>0. exam \in ExamObjects
  BY DEF TypeOK
<1>1. CASE Environment
  <2>1. \/ exam' = exam
        \/ \E s \in Specs : exam' = [exam EXCEPT !.spec = s]
        \/ exam' = [exam EXCEPT !.deleting = TRUE]
        \/ exam' = [exam EXCEPT !.deleting = TRUE, !.present = FALSE]
    BY <1>1 DEF Environment, Tick, DeleteExam, EditSpec, UserStore, Store, NamespaceGone,
       DeploymentReady, Drift, InformerSync, Crash
  <2>2. QED
    BY <1>0, <2>1 DEF ExamObjects
<1>2. ASSUME NEW w \in Workers, StatusUpdate(w)
      PROVE  \/ exam'.phase = exam.phase
             \/ Contract!MayFollow(exam.phase, exam'.phase, exam.spec, clock)
  <2>1. CASE ReturnNoWrite(w)
    BY <2>1 DEF ReturnNoWrite
  <2>2. CASE ~ReturnNoWrite(w)
    <3>1. /\ pc[w] = "status" /\ fresh[w]
          /\ exam' = [exam EXCEPT !.phase = loc[w].phase, !.inst = loc[w].inst,
                                  !.mail = loc[w].mail, !.conds = loc[w].conds]
      BY <1>2, <2>2 DEF StatusUpdate, Store, Conflict
    <3>2. exam'.phase = loc[w].phase
      BY <1>0, <3>1 DEF ExamObjects
    <3>3. QED
      BY <3>1, <3>2 DEF IInv, WorkerInv, FreshInv, InHandler
  <2>3. QED
    BY <2>1, <2>2
<1>3. ASSUME NEW w \in Workers, AddFinalizer(w) \/ RemoveFinalizer(w)
      PROVE  exam'.phase = exam.phase
  <2>1. \/ exam' = exam
        \/ exam' = [exam EXCEPT !.finalizer = TRUE]
        \/ exam' = [exam EXCEPT !.present = FALSE, !.finalizer = FALSE]
    BY <1>3 DEF AddFinalizer, RemoveFinalizer, Store, ReturnNoWrite
  <2>2. QED
    BY <1>0, <2>1 DEF ExamObjects
<1>4. ASSUME NEW w \in Workers, Reconcile(w), ~StatusUpdate(w), ~AddFinalizer(w),
             ~RemoveFinalizer(w)
      PROVE  exam' = exam
  BY <1>4 DEF Reconcile, GetNothing, vars, Get, Decide, CreateNamespace, provisionInstance,
     SlugError, FinishProvisioning, sendNextPendingEmail, ReadyContinue, enforcePolicies,
     deleteIngresses, NotifyInstructor, reconcileTeardown, FinalizeDelete, ReturnNoWrite
<1>5. CASE UNCHANGED vars
  BY <1>5 DEF vars
<1>6. QED
  BY <1>1, <1>2, <1>3, <1>4, <1>5 DEF Next

LEMMA PhaseForward ==
  ASSUME TypeOK, TypeOK', IInv, [Next]_vars
  PROVE  PhaseRank[exam'.phase] >= PhaseRank[exam.phase]
<1>1. exam.phase \in ExamPhases /\ exam'.phase \in ExamPhases
  BY DEF TypeOK, ExamObjects
<1>2. PhaseRank[exam.phase] \in 0..6 /\ PhaseRank[exam'.phase] \in 0..6
  BY <1>1, RankType
<1>3. QED
  BY <1>1, <1>2, PhaseStep, FollowRank

\* Whichever overlapping reconcile writes last, the stored phase never moves
\* backwards, with or without the webhook.
THEOREM Forward == Spec => PhaseMonotone
<1>1. TypeOK /\ TypeOK' /\ IInv /\ [Next]_vars
        => [PhaseRank[exam'.phase] >= PhaseRank[exam.phase]]_vars
  BY PhaseForward
<1>2. QED
  BY <1>1, Invariance, TypeCorrect, PTL DEF Spec, PhaseMonotone
=============================================================================
