--------------------------- MODULE ExamTypeProofs ---------------------------
(***************************************************************************)
(* Type correctness of ExamController, for every value of its constants.   *)
(***************************************************************************)
EXTENDS ExamInvariant, TLAPS

-----------------------------------------------------------------------------
(***************************************************************************)
(* What the operators of the model return.                                 *)
(***************************************************************************)

\* determineDesiredPhase returns a phase of the switch.
LEMMA DesiredPhaseType ==
  ASSUME NEW p \in ExamPhases, NEW s, NEW t
  PROVE  determineDesiredPhase(p, s, t) \in ExamPhases
  BY DEF determineDesiredPhase, FromPending, FromReady, FromUnlocked, FromLocked,
         ExamPhases

\* An Exam as the instructor creates it is a version of an Exam.
LEMMA NewExamType ==
  ASSUME NEW s \in Specs
  PROVE  NewExam(s) \in ExamObjects
  BY DEF NewExam, ExamObjects, ExamPhases, InstancePhases, EmailStatuses

LEMMA IdleCopyType == IdleCopy \in ExamObjects
<1>1. (CHOOSE s \in Specs : TRUE) \in Specs
  BY SpecsAssumption
<1>2. QED
  BY <1>1, NewExamType DEF IdleCopy

\* The dispatch leads to a label of the reconcile.
LEMMA LabelType ==
  /\ \A T, p : EnforceLabel(T, p) \in PCs
  /\ \A e, p : HandlerLabel(e, p) \in PCs
<1>1. \A T, p : EnforceLabel(T, p) \in PCs
  BY DEF EnforceLabel, AfterEnforce, PCs
<1>2. \A e, p : HandlerLabel(e, p) \in PCs
  BY <1>1 DEF HandlerLabel, PCs
<1>3. QED
  BY <1>1, <1>2

\* A provisioning attempt leaves a version of an Exam.
LEMMA InstanceStatusType ==
  ASSUME NEW e \in ExamObjects, NEW i \in Instances, NEW ok \in BOOLEAN
  PROVE  setInstanceStatus(e, i, ok) \in ExamObjects
<1> DEFINE result == IF ok THEN "Provisioned"
                     ELSE IF i \in Students THEN "Failed" ELSE e.inst[i]
<1>1. [j \in Instances |-> IF j = i THEN result ELSE e.inst[j]]
        \in [Instances -> InstancePhases]
  BY DEF ExamObjects, InstancePhases
<1>2. [j \in Students |-> IF j = i THEN "Pending" ELSE e.mail[j]]
        \in [Students -> EmailStatuses]
  BY DEF ExamObjects, EmailStatuses
<1>3. QED
  BY <1>1, <1>2 DEF setInstanceStatus, ExamObjects

\* Delivering a mail keeps the counts within their bound.
LEMMA DeliverType ==
  ASSUME mailbox \in [Mails -> 0..MailCap], NEW m, NEW b,
         sendEmail(m, b)
  PROVE  mailbox' \in [Mails -> 0..MailCap]
<1> SUFFICES ASSUME Send(m, b) PROVE mailbox' \in [Mails -> 0..MailCap]
  BY DEF sendEmail
<1>1. PICK n \in Cost(b)..(maxRetries + 1) : Deliver(m, n)
  BY DEF Send
<1>2. n \in Nat /\ MailCap \in Nat
  BY ControllerAssumption DEF Cost, maxRetries
<1>3. \A x \in 0..MailCap : (IF x + n < MailCap THEN x + n ELSE MailCap) \in 0..MailCap
  BY <1>2
<1>4. m \in Mails => mailbox[m] \in 0..MailCap
  OBVIOUS
<1>5. QED
  BY <1>1, <1>3, <1>4 DEF Deliver

\* The objects a provisioning attempt creates are objects of the model.
LEMMA CreateType ==
  ASSUME NEW K \in SUBSET Kinds, NEW i \in Instances
  PROVE  Create(K, i) \subseteq Objects
  BY DEF Create, Objects

LEMMA ProvisionedKindsType ==
  ASSUME NEW n \in 0..4
  PROVE  {ProvisionedKinds[k] : k \in 1..n} \subseteq Kinds \ AccessKinds
<1>1. \A k \in 1..n : k = 1 \/ k = 2 \/ k = 3 \/ k = 4
  OBVIOUS
<1>2. QED
  BY <1>1 DEF ProvisionedKinds, Kinds, AccessKinds

-----------------------------------------------------------------------------
(***************************************************************************)
(* Type correctness.                                                       *)
(***************************************************************************)

LEMMA TypeInit == Init => TypeOK
<1> SUFFICES ASSUME Init PROVE TypeOK
  OBVIOUS
<1>1. exam \in ExamObjects
  BY NewExamType DEF Init
<1>2. IdleCopy \in ExamObjects
  BY IdleCopyType
<1>3. QED
  BY <1>1, <1>2, ControllerAssumption DEF Init, TypeOK, PCs

\* Charging failed calls keeps their number within its bound.
LEMMA FaultType ==
  ASSUME TypeOK,
         \/ NoFault
         \/ OneFault
         \/ \E a \in BOOLEAN : Charge(Cost(a))
  PROVE  faults' \in 0..MaxFaults
  BY ControllerAssumption DEF TypeOK, NoFault, OneFault, Charge, Cost

\* A reconcile that returns leaves its worker's variables well typed.
LEMMA ReturnType ==
  ASSUME TypeOK, NEW w \in Workers, Return(w)
  PROVE  /\ loc' \in [Workers -> ExamObjects]
         /\ wnow' \in [Workers -> 0..MaxClock]
         /\ todo' \in [Workers -> SUBSET Instances]
         /\ pc' \in [Workers -> PCs]
  BY IdleCopyType, ControllerAssumption DEF Return, TypeOK, PCs

LEMMA ReturnNoWriteType ==
  ASSUME TypeOK, NEW w \in Workers, ReturnNoWrite(w)
  PROVE  /\ loc' \in [Workers -> ExamObjects]
         /\ wnow' \in [Workers -> 0..MaxClock]
         /\ todo' \in [Workers -> SUBSET Instances]
         /\ pc' \in [Workers -> PCs]
         /\ fresh' \in [Workers -> BOOLEAN]
         /\ exam' \in ExamObjects
         /\ synced' \in [Workers -> BOOLEAN]
  BY ReturnType DEF ReturnNoWrite, TypeOK

\* The reconcile steps up to the dispatch, and the status update.
LEMMA TypeDispatch ==
  ASSUME TypeOK, NEW w \in Workers,
         GetNothing(w) \/ Get(w) \/ AddFinalizer(w) \/ Decide(w) \/ StatusUpdate(w)
  PROVE  TypeOK'
<1> USE ControllerAssumption
<1>0. ASSUME NEW e \in ExamObjects, DecideOn(w, e)
      PROVE  /\ loc' \in [Workers -> ExamObjects]
             /\ wnow' \in [Workers -> 0..MaxClock]
             /\ todo' \in [Workers -> SUBSET Instances]
             /\ pc' \in [Workers -> PCs]
  <2> DEFINE d == determineDesiredPhase(e.phase, e.spec, clock)
  <2>1. d \in ExamPhases
    BY DesiredPhaseType DEF ExamObjects
  <2>2. [e EXCEPT !.phase = d] \in ExamObjects
    BY <2>1 DEF ExamObjects
  <2>3. collectSlugs(e) \in SUBSET Instances
    BY DEF collectSlugs
  <2>4. HandlerLabel(e, d) \in PCs
    BY LabelType
  <2> HIDE DEF d
  <2>5. loc' \in [Workers -> ExamObjects]
    BY <1>0, <2>2 DEF DecideOn, TypeOK, d
  <2>6. wnow' \in [Workers -> 0..MaxClock]
    BY <1>0 DEF DecideOn, TypeOK
  <2>7. todo' \in [Workers -> SUBSET Instances]
    BY <1>0, <2>3 DEF DecideOn, TypeOK
  <2>8. pc' \in [Workers -> PCs]
    BY <1>0, <2>4 DEF DecideOn, TypeOK, Goto, d
  <2>9. QED
    BY <2>5, <2>6, <2>7, <2>8
<1>2. CASE GetNothing(w)
  BY <1>2 DEF GetNothing, TypeOK, vars
<1>3. CASE Get(w)
  <2>1. cache[w] \in ExamObjects
    BY DEF TypeOK
  <2>2. /\ loc' \in [Workers -> ExamObjects]
        /\ wnow' \in [Workers -> 0..MaxClock]
        /\ todo' \in [Workers -> SUBSET Instances]
        /\ pc' \in [Workers -> PCs]
    <3>1. CASE DecideOn(w, cache[w])
      BY <3>1, <2>1, <1>0
    <3>2. CASE /\ loc' = [loc EXCEPT ![w] = cache[w]]
               /\ Goto(w, IF cache[w].deleting THEN "finalizeDelete" ELSE "addFinalizer")
               /\ UNCHANGED <<wnow, todo>>
      BY <3>2, <2>1 DEF Goto, TypeOK, PCs
    <3>3. QED
      BY <1>3, <3>1, <3>2 DEF Get
  <2>3. fresh' \in [Workers -> BOOLEAN]
    BY <1>3 DEF Get, TypeOK
  <2>4. QED
    BY <1>3, <2>2, <2>3 DEF Get, TypeOK, cluster
<1>4. CASE AddFinalizer(w)
  <2>1. CASE ReturnNoWrite(w) /\ (NoFault \/ OneFault)
    BY <1>4, <2>1, ReturnNoWriteType, FaultType DEF AddFinalizer, TypeOK, cluster
  <2>2. CASE ~(ReturnNoWrite(w) /\ (NoFault \/ OneFault))
    <3> DEFINE new == [exam EXCEPT !.finalizer = TRUE]
    <3>1. new \in ExamObjects
      BY DEF TypeOK, ExamObjects
    <3>2. /\ exam' \in ExamObjects
          /\ synced' \in [Workers -> BOOLEAN]
          /\ fresh' \in [Workers -> BOOLEAN]
      BY <1>4, <2>2, <3>1 DEF AddFinalizer, Store, FreshAfter, TypeOK
    <3>3. loc' \in [Workers -> ExamObjects]
      <4>1. [loc[w] EXCEPT !.finalizer = TRUE] \in ExamObjects
        BY DEF TypeOK, ExamObjects
      <4>2. loc' = [loc EXCEPT ![w] = [loc[w] EXCEPT !.finalizer = TRUE]]
        BY <1>4, <2>2 DEF AddFinalizer
      <4>3. QED
        BY <4>1, <4>2 DEF TypeOK
    <3>4. pc' \in [Workers -> PCs]
      BY <1>4, <2>2 DEF AddFinalizer, Goto, PCs, TypeOK
    <3>5. QED
      BY <1>4, <2>2, <3>2, <3>3, <3>4 DEF AddFinalizer, TypeOK, cluster, NoFault
  <2>3. QED
    BY <2>1, <2>2
<1>5. CASE Decide(w)
  <2>1. loc[w] \in ExamObjects
    BY DEF TypeOK
  <2>2. QED
    BY <1>5, <2>1, <1>0 DEF Decide, TypeOK, cluster
<1>6. CASE StatusUpdate(w)
  <2>1. CASE ReturnNoWrite(w) /\ (NoFault \/ OneFault)
    BY <1>6, <2>1, ReturnNoWriteType, FaultType DEF StatusUpdate, TypeOK, cluster
  <2>2. CASE ~(ReturnNoWrite(w) /\ (NoFault \/ OneFault))
    <3> DEFINE new == [exam EXCEPT !.phase = loc[w].phase, !.inst = loc[w].inst,
                                   !.mail = loc[w].mail, !.conds = loc[w].conds]
    <3>1. new \in ExamObjects
      BY DEF TypeOK, ExamObjects
    <3>2. /\ exam' \in ExamObjects
          /\ synced' \in [Workers -> BOOLEAN]
          /\ fresh' \in [Workers -> BOOLEAN]
      BY <1>6, <2>2, <3>1 DEF StatusUpdate, Store, FreshAfter, TypeOK
    <3>3. Return(w) /\ NoFault
      BY <1>6, <2>2 DEF StatusUpdate
    <3>4. QED
      BY <1>6, <3>2, <3>3, ReturnType DEF StatusUpdate, TypeOK, cluster, NoFault
  <2>3. QED
    BY <2>1, <2>2
<1>7. QED
  BY <1>2, <1>3, <1>4, <1>5, <1>6

\* The steps of reconcileProvisioning.
LEMMA TypeProvisioning ==
  ASSUME TypeOK, NEW w \in Workers,
         \/ CreateNamespace(w) \/ provisionInstance(w) \/ SlugError(w)
         \/ FinishProvisioning(w)
  PROVE  TypeOK'
<1>1. CASE CreateNamespace(w)
  <2>1. faults' \in 0..MaxFaults
    BY <1>1, FaultType DEF CreateNamespace
  <2>2. /\ ns' \in {"absent", "active", "terminating"}
        /\ todo' \in [Workers -> SUBSET Instances]
        /\ pc' \in [Workers -> PCs]
    BY <1>1 DEF CreateNamespace, Goto, TypeOK, PCs
  <2>3. QED
    BY <1>1, <2>1, <2>2 DEF CreateNamespace, TypeOK
<1>2. CASE provisionInstance(w)
  <2>1. PICK i \in todo[w], n \in 0..4 :
          /\ IF n < 4 /\ ns = "active" THEN OneFault ELSE NoFault
          /\ objs' = objs \cup Create({ProvisionedKinds[k] : k \in 1..n}, i)
          /\ loc'  = [loc EXCEPT ![w] = setInstanceStatus(loc[w], i, n = 4)]
          /\ todo' = [todo EXCEPT ![w] = todo[w] \ {i}]
    BY <1>2 DEF provisionInstance
  <2>2. i \in Instances /\ loc[w] \in ExamObjects
    BY DEF TypeOK
  <2>3. faults' \in 0..MaxFaults
    BY <2>1, FaultType
  <2>4. objs' \subseteq Objects
    BY <2>1, <2>2, CreateType, ProvisionedKindsType DEF TypeOK
  <2>5. loc' \in [Workers -> ExamObjects]
    <3>1. setInstanceStatus(loc[w], i, n = 4) \in ExamObjects
      BY <2>2, InstanceStatusType
    <3>2. QED
      BY <2>1, <3>1 DEF TypeOK
  <2>6. todo' \in [Workers -> SUBSET Instances]
    BY <2>1 DEF TypeOK
  <2>7. QED
    BY <1>2, <2>3, <2>4, <2>5, <2>6 DEF provisionInstance, TypeOK
<1>3. CASE FinishProvisioning(w)
  <2>1. /\ objs' \subseteq Objects
        /\ ready' \subseteq Instances
    BY <1>3 DEF FinishProvisioning, TypeOK
  <2>2. loc' \in [Workers -> ExamObjects]
    <3> DEFINE done == [loc[w] EXCEPT !.phase = "Ready",
                                      !.conds = loc[w].conds \cup {"Provisioned"}]
    <3>1. done \in ExamObjects
      BY DEF TypeOK, ExamObjects, ExamPhases, Conditions
    <3>2. loc' = loc \/ loc' = [loc EXCEPT ![w] = done]
      BY <1>3 DEF FinishProvisioning, TypeOK
    <3>3. QED
      BY <3>1, <3>2 DEF TypeOK
  <2>3. mailbox' \in [Mails -> 0..MailCap]
    <3>1. PICK b \in BOOLEAN : sendEmail(<<"spares", 0>>, b) \/ UNCHANGED mailbox
      BY <1>3 DEF FinishProvisioning
    <3>2. QED
      BY <3>1, DeliverType DEF TypeOK
  <2>4. faults' \in 0..MaxFaults
    <3>1. \E a \in BOOLEAN : Charge(Cost(a))
      BY <1>3 DEF FinishProvisioning
    <3>2. QED
      BY <3>1, FaultType
  <2>5. pc' \in [Workers -> PCs]
    BY <1>3 DEF FinishProvisioning, Goto, TypeOK, PCs
  <2>6. QED
    BY <1>3, <2>1, <2>2, <2>3, <2>4, <2>5 DEF FinishProvisioning, TypeOK
<1>4. CASE SlugError(w)
  <2>1. faults' \in 0..MaxFaults
    BY <1>4, FaultType DEF SlugError
  <2>2. todo' \in [Workers -> SUBSET Instances] /\ pc' \in [Workers -> PCs]
    BY <1>4 DEF SlugError, Goto, TypeOK, PCs
  <2>3. QED
    BY <1>4, <2>1, <2>2 DEF SlugError, TypeOK, cluster
<1>5. QED
  BY <1>1, <1>2, <1>3, <1>4

\* The steps of reconcileReady, reconcileUnlock and reconcileLocked.
LEMMA TypeExamTime ==
  ASSUME TypeOK, NEW w \in Workers,
         \/ sendNextPendingEmail(w) \/ ReadyContinue(w) \/ enforcePolicies(w)
         \/ deleteIngresses(w) \/ NotifyInstructor(w)
  PROVE  TypeOK'
<1> USE ControllerAssumption
<1>0. loc[w] \in ExamObjects
  BY DEF TypeOK
<1>1. CASE sendNextPendingEmail(w)
  <2>1. PICK i \in Students, sent \in BOOLEAN :
          /\ sendEmail(<<"url", i>>, sent)
          /\ Charge(Cost(~sent))
          /\ loc' = [loc EXCEPT ![w].mail[i] = IF sent THEN "Sent" ELSE "Failed"]
    BY <1>1 DEF sendNextPendingEmail
  <2>2. loc' \in [Workers -> ExamObjects]
    <3> DEFINE st == IF sent THEN "Sent" ELSE "Failed"
               e  == [loc[w] EXCEPT !.mail = [loc[w].mail EXCEPT ![i] = st]]
    <3>1. e \in ExamObjects
      BY <1>0 DEF ExamObjects, EmailStatuses
    <3>2. loc' = [loc EXCEPT ![w] = e]
      BY <2>1
    <3>3. QED
      BY <3>1, <3>2 DEF TypeOK
  <2>3. mailbox' \in [Mails -> 0..MailCap]
    BY <2>1, DeliverType DEF TypeOK
  <2>4. faults' \in 0..MaxFaults
    BY <2>1, FaultType
  <2>5. pc' \in [Workers -> PCs] /\ wnow' \in [Workers -> 0..MaxClock]
    BY <1>1 DEF sendNextPendingEmail, Goto, TypeOK, PCs
  <2>6. QED
    BY <1>1, <2>2, <2>3, <2>4, <2>5 DEF sendNextPendingEmail, TypeOK, cluster
<1>2. CASE ReadyContinue(w)
  <2>1. DryRunConditions(loc[w]) \subseteq Conditions
    BY DEF DryRunConditions, Conditions
  <2>2. loc' \in [Workers -> ExamObjects]
    <3>1. PICK C \in SUBSET Conditions :
            loc' = [loc EXCEPT ![w] = [loc[w] EXCEPT !.conds = C]]
      <4> DEFINE C == loc[w].conds \cup (IF EmailsDue(w) THEN {"AllEmailsSent"} ELSE {})
                        \cup (IF DryRunDue(w) THEN DryRunConditions(loc[w]) ELSE {})
      <4>1. C \in SUBSET Conditions
        BY <1>0, <2>1 DEF ExamObjects, Conditions
      <4>2. loc' = [loc EXCEPT ![w] = [loc[w] EXCEPT !.conds = C]]
        BY <1>2 DEF ReadyContinue
      <4>3. QED
        BY <4>1, <4>2
    <3>2. [loc[w] EXCEPT !.conds = C] \in ExamObjects
      BY <1>0 DEF ExamObjects
    <3>3. QED
      BY <3>1, <3>2 DEF TypeOK
  <2>3. /\ todo' \in [Workers -> SUBSET Instances]
        /\ wnow' \in [Workers -> 0..MaxClock]
    BY <1>2 DEF ReadyContinue, TypeOK, collectSlugs
  <2>4. pc' \in [Workers -> PCs]
    BY <1>2, LabelType DEF ReadyContinue, TypeOK, Goto
  <2>5. QED
    BY <1>2, <2>2, <2>3, <2>4 DEF ReadyContinue, TypeOK, cluster
<1>3. CASE enforcePolicies(w)
  <2>1. PICK i \in todo[w], failed \in SUBSET (EnforceCreates(w) \cup EnforceDeletes(w)) :
          /\ IF failed = {} THEN NoFault ELSE OneFault
          /\ objs' = (objs \cup Create(EnforceCreates(w) \ failed, i))
                       \ ((EnforceDeletes(w) \ failed) \X {i})
          /\ todo' = [todo EXCEPT ![w] = todo[w] \ {i}]
          /\ Goto(w, EnforceLabel(todo[w] \ {i}, loc[w].phase))
    BY <1>3 DEF enforcePolicies
  <2>2. i \in Instances
    BY DEF TypeOK
  <2>3. objs' \subseteq Objects
    <3>1. EnforceCreates(w) \ failed \in SUBSET Kinds
      BY DEF EnforceCreates, Kinds, AccessKinds
    <3>2. QED
      BY <2>1, <2>2, <3>1, CreateType DEF TypeOK
  <2>4. faults' \in 0..MaxFaults
    BY <2>1, FaultType
  <2>5. todo' \in [Workers -> SUBSET Instances]
    BY <2>1 DEF TypeOK
  <2>6. pc' \in [Workers -> PCs]
    BY <2>1, LabelType DEF TypeOK, Goto
  <2>7. QED
    BY <1>3, <2>3, <2>4, <2>5, <2>6 DEF enforcePolicies, TypeOK
<1>4. CASE deleteIngresses(w)
  <2>1. objs' \subseteq Objects
    BY <1>4 DEF deleteIngresses, TypeOK
  <2>2. pc' \in [Workers -> PCs]
    BY <1>4 DEF deleteIngresses, TypeOK, Goto, PCs
  <2>3. faults' \in 0..MaxFaults
    BY <1>4, FaultType DEF deleteIngresses
  <2>4. QED
    BY <1>4, <2>1, <2>2, <2>3 DEF deleteIngresses, TypeOK
<1>5. CASE NotifyInstructor(w)
  <2>1. MoveInstances(loc[w]) \in [Instances -> InstancePhases]
    BY <1>0 DEF MoveInstances, ExamObjects, InstancePhases
  <2>2. loc' \in [Workers -> ExamObjects]
    <3>1. PICK C \in SUBSET Conditions :
            loc' = [loc EXCEPT ![w] = [loc[w] EXCEPT !.inst = MoveInstances(loc[w]),
                                                     !.conds = C]]
      <4>1. /\ loc[w].conds \in SUBSET Conditions
            /\ loc[w].conds \cup {NotifiedOf(loc[w].phase)} \in SUBSET Conditions
        BY <1>0 DEF ExamObjects, Conditions, NotifiedOf
      <4>2. QED
        BY <1>5, <4>1 DEF NotifyInstructor
    <3>2. [loc[w] EXCEPT !.inst = MoveInstances(loc[w]), !.conds = C] \in ExamObjects
      BY <1>0, <2>1 DEF ExamObjects
    <3>3. QED
      BY <3>1, <3>2 DEF TypeOK
  <2>3. mailbox' \in [Mails -> 0..MailCap]
    <3>1. \/ UNCHANGED mailbox
          \/ \E b \in BOOLEAN : sendEmail(<<NoticeOf(loc[w].phase), 0>>, b)
      BY <1>5 DEF NotifyInstructor
    <3>2. QED
      BY <3>1, DeliverType DEF TypeOK
  <2>4. faults' \in 0..MaxFaults
    <3>1. NoFault \/ \E a \in BOOLEAN : Charge(Cost(a))
      BY <1>5 DEF NotifyInstructor
    <3>2. QED
      BY <3>1, FaultType
  <2>5. pc' \in [Workers -> PCs]
    BY <1>5 DEF NotifyInstructor, Goto, TypeOK, PCs
  <2>6. QED
    BY <1>5, <2>2, <2>3, <2>4, <2>5 DEF NotifyInstructor, TypeOK, cluster
<1>6. QED
  BY <1>1, <1>2, <1>3, <1>4, <1>5

\* The steps of reconcileTeardown and of the finalizer.
LEMMA TypeTeardown ==
  ASSUME TypeOK, NEW w \in Workers,
         reconcileTeardown(w) \/ FinalizeDelete(w) \/ RemoveFinalizer(w)
  PROVE  TypeOK'
<1>1. CASE reconcileTeardown(w)
  <2>1. /\ ns' \in {"absent", "active", "terminating"}
        /\ pc' \in [Workers -> PCs]
    BY <1>1 DEF reconcileTeardown, DeleteNamespace, Goto, TypeOK, PCs
  <2>2. faults' \in 0..MaxFaults
    BY <1>1, FaultType DEF reconcileTeardown
  <2>3. QED
    BY <1>1, <2>1, <2>2 DEF reconcileTeardown, TypeOK
<1>2. CASE FinalizeDelete(w)
  <2>1. CASE ReturnNoWrite(w) /\ OneFault /\ UNCHANGED ns
    BY <1>2, <2>1, ReturnNoWriteType, FaultType DEF FinalizeDelete, TypeOK
  <2>2. CASE /\ DeleteNamespace
             /\ loc' = [loc EXCEPT ![w].phase = "TearingDown"]
             /\ Goto(w, "removeFinalizer")
             /\ NoFault
             /\ UNCHANGED <<exam, synced, fresh, wnow, todo>>
    <3>1. [loc[w] EXCEPT !.phase = "TearingDown"] \in ExamObjects
      BY DEF TypeOK, ExamObjects, ExamPhases
    <3>2. loc' \in [Workers -> ExamObjects]
      <4>1. loc' = [loc EXCEPT ![w] = [loc[w] EXCEPT !.phase = "TearingDown"]]
        BY <2>2
      <4>2. QED
        BY <3>1, <4>1 DEF TypeOK
    <3>3. /\ ns' \in {"absent", "active", "terminating"}
          /\ pc' \in [Workers -> PCs]
      BY <2>2 DEF DeleteNamespace, Goto, TypeOK, PCs
    <3>4. QED
      BY <1>2, <2>2, <3>2, <3>3 DEF FinalizeDelete, TypeOK, NoFault
  <2>3. QED
    BY <1>2, <2>1, <2>2 DEF FinalizeDelete
<1>3. CASE RemoveFinalizer(w)
  <2>1. CASE ReturnNoWrite(w) /\ (NoFault \/ OneFault)
    BY <1>3, <2>1, ReturnNoWriteType, FaultType DEF RemoveFinalizer, TypeOK, cluster
  <2>2. CASE ~(ReturnNoWrite(w) /\ (NoFault \/ OneFault))
    <3> DEFINE new == [exam EXCEPT !.present = FALSE, !.finalizer = FALSE]
    <3>1. new \in ExamObjects
      BY DEF TypeOK, ExamObjects
    <3>2. /\ exam' \in ExamObjects
          /\ synced' \in [Workers -> BOOLEAN]
          /\ fresh' \in [Workers -> BOOLEAN]
      BY <1>3, <2>2, <3>1 DEF RemoveFinalizer, Store, FreshAfter, TypeOK
    <3>3. Return(w) /\ NoFault
      BY <1>3, <2>2 DEF RemoveFinalizer
    <3>4. QED
      BY <1>3, <3>2, <3>3, ReturnType DEF RemoveFinalizer, TypeOK, cluster, NoFault
  <2>3. QED
    BY <2>1, <2>2
<1>4. QED
  BY <1>1, <1>2, <1>3

\* The steps of the environment.
LEMMA TypeEnvironment == ASSUME TypeOK, Environment PROVE TypeOK'
<1> USE ControllerAssumption
<1>0. ASSUME NEW new \in ExamObjects, UserStore(new), edits' \in 0..MaxEdits
      PROVE  TypeOK'
  BY <1>0 DEF UserStore, Store, TypeOK, cluster
<1>1. CASE Tick
  BY <1>1 DEF Tick, TypeOK, cluster, worker
<1>2. CASE DeleteExam
  <2>1. /\ [exam EXCEPT !.deleting = TRUE] \in ExamObjects
        /\ [exam EXCEPT !.deleting = TRUE, !.present = FALSE] \in ExamObjects
    BY DEF TypeOK, ExamObjects
  <2>2. QED
    BY <1>2, <2>1, <1>0 DEF DeleteExam, TypeOK
<1>3. CASE NamespaceGone
  BY <1>3 DEF NamespaceGone, TypeOK, worker
<1>4. ASSUME NEW s \in Specs, EditSpec(s) PROVE TypeOK'
  <2>1. [exam EXCEPT !.spec = s] \in ExamObjects
    BY DEF TypeOK, ExamObjects
  <2>2. edits' \in 0..MaxEdits
    BY <1>4 DEF EditSpec, TypeOK
  <2>3. QED
    BY <1>4, <2>1, <2>2, <1>0 DEF EditSpec
<1>5. ASSUME NEW i \in Instances, DeploymentReady(i) PROVE TypeOK'
  BY <1>5 DEF DeploymentReady, TypeOK, worker
<1>51. ASSUME NEW o \in objs, Drift(o) PROVE TypeOK'
  BY <1>51, <1>0 DEF Drift, OneFault, Charge, TypeOK, worker
<1>6. ASSUME NEW w \in Workers, InformerSync(w) PROVE TypeOK'
  BY <1>6 DEF InformerSync, TypeOK, cluster, worker
<1>7. ASSUME NEW w \in Workers, Crash(w) PROVE TypeOK'
  <2>1. /\ fresh' \in [Workers -> BOOLEAN]
        /\ synced' \in [Workers -> BOOLEAN]
        /\ cache' \in [Workers -> ExamObjects]
        /\ crashes' \in 0..MaxCrashes
    BY <1>7 DEF Crash, TypeOK
  <2>2. QED
    BY <1>7, <2>1, ReturnType DEF Crash, TypeOK, cluster
<1>8. QED
  BY <1>1, <1>2, <1>3, <1>4, <1>5, <1>51, <1>6, <1>7 DEF Environment

LEMMA TypeNext == ASSUME TypeOK, [Next]_vars PROVE TypeOK'
<1>1. CASE Environment
  BY <1>1, TypeEnvironment
<1>2. ASSUME NEW w \in Workers, Reconcile(w) PROVE TypeOK'
  BY <1>2, TypeDispatch, TypeProvisioning, TypeExamTime, TypeTeardown DEF Reconcile
<1>3. CASE UNCHANGED vars
  BY <1>3 DEF vars, TypeOK
<1>4. QED
  BY <1>1, <1>2, <1>3 DEF Next

\* Every reachable state of the controller, its copies and the cluster is
\* well typed, for any number of managers, students and spares.
THEOREM TypeCorrect == Spec => []TypeOK
<1>1. QED
  BY TypeInit, TypeNext, PTL DEF Spec
=============================================================================
