-------------------------- MODULE ExamSafetyProofs --------------------------
(***************************************************************************)
(* The order and timing of phases, the routes and the namespace: IInv of   *)
(* ExamInvariant is inductive, and the safety properties of ExamController *)
(* follow from it.                                                         *)
(***************************************************************************)
EXTENDS ExamTypeProofs

-----------------------------------------------------------------------------
(***************************************************************************)
(* The schedule and the phase machine.                                     *)
(***************************************************************************)

\* The times computed from a spec are integers.
LEMMA ScheduleType ==
  ASSUME NEW s \in Specs
  PROVE  /\ s.unlock \in Int
         /\ ProvisionTime(s) \in Int
         /\ LockTime(s) \in Int
         /\ RetentionDeadline(s) \in Int
<1>1. /\ s.unlock \in Nat /\ s.duration \in Nat /\ s.timeMultiplier \in Nat
      /\ s.provisionBefore \in Nat /\ s.retention \in Int
  BY SpecsAssumption DEF NatFields
<1>2. ProvisionTime(s) \in Int
  BY <1>1, DefaultsAssumption DEF ProvisionTime, OrDefault
<1>3. LockTime(s) \in Int
  <2>1. effectiveMultiplier(s.timeMultiplier) \in Nat
    BY <1>1 DEF effectiveMultiplier
  <2>2. s.duration * effectiveMultiplier(s.timeMultiplier) \in Nat
    BY <1>1, <2>1
  <2>3. (s.duration * effectiveMultiplier(s.timeMultiplier)) \div 100 \in Int
    BY <2>2
  <2>4. QED
    BY <1>1, <2>3 DEF LockTime, computeLockTime
<1>4. RetentionDeadline(s) \in Int
  BY <1>1, <1>3, DefaultsAssumption DEF RetentionDeadline, OrDefault
<1>5. QED
  BY <1>1, <1>2, <1>3, <1>4

\* The ranks of the phases, and that no two share one.
LEMMA RankValues ==
  /\ PhaseRank["Unset"] = 0 /\ PhaseRank["Pending"] = 1 /\ PhaseRank["Provisioning"] = 2
  /\ PhaseRank["Ready"] = 3 /\ PhaseRank["Unlocked"] = 4 /\ PhaseRank["Locked"] = 5
  /\ PhaseRank["TearingDown"] = 6
  BY DEF PhaseRank, ExamPhases

LEMMA RankType == \A p \in ExamPhases : PhaseRank[p] \in 0..6
  BY RankValues DEF ExamPhases

\* The contract's schedule is the controller's.
LEMMA SameSchedule ==
  ASSUME NEW s
  PROVE  /\ Contract!ProvisionTime(s) = ProvisionTime(s)
         /\ Contract!LockTime(s) = LockTime(s)
         /\ Contract!RetentionDeadline(s) = RetentionDeadline(s)
  BY DEF Contract!ProvisionTime, ProvisionTime, Contract!LockTime, LockTime,
         Contract!RetentionDeadline, RetentionDeadline, Contract!OrDefault, OrDefault,
         Contract!computeLockTime, computeLockTime, Contract!effectiveMultiplier,
         effectiveMultiplier

\* A phase that may follow another is not behind it.
LEMMA FollowRank ==
  ASSUME NEW p \in ExamPhases, NEW q \in ExamPhases, NEW s, NEW t,
         Contract!MayFollow(p, q, s, t)
  PROVE  PhaseRank[p] <= PhaseRank[q]
  BY RankValues DEF Contract!MayFollow, ExamPhases

\* A move that is allowed stays allowed.
LEMMA FollowLater ==
  ASSUME NEW p, NEW q, NEW s \in Specs, NEW t \in Int, NEW u \in Int, t <= u,
         Contract!MayFollow(p, q, s, t)
  PROVE  Contract!MayFollow(p, q, s, u)
<1>1. /\ s.unlock \in Int
      /\ Contract!ProvisionTime(s) \in Int
      /\ Contract!LockTime(s) \in Int
      /\ Contract!RetentionDeadline(s) \in Int
  BY ScheduleType, SameSchedule
<1>2. QED
  BY <1>1 DEF Contract!MayFollow

\* determineDesiredPhase only makes moves the contract allows.
LEMMA DesiredFollows ==
  ASSUME NEW p \in ExamPhases, NEW s \in Specs, NEW t \in Int
  PROVE  Contract!MayFollow(p, determineDesiredPhase(p, s, t), s, t)
<1>1. /\ s.unlock \in Int
      /\ ProvisionTime(s) \in Int
      /\ LockTime(s) \in Int
      /\ RetentionDeadline(s) \in Int
  BY ScheduleType
<1>2. QED
  BY <1>1, SameSchedule DEF Contract!MayFollow, determineDesiredPhase, FromPending, FromReady,
     FromUnlocked, FromLocked, ExamPhases

\* The phase handlers past Ready are entered only from Ready on, and the one
\* of TearingDown from Locked on.
LEMMA DesiredOrigin ==
  ASSUME NEW p \in ExamPhases, NEW s \in Specs, NEW t \in Int,
         NEW d, d = determineDesiredPhase(p, s, t)
  PROVE  /\ Past(d, 3) => Past(p, 3)
         /\ Past(d, 6) => Past(p, 5)
         /\ d = "Unlocked" /\ p # "Unlocked" => t >= s.unlock
         /\ Past(d, 4) /\ ~Past(p, 4) => t >= s.unlock
<1>1. s.unlock \in Int
  BY ScheduleType
<1>2. QED
  BY <1>1, RankValues DEF Past, determineDesiredPhase, FromPending, FromReady,
     FromUnlocked, FromLocked, ExamPhases

\* The dispatch enters the handler of the phase it has decided on.
LEMMA HandlerEntry ==
  ASSUME NEW e, NEW d \in ExamPhases, NEW l, l = HandlerLabel(e, d)
  PROVE  /\ l \in InHandler
         /\ l # "provision"
         /\ l = "namespace" => d = "Provisioning"
         /\ l = "ready" => d = "Ready"
         /\ l = "enforce" => d \in {"Unlocked", "Locked"}
         /\ l = "deleteIngresses" => d = "Locked"
         /\ l = "notify" => d = "Unlocked"
         /\ l = "teardown" => d = "TearingDown"
  BY DEF HandlerLabel, EnforceLabel, AfterEnforce, ExamPhases, InHandler

-----------------------------------------------------------------------------
(***************************************************************************)
(* The phase a handler runs in.                                            *)
(***************************************************************************)

\* HandlerPhaseInv holds of workers a step leaves where they are.
LEMMA OtherPhases ==
  ASSUME NEW v \in Workers, HandlerPhaseOK(v), pc'[v] = pc[v], loc'[v] = loc[v]
  PROVE  HandlerPhaseOK(v)'
  BY DEF HandlerPhaseOK

LEMMA HandlerPhaseNext ==
  ASSUME TypeOK, HandlerPhaseInv, [Next]_vars
  PROVE  HandlerPhaseInv'
<1> SUFFICES ASSUME NEW v \in Workers PROVE HandlerPhaseOK(v)'
  BY DEF HandlerPhaseInv
<1>0. HandlerPhaseOK(v)
  BY DEF HandlerPhaseInv
<1>1. CASE Environment
  <2>1. CASE pc'[v] = "idle"
    BY <2>1 DEF HandlerPhaseOK
  <2>2. CASE pc'[v] = pc[v] /\ loc'[v] = loc[v]
    BY <2>2, <1>0, OtherPhases
  <2>3. ASSUME NEW w \in Workers, Crash(w)
        PROVE  pc'[v] = "idle" \/ (pc'[v] = pc[v] /\ loc'[v] = loc[v])
    BY <2>3 DEF Crash, Return, TypeOK
  <2>4. QED
    BY <1>1, <2>1, <2>2, <2>3
       DEF Environment, Tick, DeleteExam, EditSpec, UserStore, NamespaceGone,
           DeploymentReady, Drift, InformerSync, worker
<1>2. CASE UNCHANGED vars
  BY <1>2, <1>0, OtherPhases DEF vars
<1>3. ASSUME NEW w \in Workers, Reconcile(w) PROVE HandlerPhaseOK(v)'
  <2>0. pc \in [Workers -> PCs] /\ loc \in [Workers -> ExamObjects]
    BY DEF TypeOK
  <2>1. CASE GetNothing(w)
    BY <2>1, <1>0, OtherPhases DEF GetNothing, vars
  <2>2. ASSUME NEW e \in ExamObjects, DecideOn(w, e) PROVE HandlerPhaseOK(v)'
    <3> DEFINE d == determineDesiredPhase(e.phase, e.spec, clock)
    <3>1. d \in ExamPhases
      BY DesiredPhaseType DEF ExamObjects
    <3>2. /\ loc' = [loc EXCEPT ![w] = [e EXCEPT !.phase = d]]
          /\ pc'  = [pc EXCEPT ![w] = HandlerLabel(e, d)]
      BY <2>2 DEF DecideOn, Goto
    <3>3. [e EXCEPT !.phase = d].phase = d
      BY DEF ExamObjects
    <3> HIDE DEF d
    <3>4. CASE v = w
      <4>1. pc'[v] = HandlerLabel(e, d) /\ loc'[v].phase = d
        BY <3>2, <3>3, <3>4, <2>0
      <4>2. QED
        BY <3>1, <4>1, HandlerEntry DEF HandlerPhaseOK
    <3>5. CASE v # w
      BY <3>2, <3>5, <2>0, <1>0, OtherPhases
    <3>6. QED
      BY <3>4, <3>5
  <2>3. ASSUME Return(w) PROVE HandlerPhaseOK(v)'
    <3>1. CASE v = w
      BY <2>3, <3>1, <2>0 DEF Return, HandlerPhaseOK
    <3>2. CASE v # w
      BY <2>3, <3>2, <2>0, <1>0, OtherPhases DEF Return
    <3>3. QED
      BY <3>1, <3>2
  <2>4. CASE Get(w)
    <3>1. cache[w] \in ExamObjects
      BY DEF TypeOK
    <3>2. CASE DecideOn(w, cache[w])
      BY <3>1, <3>2, <2>2
    <3>3. CASE /\ loc' = [loc EXCEPT ![w] = cache[w]]
               /\ Goto(w, IF cache[w].deleting THEN "finalizeDelete" ELSE "addFinalizer")
      BY <3>3, <2>0, <1>0 DEF Goto, HandlerPhaseOK
    <3>4. QED
      BY <2>4, <3>2, <3>3 DEF Get
  <2>5. CASE AddFinalizer(w)
    <3>1. CASE ReturnNoWrite(w)
      BY <3>1, <2>3 DEF ReturnNoWrite
    <3>2. CASE ~ReturnNoWrite(w)
      BY <2>5, <3>2, <2>0, <1>0 DEF AddFinalizer, Goto, HandlerPhaseOK
    <3>3. QED
      BY <3>1, <3>2
  <2>6. CASE Decide(w)
    BY <2>6, <2>0, <2>2 DEF Decide
  <2>7. CASE StatusUpdate(w) \/ RemoveFinalizer(w)
    BY <2>7, <2>3 DEF StatusUpdate, RemoveFinalizer, ReturnNoWrite
  <2>8. CASE CreateNamespace(w)
    BY <2>8, <2>0, <1>0 DEF CreateNamespace, Goto, HandlerPhaseOK
  <2>9. CASE provisionInstance(w)
    <3>1. PICK i \in todo[w], n \in 0..4 :
            loc' = [loc EXCEPT ![w] = setInstanceStatus(loc[w], i, n = 4)]
      BY <2>9 DEF provisionInstance
    <3>2. setInstanceStatus(loc[w], i, n = 4).phase = loc[w].phase
      BY <2>0 DEF setInstanceStatus, ExamObjects
    <3>3. loc'[v].phase = loc[v].phase /\ pc'[v] = pc[v]
      BY <2>0, <2>9, <3>1, <3>2 DEF provisionInstance
    <3>4. QED
      BY <3>3, <1>0 DEF HandlerPhaseOK
  <2>10. CASE FinishProvisioning(w)
    <3>1. v # w => loc'[v] = loc[v]
      BY <2>0, <2>10 DEF FinishProvisioning
    <3>2. QED
      BY <3>1, <2>10, <2>0, <1>0 DEF FinishProvisioning, Goto, HandlerPhaseOK
  <2>11. CASE sendNextPendingEmail(w)
    <3>1. v # w => loc'[v] = loc[v]
      BY <2>0, <2>11 DEF sendNextPendingEmail
    <3>2. QED
      BY <3>1, <2>11, <2>0, <1>0 DEF sendNextPendingEmail, Goto, HandlerPhaseOK
  <2>12. CASE ReadyContinue(w)
    <3>1. loc'[v].phase = loc[v].phase
      BY <2>0, <2>12 DEF ReadyContinue, ExamObjects
    <3>2. v # w => pc'[v] = pc[v]
      BY <2>0, <2>12 DEF ReadyContinue, Goto
    <3>3. v = w => pc'[v] \in {"enforce", "status"} /\ loc[v].phase = "Ready"
      BY <2>0, <2>12, <1>0 DEF ReadyContinue, Goto, EnforceLabel, AfterEnforce, HandlerPhaseOK
    <3>4. QED
      BY <3>1, <3>2, <3>3, <1>0 DEF HandlerPhaseOK
  <2>13. CASE enforcePolicies(w)
    <3>1. loc' = loc
      BY <2>13 DEF enforcePolicies
    <3>2. v # w => pc'[v] = pc[v]
      BY <2>0, <2>13 DEF enforcePolicies, Goto
    <3>3. v = w => /\ pc[v] = "enforce"
                   /\ pc'[v] \in {"enforce", AfterEnforce(loc[v].phase)}
      BY <2>0, <2>13 DEF enforcePolicies, Goto, EnforceLabel
    <3>4. QED
      BY <3>1, <3>2, <3>3, <1>0 DEF HandlerPhaseOK, AfterEnforce
  <2>14. CASE deleteIngresses(w)
    <3>1. loc' = loc
      BY <2>14 DEF deleteIngresses
    <3>2. v # w => pc'[v] = pc[v]
      BY <2>0, <2>14 DEF deleteIngresses, Goto
    <3>3. v = w => pc[v] = "deleteIngresses" /\ pc'[v] \in {"notify", "status"}
      BY <2>0, <2>14 DEF deleteIngresses, Goto
    <3>4. QED
      BY <3>1, <3>2, <3>3, <1>0 DEF HandlerPhaseOK
  <2>15. CASE NotifyInstructor(w)
    <3>1. v # w => loc'[v] = loc[v] /\ pc'[v] = pc[v]
      BY <2>0, <2>15 DEF NotifyInstructor, Goto
    <3>2. v = w => pc'[v] = "status"
      BY <2>0, <2>15 DEF NotifyInstructor, Goto
    <3>3. QED
      BY <3>1, <3>2, <1>0, OtherPhases DEF HandlerPhaseOK
  <2>16. CASE reconcileTeardown(w)
    BY <2>16, <2>0, <1>0 DEF reconcileTeardown, Goto, HandlerPhaseOK
  <2>17. CASE FinalizeDelete(w)
    <3>1. CASE ReturnNoWrite(w)
      BY <3>1, <2>3 DEF ReturnNoWrite
    <3>2. CASE ~ReturnNoWrite(w)
      BY <2>17, <3>2, <2>0, <1>0 DEF FinalizeDelete, Goto, HandlerPhaseOK
    <3>3. QED
      BY <3>1, <3>2
  <2>18. CASE SlugError(w)
    BY <2>18, <2>0, <1>0 DEF SlugError, Goto, HandlerPhaseOK
  <2>19. QED
    BY <1>3, <2>1, <2>4, <2>5, <2>6, <2>7, <2>8, <2>9, <2>10, <2>11, <2>12, <2>13,
       <2>14, <2>15, <2>16, <2>17, <2>18 DEF Reconcile
<1>4. QED
  BY <1>1, <1>2, <1>3 DEF Next

-----------------------------------------------------------------------------
(***************************************************************************)
(* IInv is inductive.                                                      *)
(***************************************************************************)

\* What every step does to the stored Exam and the cluster, as far as copies
\* of the Exam depend on it.
Progress ==
  /\ PhaseRank[exam.phase] <= PhaseRank[exam'.phase]
  /\ WebhookEnabled /\ Past(exam.phase, 2) => exam'.spec.unlock = exam.spec.unlock
  /\ exam.deleting => exam'.deleting
  /\ clock <= clock'
  /\ Kept => Kept'

\* The types the arithmetic below needs.
LEMMA Numbers ==
  ASSUME TypeOK
  PROVE  /\ clock \in Int
         /\ exam.phase \in ExamPhases /\ PhaseRank[exam.phase] \in Int
         /\ exam.spec \in Specs /\ exam.spec.unlock \in Int
         /\ LockTime(exam.spec) \in Int
         /\ \A v \in Workers :
              /\ cache[v] \in ExamObjects /\ loc[v] \in ExamObjects
              /\ cache[v].phase \in ExamPhases /\ PhaseRank[cache[v].phase] \in Int
              /\ loc[v].phase \in ExamPhases /\ PhaseRank[loc[v].phase] \in Int
              /\ cache[v].spec \in Specs /\ cache[v].spec.unlock \in Int
              /\ loc[v].spec \in Specs /\ loc[v].spec.unlock \in Int
<1>1. ASSUME NEW e \in ExamObjects
      PROVE  /\ e.phase \in ExamPhases /\ PhaseRank[e.phase] \in Int
             /\ e.spec \in Specs /\ e.spec.unlock \in Int /\ LockTime(e.spec) \in Int
  <2>1. e.phase \in ExamPhases /\ e.spec \in Specs
    BY DEF ExamObjects
  <2>2. PhaseRank[e.phase] \in 0..6
    BY <2>1, RankType
  <2>3. QED
    BY <2>1, <2>2, ScheduleType
<1>2. clock \in Int
  BY ControllerAssumption DEF TypeOK
<1>3. exam \in ExamObjects
  BY DEF TypeOK
<1>4. \A v \in Workers : cache[v] \in ExamObjects /\ loc[v] \in ExamObjects
  BY DEF TypeOK
<1>5. QED
  BY <1>1, <1>2, <1>3, <1>4

\* A step leaves the invariant of the workers alone that it does not touch.
LEMMA OthersKeep ==
  ASSUME TypeOK, TypeOK', Progress, NEW v \in Workers, WorkerInv(v),
         pc'[v] = pc[v], loc'[v] = loc[v], cache'[v] = cache[v],
         synced'[v] => synced[v] /\ exam' = exam,
         fresh'[v] => fresh[v] /\ exam' = exam
  PROVE  WorkerInv(v)'
<1> DEFINE r == PhaseRank[exam.phase]
           q == PhaseRank[exam'.phase]
<1>1. /\ r \in Int /\ q \in Int /\ clock \in Int /\ clock' \in Int
      /\ exam.spec.unlock \in Int /\ exam.spec \in Specs
      /\ PhaseRank[cache[v].phase] \in Int /\ PhaseRank[loc[v].phase] \in Int
  <2>1. exam'.phase \in ExamPhases /\ clock' \in 0..MaxClock
    BY DEF TypeOK, ExamObjects
  <2>2. q \in 0..6
    BY <2>1, RankType
  <2>3. clock' \in Int
    BY <2>1, ControllerAssumption
  <2>4. QED
    BY <2>2, <2>3, Numbers
<1>2. CacheInv(v)'
  BY <1>1 DEF WorkerInv, CacheInv, OlderVersion, Past, Progress
<1>3. FreshInv(v)'
  <2>1. CASE fresh'[v] = FALSE
    BY <2>1 DEF FreshInv
  <2>2. CASE fresh'[v]
    <3>1. fresh[v] /\ exam' = exam /\ FreshInv(v)
      BY <2>2 DEF WorkerInv
    <3>2. pc[v] \in InHandler =>
            Contract!MayFollow(exam.phase, loc[v].phase, exam.spec, clock')
      BY <1>1, <3>1, FollowLater DEF FreshInv, Progress
    <3>3. QED
      BY <3>1, <3>2 DEF FreshInv, Contract!MayFollow, Contract!ProvisionTime,
         Contract!LockTime, Contract!RetentionDeadline
  <2>3. QED
    BY <2>1, <2>2 DEF TypeOK
<1>4. InFlightInv(v)'
  <2>1. pc[v] \in BeforeDispatch => OlderVersion(loc[v])'
    BY <1>1 DEF WorkerInv, InFlightInv, OlderVersion, Past, Progress
  <2>2. pc[v] \in InDeletion => exam'.deleting
    BY DEF WorkerInv, InFlightInv, Progress
  <2>3. pc[v] \in InHandler =>
          /\ Past(loc[v].phase, 3) => Kept'
          /\ Past(loc[v].phase, 4) => Past(exam'.phase, 3)
          /\ WebhookEnabled /\ Past(loc[v].phase, 4) => clock' >= exam'.spec.unlock
          /\ Past(loc[v].phase, 6) => Past(exam'.phase, 5)
    BY <1>1 DEF WorkerInv, InFlightInv, Past, Progress
  <2>4. QED
    BY <2>1, <2>2, <2>3 DEF InFlightInv
<1>5. QED
  BY <1>2, <1>3, <1>4 DEF WorkerInv

\* A step of w's reconcile that writes neither the Exam nor a cache.
LocalStep(w) ==
  /\ UNCHANGED <<clock, exam, cache, synced>>
  /\ Kept => Kept'
  /\ \A v \in Workers \ {w} :
       pc'[v] = pc[v] /\ loc'[v] = loc[v] /\ fresh'[v] = fresh[v]

\* Such a step has only to be shown to keep w's own copy right and the
\* cluster in order.
LEMMA LocalKeeps ==
  ASSUME TypeOK, TypeOK', IInv, HandlerPhaseInv', NEW w \in Workers,
         LocalStep(w), FreshInv(w)', InFlightInv(w)', StoredInv'
  PROVE  IInv'
<1>1. Progress
  BY Numbers DEF LocalStep, Progress
<1>2. ASSUME NEW v \in Workers PROVE WorkerInv(v)'
  <2>1. CASE v = w
    BY <2>1 DEF WorkerInv, CacheInv, OlderVersion, LocalStep, IInv
  <2>2. CASE v # w
    BY <2>2, <1>1, OthersKeep DEF LocalStep, IInv
  <2>3. QED
    BY <2>1, <2>2
<1>3. QED
  BY <1>2 DEF IInv

\* StoredInv survives a step that leaves the stored Exam, the namespace and
\* the clock alone and adds no route.
LEMMA StoredKeeps ==
  ASSUME StoredInv, UNCHANGED <<clock, exam, ns>>,
         objs' \cap AccessObjects \subseteq objs \cap AccessObjects,
         ns = "absent" => objs' = {}
  PROVE  StoredInv'
  BY DEF StoredInv, Kept

LEMMA IInvInit == Init => IInv
<1> SUFFICES ASSUME Init PROVE IInv
  OBVIOUS
<1>1. exam.phase = "Unset" /\ exam.present /\ exam.deleting = FALSE
  BY DEF Init, NewExam
<1>2. PhaseRank[exam.phase] = 0
  BY <1>1, RankValues
<1>3. StoredInv
  BY <1>1, <1>2 DEF Init, StoredInv, Past
<1>4. ASSUME NEW w \in Workers PROVE WorkerInv(w) /\ HandlerPhaseOK(w)
  BY <1>1, <1>2 DEF Init, WorkerInv, CacheInv, OlderVersion, FreshInv, InFlightInv,
     HandlerPhaseOK, Past, BeforeDispatch, InHandler, InDeletion
<1>5. QED
  BY <1>3, <1>4 DEF IInv, HandlerPhaseInv

\* A reconcile that returns without writing the Exam.
LEMMA ReturnKeeps ==
  ASSUME TypeOK, TypeOK', IInv, HandlerPhaseInv', NEW w \in Workers,
         ReturnNoWrite(w), UNCHANGED <<clock, cluster, cache>>
  PROVE  IInv'
<1>1. pc'[w] = "idle" /\ fresh'[w] = FALSE
  BY DEF ReturnNoWrite, Return, TypeOK
<1>2. LocalStep(w)
  BY DEF ReturnNoWrite, Return, LocalStep, TypeOK, cluster, Kept
<1>3. FreshInv(w)' /\ InFlightInv(w)'
  BY <1>1 DEF FreshInv, InFlightInv, BeforeDispatch, InHandler, InDeletion
<1>4. StoredInv'
  BY StoredKeeps DEF IInv, ReturnNoWrite, cluster, StoredInv
<1>5. QED
  BY <1>2, <1>3, <1>4, LocalKeeps

\* The dispatch: a phase decided from a copy, however old, is one the stored
\* Exam and the clock allow.
LEMMA DispatchKeeps ==
  ASSUME TypeOK, TypeOK', IInv, HandlerPhaseInv', NEW w \in Workers,
         NEW e \in ExamObjects, OlderVersion(e), DecideOn(w, e),
         fresh'[w] => e = exam /\ exam.present,
         \A v \in Workers \ {w} : fresh'[v] = fresh[v],
         UNCHANGED <<clock, exam, cluster, cache, synced>>
  PROVE  IInv'
<1> DEFINE d == determineDesiredPhase(e.phase, e.spec, clock)
<1>1. /\ e.phase \in ExamPhases /\ e.spec \in Specs /\ clock \in Int
      /\ PhaseRank[e.phase] \in Int /\ PhaseRank[exam.phase] \in Int
      /\ e.spec.unlock \in Int
  <2>1. e.phase \in ExamPhases /\ e.spec \in Specs
    BY DEF ExamObjects
  <2>2. PhaseRank[e.phase] \in 0..6
    BY <2>1, RankType
  <2>3. QED
    BY <2>1, <2>2, Numbers, ScheduleType
<1>2. d \in ExamPhases /\ PhaseRank[d] \in 0..6
  BY <1>1, DesiredPhaseType, RankType
<1>3. loc'[w].phase = d /\ loc'[w].spec = e.spec /\ pc'[w] = HandlerLabel(e, d)
  BY DEF DecideOn, Goto, TypeOK, ExamObjects
<1>4. pc'[w] \in InHandler
  BY <1>2, <1>3, HandlerEntry
<1>5. pc'[w] # "idle" /\ pc'[w] \notin BeforeDispatch /\ pc'[w] \notin InDeletion
  BY <1>4 DEF InHandler, BeforeDispatch, InDeletion
<1>6. LocalStep(w)
  BY DEF LocalStep, DecideOn, Goto, TypeOK, cluster, Kept
<1>7. FreshInv(w)'
  <2>1. Contract!MayFollow(e.phase, d, e.spec, clock)
    BY <1>1, DesiredFollows
  <2>2. fresh'[w] => /\ exam'.present /\ loc'[w].spec = exam'.spec
                     /\ Contract!MayFollow(exam'.phase, loc'[w].phase, exam'.spec, clock')
    BY <2>1, <1>3
  <2>3. QED
    BY <2>2, <1>5 DEF FreshInv, Contract!MayFollow, Contract!ProvisionTime,
       Contract!LockTime, Contract!RetentionDeadline
<1>8. InFlightInv(w)'
  <2>1. /\ Past(d, 3) => Past(e.phase, 3)
        /\ Past(d, 6) => Past(e.phase, 5)
        /\ Past(d, 4) /\ ~Past(e.phase, 4) => clock >= e.spec.unlock
    BY <1>1, DesiredOrigin
  <2>2. StoredInv
    BY DEF IInv
  <2>3. Past(d, 3) => Kept
    BY <1>1, <2>1, <2>2 DEF StoredInv, OlderVersion, Past
  <2>4. /\ Past(d, 4) => Past(exam.phase, 3)
        /\ WebhookEnabled /\ Past(d, 4) => clock >= exam.spec.unlock
    BY <1>1, <1>2, <2>1, <2>2 DEF StoredInv, OlderVersion, Past
  <2>5. Past(d, 6) => Past(exam.phase, 5)
    BY <1>1, <2>1 DEF OlderVersion, Past
  <2>6. QED
    BY <1>3, <1>5, <2>3, <2>4, <2>5 DEF InFlightInv, Kept, cluster
<1>9. StoredInv'
  BY StoredKeeps DEF IInv, cluster, StoredInv
<1>10. QED
  BY <1>6, <1>7, <1>8, <1>9, LocalKeeps

\* A step of w that writes the Exam and goes idle or on with the new version.
LEMMA WriteKeeps ==
  ASSUME TypeOK, TypeOK', IInv, HandlerPhaseInv', NEW w \in Workers, Progress,
         \A v \in Workers \ {w} : pc'[v] = pc[v] /\ loc'[v] = loc[v],
         Store(exam'), UNCHANGED cache,
         \A v \in Workers \ {w} : fresh'[v] => fresh[v] /\ exam' = exam,
         FreshInv(w)', InFlightInv(w)', StoredInv'
  PROVE  IInv'
<1>1. \A v \in Workers : synced'[v] => synced[v] /\ exam' = exam
  BY DEF Store
<1>2. ASSUME NEW v \in Workers PROVE WorkerInv(v)'
  <2>1. CASE v = w
    <3>1. CacheInv(w)
      BY DEF IInv, WorkerInv
    <3>2. PhaseRank[exam'.phase] \in Int
      <4>1. exam'.phase \in ExamPhases
        BY DEF TypeOK, ExamObjects
      <4>2. PhaseRank[exam'.phase] \in 0..6
        BY <4>1, RankType
      <4>3. QED
        BY <4>2
    <3>3. CacheInv(w)'
      BY <3>1, <3>2, <1>1, Numbers DEF CacheInv, OlderVersion, Past, Progress
    <3>4. QED
      BY <2>1, <3>3 DEF WorkerInv
  <2>2. CASE v # w
    BY <2>2, <1>1, OthersKeep DEF IInv
  <2>3. QED
    BY <2>1, <2>2
<1>3. QED
  BY <1>2 DEF IInv

\* The steps of a reconcile up to the dispatch.
LEMMA IInvBegin ==
  ASSUME TypeOK, TypeOK', IInv, HandlerPhaseInv', NEW w \in Workers,
         Get(w) \/ Decide(w) \/ AddFinalizer(w)
  PROVE  IInv'
<1>0. /\ cache[w] \in ExamObjects /\ loc[w] \in ExamObjects
      /\ CacheInv(w) /\ FreshInv(w) /\ InFlightInv(w) /\ StoredInv
  BY DEF TypeOK, IInv, WorkerInv
<1>1. CASE Get(w)
  <2>0. /\ fresh'[w] = synced[w]
        /\ \A v \in Workers \ {w} : fresh'[v] = fresh[v]
        /\ UNCHANGED <<clock, exam, cluster, cache, synced>>
    BY <1>1 DEF Get, TypeOK
  <2>1. CASE DecideOn(w, cache[w])
    <3>1. fresh'[w] => cache[w] = exam /\ exam.present
      BY <1>0, <1>1, <2>0 DEF Get, CacheInv
    <3>2. QED
      BY <1>0, <2>0, <2>1, <3>1, DispatchKeeps DEF CacheInv
  <2>2. CASE ~DecideOn(w, cache[w])
    <3>1. /\ loc' = [loc EXCEPT ![w] = cache[w]]
          /\ cache[w].present
          /\ Goto(w, IF cache[w].deleting THEN "finalizeDelete" ELSE "addFinalizer")
      BY <1>1, <2>2 DEF Get
    <3>2. /\ loc'[w] = cache[w]
          /\ pc'[w] = IF cache[w].deleting THEN "finalizeDelete" ELSE "addFinalizer"
      BY <3>1 DEF Goto, TypeOK
    <3>3. LocalStep(w)
      BY <2>0, <3>1 DEF LocalStep, Goto, TypeOK, cluster, Kept
    <3>4. FreshInv(w)'
      BY <1>0, <2>0, <3>1, <3>2 DEF FreshInv, CacheInv, BeforeDispatch, InHandler
    <3>5. InFlightInv(w)'
      BY <1>0, <2>0, <3>2 DEF InFlightInv, CacheInv, OlderVersion, BeforeDispatch,
         InHandler, InDeletion
    <3>6. StoredInv'
      BY <1>0, <2>0, StoredKeeps DEF cluster, StoredInv
    <3>7. QED
      BY <3>3, <3>4, <3>5, <3>6, LocalKeeps
  <2>3. QED
    BY <2>1, <2>2
<1>2. CASE Decide(w)
  <2>1. /\ pc[w] = "decide" /\ DecideOn(w, loc[w])
        /\ UNCHANGED <<clock, exam, cluster, cache, synced, fresh>>
    BY <1>2 DEF Decide
  <2>2. OlderVersion(loc[w]) /\ (fresh'[w] => loc[w] = exam /\ exam.present)
    BY <1>0, <2>1 DEF FreshInv, InFlightInv, BeforeDispatch
  <2>3. QED
    BY <1>0, <2>1, <2>2, DispatchKeeps
<1>3. CASE AddFinalizer(w)
  <2>1. CASE ReturnNoWrite(w)
    BY <1>3, <2>1, ReturnKeeps DEF AddFinalizer
  <2>2. CASE ~ReturnNoWrite(w)
    <3>1. /\ pc[w] = "addFinalizer" /\ fresh[w]
          /\ exam' = [exam EXCEPT !.finalizer = TRUE] /\ Store(exam')
          /\ loc' = [loc EXCEPT ![w] = [loc[w] EXCEPT !.finalizer = TRUE]]
          /\ fresh' = FreshAfter(exam', w, TRUE)
          /\ pc' = [pc EXCEPT ![w] = "decide"]
          /\ UNCHANGED <<clock, cluster, cache>>
      BY <1>3, <2>2 DEF AddFinalizer, Conflict, Store, Goto
    <3>2. loc[w] = exam /\ exam.present
      BY <1>0, <3>1 DEF FreshInv, BeforeDispatch
    <3>3. /\ exam'.phase = exam.phase /\ exam'.spec = exam.spec
          /\ exam'.deleting = exam.deleting /\ exam'.present = exam.present
          /\ loc'[w] = exam' /\ pc'[w] = "decide"
      BY <3>1, <3>2 DEF TypeOK, ExamObjects
    <3>4. Progress
      BY <3>1, <3>3, Numbers DEF Progress, Kept, cluster, Past
    <3>5. FreshInv(w)'
      BY <3>2, <3>3 DEF FreshInv, BeforeDispatch, InHandler
    <3>6. InFlightInv(w)'
      <4>1. exam'.phase \in ExamPhases
        BY DEF TypeOK, ExamObjects
      <4>2. PhaseRank[exam'.phase] \in 0..6
        BY <4>1, RankType
      <4>3. OlderVersion(loc[w])'
        BY <3>3, <4>2 DEF OlderVersion
      <4>4. QED
        BY <3>3, <4>3 DEF InFlightInv, BeforeDispatch, InHandler, InDeletion
    <3>7. StoredInv'
      BY <1>0, <3>1, <3>3 DEF StoredInv, Kept, cluster
    <3>8. \A v \in Workers \ {w} : /\ pc'[v] = pc[v] /\ loc'[v] = loc[v]
                                   /\ fresh'[v] => fresh[v] /\ exam' = exam
      BY <3>1 DEF FreshAfter, TypeOK
    <3>9. QED
      BY <3>1, <3>4, <3>5, <3>6, <3>7, <3>8, WriteKeeps
  <2>3. QED
    BY <2>1, <2>2
<1>4. QED
  BY <1>1, <1>2, <1>3

\* The steps that end a reconcile by writing the Exam.
LEMMA IInvWrite ==
  ASSUME TypeOK, TypeOK', IInv, HandlerPhaseInv', NEW w \in Workers,
         StatusUpdate(w) \/ RemoveFinalizer(w)
  PROVE  IInv'
<1>0. FreshInv(w) /\ InFlightInv(w) /\ StoredInv
  BY DEF IInv, WorkerInv
<1>1. CASE ReturnNoWrite(w)
  BY <1>1, ReturnKeeps DEF StatusUpdate, RemoveFinalizer
<1>2. CASE ~ReturnNoWrite(w)
  <2>1. /\ fresh[w] /\ Return(w) /\ Store(exam')
        /\ fresh' = FreshAfter(exam', w, FALSE)
        /\ UNCHANGED <<clock, cluster, cache>>
    BY <1>2 DEF StatusUpdate, RemoveFinalizer, Conflict, Store
  <2>2. pc'[w] = "idle" /\ fresh'[w] = FALSE
    BY <2>1 DEF Return, FreshAfter, TypeOK
  <2>3. FreshInv(w)' /\ InFlightInv(w)'
    BY <2>2 DEF FreshInv, InFlightInv, BeforeDispatch, InHandler, InDeletion
  <2>4. \A v \in Workers \ {w} : /\ pc'[v] = pc[v] /\ loc'[v] = loc[v]
                                 /\ fresh'[v] => fresh[v] /\ exam' = exam
    BY <2>1 DEF FreshAfter, Return, TypeOK
  <2>5. CASE StatusUpdate(w)
    <3>1. /\ pc[w] = "status"
          /\ exam' = [exam EXCEPT !.phase = loc[w].phase, !.inst = loc[w].inst,
                                  !.mail = loc[w].mail, !.conds = loc[w].conds]
      BY <1>2, <2>5 DEF StatusUpdate, Store
    <3>2. /\ exam'.phase = loc[w].phase /\ exam'.spec = exam.spec
          /\ exam'.deleting = exam.deleting /\ exam'.present = exam.present
      BY <3>1 DEF TypeOK, ExamObjects
    <3>3. /\ clock \in Int /\ exam.phase \in ExamPhases /\ loc[w].phase \in ExamPhases
          /\ PhaseRank[exam.phase] \in Int /\ PhaseRank[loc[w].phase] \in Int
          /\ exam.spec \in Specs
      BY Numbers
    <3>4. Contract!MayFollow(exam.phase, loc[w].phase, exam.spec, clock)
      BY <1>0, <2>1, <3>1 DEF FreshInv, InHandler
    <3>5. PhaseRank[exam.phase] <= PhaseRank[loc[w].phase]
      BY <3>3, <3>4, FollowRank
    <3>6. Progress
      BY <2>1, <3>2, <3>3, <3>5 DEF Progress, Kept, cluster, Past
    <3>7. /\ Past(loc[w].phase, 3) => Kept
          /\ WebhookEnabled /\ Past(loc[w].phase, 4) => clock >= exam.spec.unlock
      BY <1>0, <3>1 DEF InFlightInv, InHandler
    <3>8. WebhookEnabled /\ Past(loc[w].phase, 5) => clock >= LockTime(exam.spec)
      <4>1. CASE Past(exam.phase, 5)
        BY <4>1, <1>0 DEF StoredInv
      <4>2. CASE ~Past(exam.phase, 5)
        BY <4>2, <3>3, <3>4, RankValues, SameSchedule DEF Past, Contract!MayFollow, ExamPhases
      <4>3. QED
        BY <4>1, <4>2
    <3>9. StoredInv'
      <4>1. Kept => Kept'
        BY <3>6 DEF Progress
      <4>2. /\ clock' = clock /\ ns' = ns /\ objs' = objs
        BY <2>1 DEF cluster
      <4>3. Past(exam.phase, 2) => Past(loc[w].phase, 2)
        BY <3>3, <3>5 DEF Past
      <4>4. QED
        BY <1>0, <3>2, <3>7, <3>8, <4>1, <4>2, <4>3 DEF StoredInv
    <3>10. QED
      BY <2>1, <2>3, <2>4, <3>6, <3>9, WriteKeeps
  <2>6. CASE RemoveFinalizer(w)
    <3>1. /\ pc[w] = "removeFinalizer"
          /\ exam' = [exam EXCEPT !.present = FALSE, !.finalizer = FALSE]
      BY <1>2, <2>6 DEF RemoveFinalizer, Store
    <3>2. /\ exam'.phase = exam.phase /\ exam'.spec = exam.spec
          /\ exam'.deleting = exam.deleting
      BY <3>1 DEF TypeOK, ExamObjects
    <3>3. exam.deleting
      BY <1>0, <3>1 DEF InFlightInv, InDeletion
    <3>4. Progress
      BY <2>1, <3>2, Numbers DEF Progress, Kept, cluster, Past
    <3>5. StoredInv'
      BY <1>0, <2>1, <3>2, <3>3 DEF StoredInv, Kept, cluster
    <3>6. QED
      BY <2>1, <2>3, <2>4, <3>4, <3>5, WriteKeeps
  <2>7. QED
    BY <2>5, <2>6
<1>3. QED
  BY <1>1, <1>2

\* A handler step that leaves the phase and the spec of its copy alone.
LEMMA HandlerKeeps ==
  ASSUME TypeOK, TypeOK', IInv, HandlerPhaseInv', NEW w \in Workers,
         pc[w] \in InHandler, pc'[w] \in InHandler,
         loc'[w].phase = loc[w].phase, loc'[w].spec = loc[w].spec,
         \A v \in Workers \ {w} : pc'[v] = pc[v] /\ loc'[v] = loc[v],
         UNCHANGED <<clock, exam, cache, synced, fresh>>,
         Kept => Kept', StoredInv'
  PROVE  IInv'
<1>1. FreshInv(w) /\ InFlightInv(w)
  BY DEF IInv, WorkerInv
<1>2. pc'[w] # "idle" /\ pc'[w] \notin BeforeDispatch /\ pc'[w] \notin InDeletion
  BY DEF InHandler, BeforeDispatch, InDeletion
<1>3. FreshInv(w)'
  BY <1>1, <1>2 DEF FreshInv, Contract!MayFollow, Contract!ProvisionTime,
     Contract!LockTime, Contract!RetentionDeadline
<1>4. InFlightInv(w)'
  BY <1>1, <1>2 DEF InFlightInv
<1>5. LocalStep(w)
  BY DEF LocalStep
<1>6. QED
  BY <1>3, <1>4, <1>5, LocalKeeps

\* reconcileProvisioning.
LEMMA IInvProvisioning ==
  ASSUME TypeOK, TypeOK', IInv, HandlerPhaseInv', NEW w \in Workers,
         \/ CreateNamespace(w) \/ provisionInstance(w) \/ SlugError(w)
         \/ FinishProvisioning(w)
  PROVE  IInv'
<1>0. /\ loc[w] \in ExamObjects
      /\ FreshInv(w) /\ InFlightInv(w) /\ StoredInv /\ HandlerPhaseOK(w)
  BY DEF TypeOK, IInv, WorkerInv, HandlerPhaseInv
<1>1. CASE CreateNamespace(w)
  <2>1. /\ pc[w] \in InHandler /\ pc'[w] \in InHandler
        /\ \A v \in Workers \ {w} : pc'[v] = pc[v]
        /\ UNCHANGED <<clock, exam, objs, cache, synced, loc, fresh>>
    BY <1>1 DEF CreateNamespace, Goto, TypeOK, InHandler
  <2>2. ns' = ns \/ (ns = "absent" /\ ns' = "active")
    BY <1>1 DEF CreateNamespace
  <2>3. Kept => Kept'
    BY <2>1, <2>2 DEF Kept
  <2>4. StoredInv'
    BY <1>0, <2>1, <2>2, <2>3 DEF StoredInv
  <2>5. QED
    BY <2>1, <2>3, <2>4, HandlerKeeps
<1>2. CASE provisionInstance(w)
  <2>1. PICK i \in todo[w], n \in 0..4 :
          /\ ns # "active" => n = 0
          /\ objs' = objs \cup Create({ProvisionedKinds[k] : k \in 1..n}, i)
          /\ loc' = [loc EXCEPT ![w] = setInstanceStatus(loc[w], i, n = 4)]
    BY <1>2 DEF provisionInstance
  <2>2. /\ pc[w] = "provision"
        /\ UNCHANGED <<clock, exam, ns, cache, synced, pc, fresh>>
    BY <1>2 DEF provisionInstance
  <2>3. /\ loc'[w].phase = loc[w].phase /\ loc'[w].spec = loc[w].spec
        /\ \A v \in Workers \ {w} : loc'[v] = loc[v]
    BY <1>0, <2>1 DEF setInstanceStatus, TypeOK, ExamObjects
  <2>4. Create({ProvisionedKinds[k] : k \in 1..n}, i) \cap AccessObjects = {}
    BY ProvisionedKindsType DEF Create, AccessObjects
  <2>5. ns = "absent" => objs' = {}
    BY <1>0, <2>1 DEF StoredInv, Create
  <2>6. StoredInv'
    BY <1>0, <2>1, <2>2, <2>4, <2>5, StoredKeeps
  <2>7. QED
    BY <2>2, <2>3, <2>6, HandlerKeeps DEF InHandler, Kept
<1>3. CASE FinishProvisioning(w)
  <2>1. /\ pc[w] = "provision" /\ pc'[w] = "status"
        /\ \A v \in Workers \ {w} : pc'[v] = pc[v]
        /\ UNCHANGED <<clock, exam, ns, cache, synced, fresh>>
        /\ objs' \subseteq objs
    BY <1>3 DEF FinishProvisioning, Goto, TypeOK
  <2>2. StoredInv'
    <3>1. ns = "absent" => objs' = {}
      BY <1>0, <2>1 DEF StoredInv
    <3>2. QED
      BY <1>0, <2>1, <3>1, StoredKeeps
  <2>3. Kept => Kept'
    BY <2>1 DEF Kept
  <2>4. CASE loc' = loc
    BY <2>1, <2>2, <2>3, <2>4, HandlerKeeps DEF InHandler
  <2>5. CASE loc' # loc
    <3>1. /\ allInstancesHealthy(objs, ready)
          /\ \E cs : loc' = [loc EXCEPT ![w] = [loc[w] EXCEPT !.phase = "Ready", !.conds = cs]]
      <4>1. PICK healthy \in BOOLEAN :
              /\ healthy => allInstancesHealthy(objs, ready)
              /\ loc' = IF healthy
                        THEN [loc EXCEPT ![w].phase = "Ready",
                                         ![w].conds = @ \cup {"Provisioned"}]
                        ELSE loc
        BY <1>3 DEF FinishProvisioning
      <4>2. [loc EXCEPT ![w].phase = "Ready", ![w].conds = @ \cup {"Provisioned"}]
              = [loc EXCEPT ![w] = [loc[w] EXCEPT !.phase = "Ready",
                                      !.conds = loc[w].conds \cup {"Provisioned"}]]
        BY <1>0 DEF TypeOK, ExamObjects
      <4>3. QED
        BY <2>5, <4>1, <4>2
    <3>2. /\ loc'[w].phase = "Ready" /\ loc'[w].spec = loc[w].spec
          /\ \A v \in Workers \ {w} : loc'[v] = loc[v]
      BY <1>0, <3>1 DEF TypeOK, ExamObjects
    <3>3. Kept
      <4>1. 1 \in Instances
        BY ControllerAssumption DEF Instances
      <4>2. <<"deployment", 1>> \in objs
        BY <3>1, <4>1 DEF allInstancesHealthy, Deployed
      <4>3. ns # "absent"
        BY <1>0, <4>2 DEF StoredInv
      <4>4. QED
        BY <1>0, <4>3 DEF StoredInv, Kept, TypeOK
    <3>4. InFlightInv(w)'
      BY <2>1, <2>3, <3>2, <3>3, RankValues
      DEF InFlightInv, Past, BeforeDispatch, InHandler, InDeletion
    <3>5. FreshInv(w)'
      <4>1. loc[w].phase = "Provisioning"
        BY <1>0, <2>1 DEF HandlerPhaseOK
      <4>2. fresh[w] => /\ exam.present /\ loc[w].spec = exam.spec
                        /\ Contract!MayFollow(exam.phase, "Provisioning", exam.spec, clock)
        BY <1>0, <2>1, <4>1 DEF FreshInv, InHandler
      <4>3. fresh[w] => Contract!MayFollow(exam.phase, "Ready", exam.spec, clock)
        BY <4>2 DEF Contract!MayFollow
      <4>4. QED
        BY <2>1, <3>2, <4>2, <4>3 DEF FreshInv, BeforeDispatch, InHandler,
           Contract!MayFollow, Contract!ProvisionTime, Contract!LockTime,
           Contract!RetentionDeadline
    <3>6. LocalStep(w)
      BY <2>1, <2>3, <3>2 DEF LocalStep
    <3>7. QED
      BY <2>2, <3>4, <3>5, <3>6, LocalKeeps
  <2>6. QED
    BY <2>4, <2>5
<1>4. CASE SlugError(w)
  <2>1. /\ pc[w] = "provision" /\ pc'[w] = "status"
        /\ \A v \in Workers \ {w} : pc'[v] = pc[v]
        /\ UNCHANGED <<clock, exam, ns, objs, cache, synced, loc, fresh>>
    BY <1>4 DEF SlugError, Goto, TypeOK, cluster
  <2>2. StoredInv'
    BY <1>0, <2>1 DEF StoredInv, Kept
  <2>3. QED
    BY <2>1, <2>2, HandlerKeeps DEF InHandler, Kept
<1>5. QED
  BY <1>1, <1>2, <1>3, <1>4

\* The handlers of the phases from Ready on.
LEMMA IInvHandlers ==
  ASSUME TypeOK, TypeOK', IInv, HandlerPhaseInv', NEW w \in Workers,
         \/ sendNextPendingEmail(w) \/ ReadyContinue(w) \/ enforcePolicies(w)
         \/ deleteIngresses(w) \/ NotifyInstructor(w) \/ reconcileTeardown(w)
  PROVE  IInv'
<1>0. /\ loc[w] \in ExamObjects
      /\ InFlightInv(w) /\ StoredInv /\ HandlerPhaseOK(w)
  BY DEF TypeOK, IInv, WorkerInv, HandlerPhaseInv
<1>1. /\ pc[w] \in InHandler /\ pc'[w] \in InHandler
      /\ \A v \in Workers \ {w} : pc'[v] = pc[v] /\ loc'[v] = loc[v]
      /\ UNCHANGED <<clock, exam, cache, synced, fresh>>
  <2>1. pc[w] \in InHandler /\ UNCHANGED <<clock, exam, cache, synced, fresh>>
    BY DEF sendNextPendingEmail, ReadyContinue, enforcePolicies, deleteIngresses,
       NotifyInstructor, reconcileTeardown, InHandler
  <2>2. \E l \in InHandler : Goto(w, l)
    BY DEF sendNextPendingEmail, ReadyContinue, enforcePolicies, deleteIngresses,
       NotifyInstructor, reconcileTeardown, InHandler, EnforceLabel, AfterEnforce
  <2>3. \A v \in Workers \ {w} : loc'[v] = loc[v]
    BY DEF sendNextPendingEmail, ReadyContinue, enforcePolicies, deleteIngresses,
       NotifyInstructor, reconcileTeardown, TypeOK
  <2>4. QED
    BY <2>1, <2>2, <2>3 DEF Goto, TypeOK
<1>2. loc'[w].phase = loc[w].phase /\ loc'[w].spec = loc[w].spec
  <2>1. CASE sendNextPendingEmail(w)
    BY <2>1, <1>0 DEF sendNextPendingEmail, TypeOK, ExamObjects
  <2>2. CASE ReadyContinue(w)
    BY <2>2, <1>0 DEF ReadyContinue, TypeOK, ExamObjects
  <2>3. CASE NotifyInstructor(w)
    BY <2>3, <1>0 DEF NotifyInstructor, TypeOK, ExamObjects
  <2>4. CASE UNCHANGED loc
    BY <2>4
  <2>5. QED
    BY <2>1, <2>2, <2>3, <2>4 DEF enforcePolicies, deleteIngresses, reconcileTeardown
<1>3. /\ Kept => Kept'
      /\ StoredInv'
  <2>1. CASE reconcileTeardown(w)
    <3>1. Past(exam.phase, 5)
      BY <1>0, <2>1, RankValues
      DEF reconcileTeardown, HandlerPhaseOK, InFlightInv, InHandler, Past
    <3>2. objs' = objs /\ (ns' = ns \/ (ns = "active" /\ ns' = "terminating"))
      BY <2>1 DEF reconcileTeardown, DeleteNamespace
    <3>3. Kept'
      BY <1>1, <3>1 DEF Kept
    <3>4. QED
      BY <1>0, <1>1, <3>2, <3>3 DEF StoredInv
  <2>2. CASE enforcePolicies(w)
    <3>1. PICK i \in todo[w], failed \in SUBSET (EnforceCreates(w) \cup EnforceDeletes(w)) :
            objs' = (objs \cup Create(EnforceCreates(w) \ failed, i))
                      \ ((EnforceDeletes(w) \ failed) \X {i})
      BY <2>2 DEF enforcePolicies
    <3>2. ns' = ns /\ pc[w] = "enforce"
      BY <2>2 DEF enforcePolicies
    <3>3. ns = "absent" => objs' = {}
      BY <1>0, <3>1 DEF StoredInv, Create
    <3>4. Kept => Kept'
      BY <1>1, <3>2 DEF Kept
    <3>5. CASE loc[w].phase = "Unlocked"
      <4>1. (WebhookEnabled => clock >= exam.spec.unlock) /\ Past(exam.phase, 3)
        BY <1>0, <3>2, <3>5, RankValues DEF InFlightInv, InHandler, Past
      <4>2. Past(exam.phase, 2)
        BY <4>1, Numbers DEF Past
      <4>3. QED
        BY <1>0, <1>1, <3>2, <3>3, <3>4, <4>1, <4>2 DEF StoredInv
    <3>6. CASE loc[w].phase # "Unlocked"
      <4>1. Create(EnforceCreates(w) \ failed, i) \cap AccessObjects = {}
        BY <3>6 DEF Create, EnforceCreates, Unlocking, AccessObjects, AccessKinds
      <4>2. QED
        BY <1>0, <1>1, <3>1, <3>2, <3>3, <3>4, <4>1, StoredKeeps
    <3>7. QED
      BY <3>5, <3>6
  <2>3. CASE ns' = ns /\ objs' \subseteq objs
    <3>1. ns = "absent" => objs' = {}
      BY <1>0, <2>3 DEF StoredInv
    <3>2. QED
      BY <1>0, <1>1, <2>3, <3>1, StoredKeeps DEF Kept
  <2>4. QED
    BY <2>1, <2>2, <2>3 DEF sendNextPendingEmail, ReadyContinue, deleteIngresses,
       NotifyInstructor, cluster
<1>4. QED
  BY <1>1, <1>2, <1>3, HandlerKeeps

\* The finalizer's teardown.
LEMMA IInvFinalize ==
  ASSUME TypeOK, TypeOK', IInv, HandlerPhaseInv', NEW w \in Workers, FinalizeDelete(w)
  PROVE  IInv'
<1>0. FreshInv(w) /\ InFlightInv(w) /\ StoredInv
  BY DEF IInv, WorkerInv
<1>1. CASE ReturnNoWrite(w)
  <2>1. CASE ns' = ns
    BY <1>1, <2>1, ReturnKeeps DEF FinalizeDelete, cluster
  <2>2. CASE ns' # ns
    <3>1. pc'[w] = "removeFinalizer"
      BY <2>2 DEF FinalizeDelete, Goto, TypeOK
    <3>2. pc'[w] = "idle"
      BY <1>1 DEF ReturnNoWrite, Return, TypeOK
    <3>3. QED
      BY <3>1, <3>2
  <2>3. QED
    BY <2>1, <2>2
<1>2. CASE ~ReturnNoWrite(w)
  <2>1. /\ pc[w] = "finalizeDelete" /\ DeleteNamespace
        /\ loc' = [loc EXCEPT ![w].phase = "TearingDown"]
        /\ Goto(w, "removeFinalizer")
        /\ UNCHANGED <<clock, exam, objs, cache, synced, fresh>>
    BY <1>2 DEF FinalizeDelete
  <2>2. exam.deleting
    BY <1>0, <2>1 DEF InFlightInv, InDeletion
  <2>3. /\ pc'[w] = "removeFinalizer" /\ loc'[w].spec = loc[w].spec
        /\ \A v \in Workers \ {w} : pc'[v] = pc[v] /\ loc'[v] = loc[v]
    BY <2>1 DEF Goto, TypeOK, ExamObjects
  <2>4. Kept'
    BY <2>1, <2>2 DEF Kept
  <2>5. LocalStep(w)
    BY <2>1, <2>3, <2>4 DEF LocalStep
  <2>6. FreshInv(w)' /\ InFlightInv(w)'
    BY <1>0, <2>1, <2>2, <2>3 DEF FreshInv, InFlightInv, BeforeDispatch, InHandler,
       InDeletion
  <2>7. StoredInv'
    BY <1>0, <2>1, <2>4 DEF StoredInv, DeleteNamespace
  <2>8. QED
    BY <2>5, <2>6, <2>7, LocalKeeps
<1>3. QED
  BY <1>1, <1>2

\* Time, the instructor, the cluster and restarts.
LEMMA IInvEnvironment ==
  ASSUME TypeOK, TypeOK', IInv, HandlerPhaseInv', Environment
  PROVE  IInv'
<1>0. StoredInv /\ \A v \in Workers : WorkerInv(v)
  BY DEF IInv
<1>1. ASSUME Progress, UNCHANGED <<pc, loc, cache>>, StoredInv',
             \A v \in Workers : synced'[v] => synced[v] /\ exam' = exam,
             \A v \in Workers : fresh'[v] => fresh[v] /\ exam' = exam
      PROVE  IInv'
  BY <1>0, <1>1, OthersKeep DEF IInv
<1>2. CASE Tick
  <2>1. clock' = clock + 1 /\ UNCHANGED <<exam, ns, objs, cache, synced, pc, loc, fresh>>
    BY <1>2 DEF Tick, cluster, worker
  <2>2. Progress
    BY <2>1, Numbers DEF Progress, Kept
  <2>3. StoredInv'
    BY <1>0, <2>1, Numbers DEF StoredInv, Kept
  <2>4. QED
    BY <1>1, <2>1, <2>2, <2>3
<1>3. ASSUME NEW s \in Specs, EditSpec(s) PROVE IInv'
  <2>1. /\ exam' = [exam EXCEPT !.spec = s]
        /\ \A v \in Workers : synced'[v] => synced[v] /\ exam' = exam
        /\ \A v \in Workers : fresh'[v] = FALSE
        /\ UNCHANGED <<clock, ns, objs, cache, pc, loc>>
        /\ WebhookEnabled => ValidateUpdate(exam.phase, exam.spec, s, clock)
    BY <1>3 DEF EditSpec, UserStore, Store, cluster
  <2>2. /\ exam'.phase = exam.phase /\ exam'.spec = s
        /\ exam'.deleting = exam.deleting /\ exam'.present = exam.present
    BY <2>1 DEF TypeOK, ExamObjects
  <2>3. WebhookEnabled /\ Past(exam.phase, 2) => exam.spec.unlock = s.unlock
    BY <2>1, Numbers, RankValues DEF ValidateUpdate, SameAfterPending, Past
  <2>4. WebhookEnabled /\ Past(exam.phase, 5) => LockTime(exam.spec) = LockTime(s)
    <3>1. Past(exam.phase, 5) => exam.phase \in {"Locked", "TearingDown"}
      BY Numbers, RankValues DEF Past, ExamPhases
    <3>2. WebhookEnabled /\ Past(exam.phase, 5) =>
            exam.spec.unlock = s.unlock /\ SameLength(exam.spec, s)
      BY <2>1, <3>1 DEF ValidateUpdate, SameAfterPending, LockFreeze
    <3>3. QED
      BY <3>2 DEF LockTime, SameLength
  <2>5. Progress
    BY <2>1, <2>2, <2>3, Numbers DEF Progress, Kept
  <2>6. StoredInv'
    <3>1. Past(exam.phase, 4) => Past(exam.phase, 2)
      BY Numbers DEF Past
    <3>2. QED
      BY <1>0, <2>1, <2>2, <2>3, <2>4, <3>1 DEF StoredInv, Kept
  <2>7. QED
    BY <1>1, <2>1, <2>5, <2>6
<1>4. CASE DeleteExam
  <2>1. /\ exam' = IF exam.finalizer THEN [exam EXCEPT !.deleting = TRUE]
                   ELSE [exam EXCEPT !.deleting = TRUE, !.present = FALSE]
        /\ \A v \in Workers : synced'[v] => synced[v] /\ exam' = exam
        /\ \A v \in Workers : fresh'[v] = FALSE
        /\ UNCHANGED <<clock, ns, objs, cache, pc, loc>>
    BY <1>4 DEF DeleteExam, UserStore, Store, cluster
  <2>2. exam'.phase = exam.phase /\ exam'.spec = exam.spec /\ exam'.deleting
    BY <2>1 DEF TypeOK, ExamObjects
  <2>3. Progress
    BY <2>1, <2>2, Numbers DEF Progress, Kept
  <2>4. StoredInv'
    BY <1>0, <2>1, <2>2 DEF StoredInv, Kept
  <2>5. QED
    BY <1>1, <2>1, <2>3, <2>4
<1>5. CASE NamespaceGone
  <2>1. /\ ns = "terminating" /\ ns' = "absent" /\ objs' = {}
        /\ UNCHANGED <<clock, exam, cache, synced, pc, loc, fresh>>
    BY <1>5 DEF NamespaceGone, worker
  <2>2. Kept /\ Kept'
    BY <1>0, <2>1 DEF StoredInv, Kept
  <2>3. Progress
    BY <2>1, <2>2, Numbers DEF Progress
  <2>4. StoredInv'
    BY <1>0, <2>1, <2>2 DEF StoredInv
  <2>5. QED
    BY <1>1, <2>1, <2>3, <2>4
<1>6. ASSUME NEW i \in Instances, DeploymentReady(i) PROVE IInv'
  <2>1. UNCHANGED <<clock, exam, ns, objs, cache, synced, pc, loc, fresh>>
    BY <1>6 DEF DeploymentReady, worker
  <2>2. Progress
    BY <2>1, Numbers DEF Progress, Kept
  <2>3. StoredInv'
    BY <1>0, <2>1 DEF StoredInv, Kept
  <2>4. QED
    BY <1>1, <2>1, <2>2, <2>3
<1>61. ASSUME NEW o \in objs, Drift(o) PROVE IInv'
  <2>1. /\ objs' \subseteq objs
        /\ UNCHANGED <<clock, exam, ns, cache, synced, pc, loc, fresh>>
    BY <1>61 DEF Drift, worker
  <2>2. Progress
    BY <2>1, Numbers DEF Progress, Kept
  <2>3. StoredInv'
    BY <1>0, <2>1 DEF StoredInv, Kept
  <2>4. QED
    BY <1>1, <2>1, <2>2, <2>3
<1>7. ASSUME NEW w \in Workers, InformerSync(w) \/ Crash(w) PROVE IInv'
  <2>1. /\ cache' = [cache EXCEPT ![w] = exam] /\ synced' = [synced EXCEPT ![w] = TRUE]
        /\ UNCHANGED <<clock, exam, ns, objs>>
    BY <1>7 DEF InformerSync, Crash, cluster
  <2>2. Progress
    BY <2>1, Numbers DEF Progress, Kept
  <2>3. StoredInv'
    BY <1>0, <2>1 DEF StoredInv, Kept
  <2>4. ASSUME NEW v \in Workers, v # w PROVE WorkerInv(v)'
    <3>1. /\ pc'[v] = pc[v] /\ loc'[v] = loc[v] /\ cache'[v] = cache[v]
          /\ synced'[v] = synced[v] /\ fresh'[v] = fresh[v]
      BY <1>7, <2>1, <2>4 DEF InformerSync, Crash, Return, worker, TypeOK
    <3>2. QED
      BY <1>0, <2>1, <2>2, <3>1, OthersKeep
  <2>5. CacheInv(w)'
    <3>1. cache'[w] = exam'
      BY <2>1 DEF TypeOK
    <3>2. PhaseRank[exam.phase] <= PhaseRank[exam.phase]
      BY Numbers
    <3>3. QED
      BY <2>1, <3>1, <3>2 DEF CacheInv, OlderVersion
  <2>6. FreshInv(w)' /\ InFlightInv(w)'
    <3>1. FreshInv(w) /\ InFlightInv(w)
      BY <1>0 DEF WorkerInv
    <3>2. CASE InformerSync(w)
      BY <2>1, <3>1, <3>2 DEF InformerSync, worker, FreshInv, InFlightInv, OlderVersion,
         Kept, Contract!MayFollow, Contract!ProvisionTime, Contract!LockTime,
         Contract!RetentionDeadline
    <3>3. CASE Crash(w)
      <4>1. pc'[w] = "idle" /\ fresh'[w] = FALSE
        BY <3>3 DEF Crash, Return, TypeOK
      <4>2. QED
        BY <4>1 DEF FreshInv, InFlightInv, BeforeDispatch, InHandler, InDeletion
    <3>4. QED
      BY <1>7, <3>2, <3>3
  <2>7. QED
    BY <2>3, <2>4, <2>5, <2>6 DEF IInv, WorkerInv
<1>8. QED
  BY <1>2, <1>3, <1>4, <1>5, <1>6, <1>61, <1>7 DEF Environment

\* Every step preserves IInv.
LEMMA IInvNext ==
  ASSUME TypeOK, TypeOK', IInv, [Next]_vars
  PROVE  IInv'
<1>1. HandlerPhaseInv'
  BY HandlerPhaseNext DEF IInv
<1>2. CASE UNCHANGED vars
  <2>1. Progress
    BY <1>2, Numbers DEF vars, Progress, Kept
  <2>2. \A v \in Workers : WorkerInv(v)'
    BY <1>2, <2>1, OthersKeep DEF vars, IInv
  <2>3. StoredInv'
    BY <1>2 DEF vars, IInv, StoredInv, Kept
  <2>4. QED
    BY <1>1, <2>2, <2>3 DEF IInv
<1>3. CASE Environment
  BY <1>1, <1>3, IInvEnvironment
<1>4. ASSUME NEW w \in Workers, Reconcile(w) PROVE IInv'
  <2>1. CASE Get(w) \/ Decide(w) \/ AddFinalizer(w)
    BY <1>1, <2>1, IInvBegin
  <2>2. CASE StatusUpdate(w) \/ RemoveFinalizer(w)
    BY <1>1, <2>2, IInvWrite
  <2>3. CASE \/ CreateNamespace(w) \/ provisionInstance(w) \/ SlugError(w)
             \/ FinishProvisioning(w)
    BY <1>1, <2>3, IInvProvisioning
  <2>4. CASE \/ sendNextPendingEmail(w) \/ ReadyContinue(w) \/ enforcePolicies(w)
             \/ deleteIngresses(w) \/ NotifyInstructor(w) \/ reconcileTeardown(w)
    BY <1>1, <2>4, IInvHandlers
  <2>5. CASE FinalizeDelete(w)
    BY <1>1, <2>5, IInvFinalize
  <2>6. CASE GetNothing(w)
    BY <2>6, <1>2 DEF GetNothing
  <2>7. QED
    BY <1>4, <2>1, <2>2, <2>3, <2>4, <2>5, <2>6 DEF Reconcile
<1>5. QED
  BY <1>3, <1>4, <1>2 DEF Next

-----------------------------------------------------------------------------
(***************************************************************************)
(* The theorems.  Those about times assume that the webhook is deployed:   *)
(* without it the unlock time can be edited under a running exam.          *)
(***************************************************************************)

\* IInv holds throughout, for any number of managers whose reconciles overlap
\* in any order, with any failed calls, restarts and accepted edits.
THEOREM Invariance == Spec => []IInv
<1>1. TypeOK /\ TypeOK' /\ IInv /\ [Next]_vars => IInv'
  BY IInvNext
<1>2. QED
  BY <1>1, IInvInit, TypeCorrect, PTL DEF Spec

\* No copy of the Exam, however stale, makes reconcileUnlock open a route
\* before the unlock time of the Exam as it is stored.
THEOREM Access == ASSUME WebhookEnabled PROVE Spec => []NoEarlyAccess
<1>1. IInv => NoEarlyAccess
  BY DEF IInv, StoredInv, NoEarlyAccess
<1>2. QED
  BY <1>1, Invariance, PTL

\* An exam is not stored as locked before the lock time of the spec it
\* carries, however an accepted extension races the lock.
THEOREM Locking == ASSUME WebhookEnabled PROVE Spec => []LockedNotEarly
<1>1. TypeOK /\ IInv => LockedNotEarly
  BY RankValues DEF IInv, StoredInv, LockedNotEarly, Past
<1>2. QED
  BY <1>1, Invariance, TypeCorrect, PTL

\* The namespace of an exam that is Ready or Unlocked, and not being deleted,
\* is there.
THEOREM Namespace == Spec => []NamespaceKept
<1>1. IInv => NamespaceKept
  BY RankValues DEF IInv, StoredInv, NamespaceKept, Kept, Past
<1>2. QED
  BY <1>1, Invariance, PTL
=============================================================================
