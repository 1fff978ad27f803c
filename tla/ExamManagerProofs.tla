------------------------- MODULE ExamManagerProofs -------------------------
(***************************************************************************)
(* What holds because a single manager works on the Exam: nothing is left  *)
(* behind when the Exam goes, the lock closes every route and the unlock   *)
(* opens them all.  The parts of SoloInv of ExamInvariant are inductive    *)
(* together with IInv.                                                     *)
(***************************************************************************)
EXTENDS ExamRefinementProofs

-----------------------------------------------------------------------------
(***************************************************************************)
(* Deletion.                                                               *)
(***************************************************************************)

\* ReleaseInv depends on nothing but these.
LEMMA ReleaseSame ==
  ASSUME ReleaseInv, UNCHANGED <<exam, ns, pc, cache>>
  PROVE  ReleaseInv'
  BY DEF ReleaseInv, NoLeak

\* A reconcile that ends.
LEMMA ReleaseReturn ==
  ASSUME Solo, TypeOK, ReleaseInv, NEW w \in Workers, Return(w),
         UNCHANGED <<exam, ns, cache>>
  PROVE  ReleaseInv'
<1>1. pc'[w] = "idle"
  BY DEF Return, TypeOK
<1>2. QED
  BY <1>1 DEF Solo, ReleaseInv, NoLeak, InDeletion

\* A handler works on an Exam that is there and carries the finalizer.
LEMMA ReleaseHandler ==
  ASSUME Solo, TypeOK, ReleaseInv, NEW w \in Workers,
         pc[w] \in InHandler \cup {"decide"}, NEW l \in InHandler, Goto(w, l),
         UNCHANGED <<exam, cache>>
  PROVE  ReleaseInv'
<1>1. exam.present /\ exam.finalizer
  BY DEF ReleaseInv, NoLeak, InHandler, InDeletion
<1>2. pc'[w] = l
  BY DEF Goto, TypeOK
<1>3. QED
  BY <1>1, <1>2 DEF Solo, ReleaseInv, NoLeak, InHandler, InDeletion

LEMMA ReleaseNext ==
  ASSUME Solo, TypeOK, IInv, ReleaseInv, [Next]_vars
  PROVE  ReleaseInv'
<1>1. CASE UNCHANGED vars
  BY <1>1, ReleaseSame DEF vars
<1>2. CASE Environment
  <2>1. CASE \/ Tick \/ (\E i \in Instances : DeploymentReady(i))
             \/ (\E o \in objs : Drift(o))
    BY <2>1, ReleaseSame DEF Tick, DeploymentReady, Drift, worker, cluster
  <2>2. CASE NamespaceGone
    BY <2>2 DEF NamespaceGone, worker, ReleaseInv, NoLeak
  <2>3. ASSUME NEW s \in Specs, EditSpec(s) PROVE ReleaseInv'
    <3>1. exam' = [exam EXCEPT !.spec = s] /\ UNCHANGED <<ns, pc, cache>>
      BY <2>3 DEF EditSpec, UserStore, Store, cluster
    <3>2. exam'.present = exam.present /\ exam'.finalizer = exam.finalizer
      BY <3>1 DEF TypeOK, ExamObjects
    <3>3. QED
      BY <3>1, <3>2 DEF ReleaseInv, NoLeak
  <2>4. CASE DeleteExam
    <3>1. /\ exam.present
          /\ exam' = IF exam.finalizer THEN [exam EXCEPT !.deleting = TRUE]
                     ELSE [exam EXCEPT !.deleting = TRUE, !.present = FALSE]
          /\ UNCHANGED <<ns, pc, cache>>
      BY <2>4 DEF DeleteExam, UserStore, Store, cluster
    <3>2. exam'.finalizer = exam.finalizer /\ (exam'.present <=> exam.finalizer)
      BY <3>1 DEF TypeOK, ExamObjects
    <3>3. QED
      BY <3>1, <3>2 DEF ReleaseInv, NoLeak
  <2>5. ASSUME NEW w \in Workers, InformerSync(w) \/ Crash(w) PROVE ReleaseInv'
    <3>1. /\ cache' = [cache EXCEPT ![w] = exam]
          /\ UNCHANGED <<exam, ns>>
          /\ UNCHANGED pc \/ pc' = [pc EXCEPT ![w] = "idle"]
      BY <2>5 DEF InformerSync, Crash, Return, worker, cluster
    <3>2. cache'[w] = exam' /\ (pc'[w] = pc[w] \/ pc'[w] = "idle")
      BY <3>1 DEF TypeOK
    <3>3. pc[w] \in InDeletion => exam.deleting
      BY DEF IInv, WorkerInv, InFlightInv
    <3>4. QED
      BY <3>1, <3>2, <3>3 DEF Solo, ReleaseInv, NoLeak, InDeletion
  <2>6. QED
    BY <1>2, <2>1, <2>2, <2>3, <2>4, <2>5 DEF Environment
<1>3. ASSUME NEW w \in Workers, Reconcile(w) PROVE ReleaseInv'
  <2>0. /\ cache[w] \in ExamObjects /\ loc[w] \in ExamObjects /\ exam \in ExamObjects
        /\ WorkerInv(w)
    BY DEF TypeOK, IInv
  <2>1. CASE GetNothing(w)
    BY <2>1, <1>1 DEF GetNothing
  <2>2. CASE Get(w)
    <3>1. CASE cache[w].finalizer /\ ~cache[w].deleting
      <4> DEFINE d == determineDesiredPhase(cache[w].phase, cache[w].spec, clock)
      <4>1. d \in ExamPhases
        BY <2>0, DesiredPhaseType DEF ExamObjects
      <4>2. Goto(w, HandlerLabel(cache[w], d)) /\ UNCHANGED <<exam, ns, cache>>
        BY <2>2, <3>1 DEF Get, DecideOn, cluster
      <4> HIDE DEF d
      <4>3. HandlerLabel(cache[w], d) \in InHandler
        BY <4>1, HandlerEntry
      <4>4. exam.present /\ exam.finalizer
        BY <2>2, <3>1 DEF Get, ReleaseInv
      <4>5. pc'[w] \in InHandler
        BY <4>2, <4>3 DEF Goto, TypeOK
      <4>6. QED
        BY <4>2, <4>4, <4>5 DEF Solo, ReleaseInv, NoLeak, InHandler, InDeletion
    <3>2. CASE ~(cache[w].finalizer /\ ~cache[w].deleting)
      <4>1. /\ Goto(w, IF cache[w].deleting THEN "finalizeDelete" ELSE "addFinalizer")
            /\ UNCHANGED <<exam, ns, cache>>
            /\ cache[w].present /\ (cache[w].deleting => cache[w].finalizer)
        BY <2>2, <3>2 DEF Get, cluster
      <4>2. /\ cache[w].deleting => pc'[w] = "finalizeDelete"
            /\ ~cache[w].deleting => pc'[w] = "addFinalizer"
        BY <4>1 DEF Goto, TypeOK
      <4>3. QED
        BY <4>1, <4>2 DEF Solo, ReleaseInv, NoLeak, InDeletion
    <3>3. QED
      BY <3>1, <3>2
  <2>3. CASE ReturnNoWrite(w) /\ UNCHANGED <<cluster, cache>>
    BY <2>3, ReleaseReturn DEF ReturnNoWrite, cluster
  <2>4. CASE AddFinalizer(w) /\ ~ReturnNoWrite(w)
    <3>1. /\ exam' = [exam EXCEPT !.finalizer = TRUE] /\ Goto(w, "decide") /\ fresh[w]
          /\ UNCHANGED <<ns, cache>>
      BY <2>4 DEF AddFinalizer, Store, Conflict, cluster
    <3>2. exam'.present /\ exam'.finalizer
      BY <3>1, <2>0 DEF ExamObjects, WorkerInv, FreshInv
    <3>3. pc'[w] = "decide"
      BY <3>1 DEF Goto, TypeOK
    <3>4. QED
      BY <3>1, <3>2, <3>3 DEF Solo, ReleaseInv, NoLeak, InDeletion
  <2>5. CASE Decide(w)
    <3> DEFINE d == determineDesiredPhase(loc[w].phase, loc[w].spec, clock)
    <3>1. d \in ExamPhases
      BY <2>0, DesiredPhaseType DEF ExamObjects
    <3>2. Goto(w, HandlerLabel(loc[w], d)) /\ UNCHANGED <<exam, cache>> /\ pc[w] = "decide"
      BY <2>5 DEF Decide, DecideOn
    <3> HIDE DEF d
    <3>3. QED
      BY <3>1, <3>2, HandlerEntry, ReleaseHandler
  <2>6. CASE StatusUpdate(w) /\ ~ReturnNoWrite(w)
    <3>1. /\ exam' = [exam EXCEPT !.phase = loc[w].phase, !.inst = loc[w].inst,
                                  !.mail = loc[w].mail, !.conds = loc[w].conds]
          /\ Return(w) /\ pc[w] = "status" /\ UNCHANGED <<ns, cache>>
      BY <2>6 DEF StatusUpdate, Store, cluster
    <3>2. exam'.present = exam.present /\ exam'.finalizer = exam.finalizer
      BY <3>1, <2>0 DEF ExamObjects
    <3>3. exam.present /\ exam.finalizer
      BY <3>1 DEF ReleaseInv, NoLeak, InDeletion
    <3>4. pc'[w] = "idle"
      BY <3>1 DEF Return, TypeOK
    <3>5. QED
      BY <3>1, <3>2, <3>3, <3>4 DEF Solo, ReleaseInv, NoLeak, InDeletion
  <2>7. CASE RemoveFinalizer(w) /\ ~ReturnNoWrite(w)
    <3>1. /\ exam' = [exam EXCEPT !.present = FALSE, !.finalizer = FALSE]
          /\ Return(w) /\ pc[w] = "removeFinalizer" /\ UNCHANGED <<ns, cache>>
      BY <2>7 DEF RemoveFinalizer, Store, cluster
    <3>2. exam'.present = FALSE
      BY <3>1, <2>0 DEF ExamObjects
    <3>3. pc'[w] = "idle" /\ ns # "active" /\ cache[w].deleting
      BY <3>1 DEF Return, TypeOK, ReleaseInv, NoLeak, InDeletion
    <3>4. QED
      BY <3>1, <3>2, <3>3 DEF Solo, ReleaseInv, NoLeak, InDeletion
  <2>8. CASE FinalizeDelete(w) /\ ~ReturnNoWrite(w)
    <3>1. /\ pc[w] = "finalizeDelete" /\ DeleteNamespace /\ Goto(w, "removeFinalizer")
          /\ UNCHANGED <<exam, cache>>
      BY <2>8 DEF FinalizeDelete
    <3>2. pc'[w] = "removeFinalizer" /\ ns' # "active" /\ (ns = "absent" => ns' = "absent")
      BY <3>1 DEF Goto, DeleteNamespace, TypeOK
    <3>3. cache[w].deleting
      BY <3>1 DEF ReleaseInv, NoLeak, InDeletion
    <3>4. exam.present => exam.finalizer
      BY <3>1 DEF ReleaseInv
    <3>5. QED
      BY <3>1, <3>2, <3>3, <3>4 DEF Solo, ReleaseInv, NoLeak, InDeletion
  <2>9. CASE provisionInstance(w)
    BY <2>9, ReleaseSame DEF provisionInstance
  <2>10. CASE \/ CreateNamespace(w) \/ SlugError(w) \/ FinishProvisioning(w)
              \/ sendNextPendingEmail(w) \/ deleteIngresses(w)
              \/ NotifyInstructor(w) \/ reconcileTeardown(w)
    <3>1. \E l \in InHandler : Goto(w, l)
      BY <2>10 DEF CreateNamespace, SlugError, FinishProvisioning, sendNextPendingEmail,
         deleteIngresses, NotifyInstructor, reconcileTeardown, InHandler
    <3>2. pc[w] \in InHandler /\ UNCHANGED <<exam, cache>>
      BY <2>10 DEF CreateNamespace, SlugError, FinishProvisioning, sendNextPendingEmail,
         deleteIngresses, NotifyInstructor, reconcileTeardown, InHandler
    <3>3. QED
      BY <3>1, <3>2, ReleaseHandler
  <2>11. CASE ReadyContinue(w) \/ enforcePolicies(w)
    <3>1. \E l \in InHandler : Goto(w, l)
      BY <2>11 DEF ReadyContinue, enforcePolicies, EnforceLabel, AfterEnforce, InHandler
    <3>2. pc[w] \in InHandler /\ UNCHANGED <<exam, cache>>
      BY <2>11 DEF ReadyContinue, enforcePolicies, InHandler
    <3>3. QED
      BY <3>1, <3>2, ReleaseHandler
  <2>12. CASE FinalizeDelete(w) /\ ReturnNoWrite(w)
    <3>1. pc'[w] = "idle"
      BY <2>12 DEF ReturnNoWrite, Return, TypeOK
    <3>2. UNCHANGED <<cluster, cache>>
      BY <2>12, <3>1 DEF FinalizeDelete, Goto, TypeOK, cluster
    <3>3. QED
      BY <2>3, <2>12, <3>2
  <2>13. QED
    BY <1>3, <2>1, <2>2, <2>3, <2>4, <2>5, <2>6, <2>7, <2>8, <2>9, <2>10, <2>11, <2>12
       DEF Reconcile, AddFinalizer, StatusUpdate, RemoveFinalizer
<1>4. QED
  BY <1>1, <1>2, <1>3 DEF Next

-----------------------------------------------------------------------------
(***************************************************************************)
(* Status entries and routes, for any number of managers.                  *)
(***************************************************************************)

\* The status entries of a copy depend on its instance phases only.
LEMMA SlugsOf ==
  ASSUME NEW e, NEW f, e.inst = f.inst
  PROVE  collectSlugs(e) = collectSlugs(f)
  BY DEF collectSlugs

\* A worker that a step leaves alone, while the entries of the stored Exam
\* stay.
LEMMA EntriesKeep ==
  ASSUME NEW v \in Workers, SameEntries(v),
         pc'[v] = pc[v], loc'[v] = loc[v], cache'[v] = cache[v], todo'[v] = todo[v],
         fresh'[v] => fresh[v] /\ exam' = exam,
         collectSlugs(exam') = collectSlugs(exam),
         Past(exam.phase, 3) => Past(exam'.phase, 3)
  PROVE  SameEntries(v)'
  BY DEF SameEntries, collectSlugs

\* Routes a step does not add.
LEMMA RoutesKeep ==
  ASSUME KnownRoutes, objs' \cap AccessObjects \subseteq objs,
         collectSlugs(exam') = collectSlugs(exam),
         Past(exam.phase, 3) => Past(exam'.phase, 3)
  PROVE  KnownRoutes'
  BY DEF KnownRoutes, collectSlugs

\* A step of w that writes neither the Exam nor a cache.
LEMMA EntriesLocal ==
  ASSUME EntryInv, NEW w \in Workers, KnownRoutes', SameEntries(w)',
         UNCHANGED <<exam, cache>>,
         \A v \in Workers \ {w} : /\ pc'[v] = pc[v] /\ loc'[v] = loc[v]
                                  /\ todo'[v] = todo[v] /\ fresh'[v] = fresh[v]
  PROVE  EntryInv'
<1>1. ASSUME NEW v \in Workers, v # w PROVE SameEntries(v)'
  BY <1>1, EntriesKeep DEF EntryInv
<1>2. QED
  BY <1>1 DEF EntryInv

\* The dispatch on a copy e of which SameEntries holds.
LEMMA EntriesDispatch ==
  ASSUME TypeOK, IInv, EntryInv, NEW w \in Workers, NEW e \in ExamObjects,
         OlderVersion(e), Past(e.phase, 3) => collectSlugs(e) = collectSlugs(exam),
         fresh'[w] => e = exam,
         DecideOn(w, e), UNCHANGED <<exam, objs, cache>>,
         \A v \in Workers \ {w} : fresh'[v] = fresh[v]
  PROVE  EntryInv'
<1> DEFINE d == determineDesiredPhase(e.phase, e.spec, clock)
<1>0. e.phase \in ExamPhases /\ e.spec \in Specs /\ clock \in Int
  BY Numbers DEF ExamObjects
<1>1. d \in ExamPhases
  BY <1>0, DesiredPhaseType
<1>2. Past(d, 3) => Past(e.phase, 3)
  BY <1>0, DesiredOrigin
<1>3. Past(e.phase, 3) => Past(exam.phase, 3)
  <2>1. PhaseRank[e.phase] \in 0..6
    BY <1>0, RankType
  <2>2. QED
    BY <2>1, Numbers DEF OlderVersion, Past
<1>4. /\ loc' = [loc EXCEPT ![w] = [e EXCEPT !.phase = d]]
      /\ pc' = [pc EXCEPT ![w] = HandlerLabel(e, d)]
      /\ todo' = [todo EXCEPT ![w] = CASE d = "Provisioning" -> Instances
                                       [] d \in {"Unlocked", "Locked"} -> collectSlugs(e)
                                       [] OTHER -> {}]
  BY DEF DecideOn, Goto
<1> HIDE DEF d
<1>5. /\ pc'[w] = HandlerLabel(e, d) /\ loc'[w].inst = e.inst /\ loc'[w].phase = d
      /\ d \in {"Unlocked", "Locked"} => todo'[w] = collectSlugs(e)
  BY <1>4 DEF TypeOK, ExamObjects
<1>6. collectSlugs(loc'[w]) = collectSlugs(e)
  BY <1>5, SlugsOf
<1>7. pc'[w] \in {"ready", "enforce", "deleteIngresses", "notify", "teardown"} => Past(d, 3)
  BY <1>1, <1>5, HandlerEntry, RankValues DEF Past
<1>8. SameEntries(w)'
  <2>1. /\ pc'[w] \notin BeforeDispatch
        /\ pc'[w] = "enforce" => d \in {"Unlocked", "Locked"}
    BY <1>1, <1>5, HandlerEntry DEF BeforeDispatch, InHandler
  <2>2. Past(cache[w].phase, 3) => collectSlugs(cache[w]) = collectSlugs(exam)
    BY DEF EntryInv, SameEntries
  <2>3. fresh'[w] => collectSlugs(loc'[w]) = collectSlugs(exam)
    BY <1>6
  <2> HIDE DEF collectSlugs
  <2>4. QED
    BY <1>2, <1>3, <1>5, <1>6, <1>7, <2>1, <2>2, <2>3 DEF SameEntries
<1>9. KnownRoutes'
  BY RoutesKeep DEF EntryInv
<1>10. QED
  BY <1>4, <1>8, <1>9, EntriesLocal DEF TypeOK

\* The status update: the first one that says Ready settles the entries, and
\* the later ones keep them.
LEMMA EntriesWrite ==
  ASSUME TypeOK, TypeOK', IInv, EntryInv, NEW w \in Workers, StatusUpdate(w),
         ~ReturnNoWrite(w), PhaseRank[exam'.phase] >= PhaseRank[exam.phase]
  PROVE  EntryInv'
<1>1. /\ pc[w] = "status" /\ fresh[w]
      /\ exam' = [exam EXCEPT !.phase = loc[w].phase, !.inst = loc[w].inst,
                              !.mail = loc[w].mail, !.conds = loc[w].conds]
      /\ fresh' = FreshAfter(exam', w, FALSE)
      /\ Return(w) /\ UNCHANGED <<objs, cache>>
  BY DEF StatusUpdate, Store, Conflict, cluster
<1>2. exam'.inst = loc[w].inst
  BY <1>1 DEF TypeOK, ExamObjects
<1>3. /\ \A v \in Workers : fresh'[v] => fresh[v] /\ exam' = exam
      /\ \A v \in Workers \ {w} : pc'[v] = pc[v] /\ loc'[v] = loc[v] /\ todo'[v] = todo[v]
      /\ pc'[w] = "idle"
  BY <1>1 DEF FreshAfter, Return, TypeOK
<1>4. /\ PhaseRank[exam.phase] \in Int /\ PhaseRank[exam'.phase] \in Int
      /\ \A v \in Workers : /\ PhaseRank[cache[v].phase] \in Int
                            /\ PhaseRank[loc[v].phase] \in Int
  <2>1. exam'.phase \in ExamPhases
    BY DEF TypeOK, ExamObjects
  <2>2. PhaseRank[exam'.phase] \in 0..6
    BY <2>1, RankType
  <2>3. QED
    BY <2>2, Numbers
<1>5. Past(exam.phase, 3) => Past(exam'.phase, 3)
  BY <1>4 DEF Past
<1>6. CASE Past(exam.phase, 3)
  <2>1. collectSlugs(exam') = collectSlugs(exam)
    BY <1>1, <1>2, <1>6, SlugsOf DEF EntryInv, SameEntries
  <2>2. ASSUME NEW v \in Workers, v # w PROVE SameEntries(v)'
    BY <1>1, <1>3, <1>5, <2>1, <2>2, EntriesKeep DEF EntryInv
  <2>3. SameEntries(w)'
    <3>1. Past(cache[w].phase, 3) => collectSlugs(cache[w]) = collectSlugs(exam)
      BY DEF EntryInv, SameEntries
    <3>2. QED
      BY <1>1, <1>3, <2>1, <3>1 DEF SameEntries, BeforeDispatch
  <2>4. KnownRoutes'
    BY <1>1, <1>5, <2>1, RoutesKeep DEF EntryInv
  <2>5. QED
    BY <2>2, <2>3, <2>4 DEF EntryInv
<1>7. CASE ~Past(exam.phase, 3)
  <2>1. objs \cap AccessObjects = {}
    BY <1>7 DEF EntryInv, KnownRoutes
  <2>2. ASSUME NEW v \in Workers PROVE SameEntries(v)'
    <3>1. SameEntries(v) /\ OlderVersion(cache[v])
          /\ (pc[v] \in BeforeDispatch => OlderVersion(loc[v]))
      BY DEF EntryInv, IInv, WorkerInv, CacheInv, InFlightInv
    <3>2. /\ ~Past(cache[v].phase, 3)
          /\ pc[v] \in BeforeDispatch => ~Past(loc[v].phase, 3)
      BY <1>4, <1>7, <3>1 DEF OlderVersion, Past
    <3>3. pc[v] \notin {"ready", "enforce", "deleteIngresses", "notify", "teardown"}
      BY <1>7, <3>1 DEF SameEntries
    <3>4. fresh'[v] => ~Past(exam'.phase, 3)
      BY <1>3, <1>7
    <3>5. QED
      BY <1>1, <1>3, <3>2, <3>3, <3>4 DEF SameEntries, BeforeDispatch
  <2>3. KnownRoutes'
    BY <1>1, <2>1 DEF KnownRoutes
  <2>4. QED
    BY <2>2, <2>3 DEF EntryInv
<1>8. QED
  BY <1>6, <1>7

\* The steps of Reconcile after the dispatch.
LEMMA EntriesHandlers ==
  ASSUME TypeOK, IInv, EntryInv, NEW w \in Workers,
         \/ CreateNamespace(w) \/ provisionInstance(w) \/ SlugError(w)
         \/ FinishProvisioning(w) \/ sendNextPendingEmail(w) \/ ReadyContinue(w)
         \/ enforcePolicies(w) \/ deleteIngresses(w) \/ NotifyInstructor(w)
         \/ reconcileTeardown(w)
  PROVE  EntryInv'
<1>0. /\ loc[w] \in ExamObjects /\ HandlerPhaseOK(w) /\ FreshInv(w)
      /\ KnownRoutes /\ SameEntries(w)
  BY DEF TypeOK, IInv, WorkerInv, HandlerPhaseInv, EntryInv
<1>1. /\ UNCHANGED <<exam, cache, synced, fresh>>
      /\ \A v \in Workers \ {w} : pc'[v] = pc[v] /\ loc'[v] = loc[v] /\ todo'[v] = todo[v]
  <2>1. UNCHANGED <<exam, cache, synced, fresh>>
    BY DEF CreateNamespace, provisionInstance, SlugError, FinishProvisioning,
       sendNextPendingEmail, ReadyContinue, enforcePolicies, deleteIngresses,
       NotifyInstructor, reconcileTeardown
  <2>2. \A v \in Workers \ {w} : pc'[v] = pc[v]
    BY DEF CreateNamespace, provisionInstance, SlugError, FinishProvisioning,
       sendNextPendingEmail, ReadyContinue, enforcePolicies, deleteIngresses,
       NotifyInstructor, reconcileTeardown, Goto, TypeOK
  <2>3. \A v \in Workers \ {w} : loc'[v] = loc[v]
    BY DEF CreateNamespace, provisionInstance, SlugError, FinishProvisioning,
       sendNextPendingEmail, ReadyContinue, enforcePolicies, deleteIngresses,
       NotifyInstructor, reconcileTeardown, TypeOK
  <2>4. \A v \in Workers \ {w} : todo'[v] = todo[v]
    BY DEF CreateNamespace, provisionInstance, SlugError, FinishProvisioning,
       sendNextPendingEmail, ReadyContinue, enforcePolicies, deleteIngresses,
       NotifyInstructor, reconcileTeardown, TypeOK
  <2>5. QED
    BY <2>1, <2>2, <2>3, <2>4
<1>2. ASSUME KnownRoutes', pc'[w] = "status",
             \/ collectSlugs(loc'[w]) = collectSlugs(exam)
             \/ fresh[w] => ~Past(exam.phase, 3)
      PROVE  EntryInv'
  <2>1. SameEntries(w)'
    BY <1>0, <1>1, <1>2 DEF SameEntries, BeforeDispatch
  <2>2. QED
    BY <1>1, <1>2, <2>1, EntriesLocal
<1>3. pc[w] \in {"namespace", "provision"} /\ fresh[w] => ~Past(exam.phase, 3)
  BY <1>0, RankValues DEF HandlerPhaseOK, FreshInv, InHandler, Contract!MayFollow, Past
<1>4. CASE CreateNamespace(w) \/ SlugError(w)
  <2>1. KnownRoutes' /\ pc[w] \in {"namespace", "provision"}
    BY <1>0, <1>1, <1>4, RoutesKeep DEF CreateNamespace, SlugError, cluster
  <2>2. CASE pc'[w] = "status"
    BY <1>2, <1>3, <2>1, <2>2
  <2>3. CASE pc'[w] = "provision"
    <3>1. SameEntries(w)'
      BY <1>0, <1>1, <2>3 DEF SameEntries, BeforeDispatch
    <3>2. QED
      BY <1>1, <2>1, <3>1, EntriesLocal
  <2>4. QED
    BY <1>4, <2>2, <2>3 DEF CreateNamespace, SlugError, Goto, TypeOK
<1>5. CASE provisionInstance(w)
  <2>1. PICK i \in todo[w], n \in 0..4 :
          objs' = objs \cup Create({ProvisionedKinds[k] : k \in 1..n}, i)
    BY <1>5 DEF provisionInstance
  <2>2. pc[w] = "provision" /\ pc'[w] = "provision"
    BY <1>5 DEF provisionInstance
  <2>3. Create({ProvisionedKinds[k] : k \in 1..n}, i) \cap AccessObjects = {}
    <3>1. \A k \in 1..n : ProvisionedKinds[k] \notin AccessKinds
      BY DEF ProvisionedKinds, AccessKinds
    <3>2. QED
      BY <3>1 DEF Create, AccessObjects
  <2>4. KnownRoutes'
    BY <1>0, <1>1, <2>1, <2>3, RoutesKeep
  <2>5. SameEntries(w)'
    BY <1>0, <1>1, <2>2 DEF SameEntries, BeforeDispatch
  <2>6. QED
    BY <1>1, <2>4, <2>5, EntriesLocal
<1>6. CASE FinishProvisioning(w)
  <2>1. pc[w] = "provision" /\ pc'[w] = "status" /\ objs' \subseteq objs
    BY <1>6 DEF FinishProvisioning, Goto, TypeOK
  <2>2. KnownRoutes'
    BY <1>0, <1>1, <2>1, RoutesKeep
  <2>3. QED
    BY <1>2, <1>3, <2>1, <2>2
<1>7. CASE sendNextPendingEmail(w)
  <2>1. pc[w] = "ready" /\ pc'[w] = "status" /\ objs' = objs
    BY <1>7 DEF sendNextPendingEmail, Goto, TypeOK, cluster
  <2>2. loc'[w].inst = loc[w].inst
    BY <1>7, <1>0 DEF sendNextPendingEmail, TypeOK, ExamObjects
  <2>3. collectSlugs(loc'[w]) = collectSlugs(exam)
    BY <1>0, <2>1, <2>2, SlugsOf DEF SameEntries
  <2>4. KnownRoutes'
    BY <1>0, <1>1, <2>1, RoutesKeep
  <2>5. QED
    BY <1>2, <2>1, <2>3, <2>4
<1>8. CASE ReadyContinue(w)
  <2>1. /\ pc[w] = "ready" /\ pc'[w] \in {"status", "enforce"} /\ objs' = objs
        /\ todo'[w] = collectSlugs(loc[w])
    BY <1>8 DEF ReadyContinue, Goto, EnforceLabel, AfterEnforce, TypeOK, cluster
  <2>2. loc'[w].inst = loc[w].inst
    BY <1>8, <1>0 DEF ReadyContinue, TypeOK, ExamObjects
  <2>3. collectSlugs(loc'[w]) = collectSlugs(exam) /\ collectSlugs(loc[w]) = collectSlugs(exam)
        /\ Past(exam.phase, 3)
    BY <1>0, <2>1, <2>2, SlugsOf DEF SameEntries
  <2>4. KnownRoutes'
    BY <1>0, <1>1, <2>1, RoutesKeep
  <2>5. SameEntries(w)'
    BY <1>0, <1>1, <2>1, <2>3 DEF SameEntries, BeforeDispatch
  <2>6. QED
    BY <1>1, <2>4, <2>5, EntriesLocal
<1>9. CASE enforcePolicies(w)
  <2>1. PICK i \in todo[w], failed \in SUBSET (EnforceCreates(w) \cup EnforceDeletes(w)) :
          /\ objs' = (objs \cup Create(EnforceCreates(w) \ failed, i))
                        \ ((EnforceDeletes(w) \ failed) \X {i})
          /\ todo' = [todo EXCEPT ![w] = @ \ {i}]
          /\ Goto(w, EnforceLabel(todo[w] \ {i}, loc[w].phase))
    BY <1>9 DEF enforcePolicies
  <2>2. pc[w] = "enforce" /\ loc' = loc
    BY <1>9 DEF enforcePolicies
  <2>3. /\ todo'[w] \subseteq todo[w]
        /\ pc'[w] \in {"enforce", "notify", "deleteIngresses", "status"}
    BY <2>1 DEF Goto, EnforceLabel, AfterEnforce, TypeOK
  <2>4. /\ Past(exam.phase, 3) /\ collectSlugs(loc[w]) = collectSlugs(exam)
        /\ i \in collectSlugs(exam)
    BY <1>0, <2>1, <2>2 DEF SameEntries
  <2>5. KnownRoutes'
    <3>1. objs' \subseteq objs \cup (EnforceCreates(w) \X {i})
      BY <2>1 DEF Create
    <3>2. objs' \cap AccessObjects \subseteq (objs \cap AccessObjects) \cup (AccessKinds \X {i})
      BY <3>1 DEF AccessObjects
    <3>3. AccessKinds \X {i} \subseteq AccessKinds \X collectSlugs(exam)
      BY <2>4
    <3> HIDE DEF collectSlugs
    <3>4. QED
      BY <1>0, <1>1, <2>4, <3>2, <3>3 DEF KnownRoutes
  <2>6. SameEntries(w)'
    BY <1>0, <1>1, <2>2, <2>3, <2>4 DEF SameEntries, BeforeDispatch
  <2>7. QED
    BY <1>1, <2>5, <2>6, EntriesLocal
<1>10. CASE deleteIngresses(w)
  <2>1. /\ pc[w] = "deleteIngresses" /\ pc'[w] \in {"notify", "status"}
        /\ objs' \subseteq objs /\ loc' = loc
    BY <1>10 DEF deleteIngresses, Goto, TypeOK
  <2>2. KnownRoutes'
    BY <1>0, <1>1, <2>1, RoutesKeep
  <2>3. SameEntries(w)'
    BY <1>0, <1>1, <2>1 DEF SameEntries, BeforeDispatch
  <2>4. QED
    BY <1>1, <2>2, <2>3, EntriesLocal
<1>11. CASE NotifyInstructor(w)
  <2>1. pc[w] = "notify" /\ pc'[w] = "status" /\ objs' = objs
    BY <1>11 DEF NotifyInstructor, Goto, TypeOK, cluster
  <2>2. loc'[w].inst = MoveInstances(loc[w])
    BY <1>11, <1>0 DEF NotifyInstructor, TypeOK, ExamObjects
  <2>3. collectSlugs(loc'[w]) = collectSlugs(loc[w])
    BY <2>2 DEF collectSlugs, MoveInstances
  <2>4. collectSlugs(loc'[w]) = collectSlugs(exam)
    BY <1>0, <2>1, <2>3 DEF SameEntries
  <2>5. KnownRoutes'
    BY <1>0, <1>1, <2>1, RoutesKeep
  <2>6. QED
    BY <1>2, <2>1, <2>4, <2>5
<1>12. CASE reconcileTeardown(w)
  <2>1. pc[w] = "teardown" /\ pc'[w] = "status" /\ objs' = objs /\ loc' = loc
    BY <1>12 DEF reconcileTeardown, Goto, TypeOK
  <2>2. KnownRoutes' /\ collectSlugs(loc'[w]) = collectSlugs(exam)
    BY <1>0, <1>1, <2>1, RoutesKeep DEF SameEntries
  <2>3. QED
    BY <1>2, <2>1, <2>2
<1>13. QED
  BY <1>4, <1>5, <1>6, <1>7, <1>8, <1>9, <1>10, <1>11, <1>12

LEMMA EntryNext ==
  ASSUME TypeOK, TypeOK', IInv, EntryInv, [Next]_vars,
         PhaseRank[exam'.phase] >= PhaseRank[exam.phase]
  PROVE  EntryInv'
<1>0. /\ PhaseRank[exam.phase] \in Int /\ PhaseRank[exam'.phase] \in Int
      /\ Past(exam.phase, 3) => Past(exam'.phase, 3)
  <2>1. exam'.phase \in ExamPhases
    BY DEF TypeOK, ExamObjects
  <2>2. PhaseRank[exam'.phase] \in 0..6
    BY <2>1, RankType
  <2>3. QED
    BY <2>2, Numbers DEF Past
<1>1. ASSUME exam'.inst = exam.inst, objs' \subseteq objs,
             UNCHANGED <<pc, loc, cache, todo>>,
             \A v \in Workers : fresh'[v] => fresh[v] /\ exam' = exam
      PROVE  EntryInv'
  <2>1. collectSlugs(exam') = collectSlugs(exam)
    BY <1>1, SlugsOf
  <2>2. ASSUME NEW v \in Workers PROVE SameEntries(v)'
    BY <1>0, <1>1, <2>1, EntriesKeep DEF EntryInv
  <2>3. KnownRoutes'
    BY <1>0, <1>1, <2>1, RoutesKeep DEF EntryInv
  <2>4. QED
    BY <2>2, <2>3 DEF EntryInv
<1>2. CASE UNCHANGED vars
  BY <1>2, <1>1 DEF vars
<1>3. CASE Environment
  <2>1. CASE Tick \/ NamespaceGone \/ (\E i \in Instances : DeploymentReady(i))
             \/ (\E o \in objs : Drift(o))
    BY <2>1, <1>1 DEF Tick, NamespaceGone, DeploymentReady, Drift, worker, cluster
  <2>2. CASE DeleteExam \/ (\E s \in Specs : EditSpec(s))
    <3>1. /\ UNCHANGED <<objs, pc, loc, cache, todo>>
          /\ \A v \in Workers : fresh'[v] = FALSE
      BY <2>2 DEF DeleteExam, EditSpec, UserStore, cluster
    <3>2. exam'.inst = exam.inst
      BY <2>2 DEF DeleteExam, EditSpec, UserStore, Store, TypeOK, ExamObjects
    <3>3. QED
      BY <1>1, <3>1, <3>2
  <2>3. ASSUME NEW w \in Workers, InformerSync(w) \/ Crash(w) PROVE EntryInv'
    <3>1. /\ cache' = [cache EXCEPT ![w] = exam] /\ UNCHANGED <<exam, objs>>
          /\ \/ UNCHANGED <<pc, loc, todo, fresh>>
             \/ Return(w) /\ fresh' = [fresh EXCEPT ![w] = FALSE]
      BY <2>3 DEF InformerSync, Crash, worker, cluster
    <3>2. ASSUME NEW v \in Workers, v # w PROVE SameEntries(v)'
      <4>1. /\ pc'[v] = pc[v] /\ loc'[v] = loc[v] /\ cache'[v] = cache[v]
            /\ todo'[v] = todo[v] /\ fresh'[v] = fresh[v]
        BY <3>1, <3>2 DEF Return, TypeOK
      <4>2. QED
        BY <3>1, <4>1, EntriesKeep DEF EntryInv
    <3>3. SameEntries(w)'
      <4>1. cache'[w] = exam
        BY <3>1 DEF TypeOK
      <4>2. CASE UNCHANGED <<pc, loc, todo, fresh>>
        BY <3>1, <4>1, <4>2 DEF EntryInv, SameEntries
      <4>3. CASE Return(w)
        <5>1. pc'[w] = "idle"
          BY <4>3 DEF Return, TypeOK
        <5>2. QED
          BY <3>1, <4>1, <5>1 DEF SameEntries, BeforeDispatch
      <4>4. QED
        BY <3>1, <4>2, <4>3
    <3>4. KnownRoutes'
      BY <3>1, RoutesKeep DEF EntryInv
    <3>5. QED
      BY <3>2, <3>3, <3>4 DEF EntryInv
  <2>4. QED
    BY <1>3, <2>1, <2>2, <2>3 DEF Environment
<1>4. ASSUME NEW w \in Workers, Reconcile(w) PROVE EntryInv'
  <2>0. /\ cache[w] \in ExamObjects /\ loc[w] \in ExamObjects
        /\ CacheInv(w) /\ FreshInv(w) /\ InFlightInv(w)
        /\ KnownRoutes /\ SameEntries(w)
    BY DEF TypeOK, IInv, WorkerInv, EntryInv
  <2>1. CASE GetNothing(w)
    BY <2>1, <1>2 DEF GetNothing
  <2>2. CASE Get(w)
    <3>1. /\ UNCHANGED <<exam, objs, cache>>
          /\ fresh' = [fresh EXCEPT ![w] = synced[w]]
      BY <2>2 DEF Get, cluster
    <3>2. CASE DecideOn(w, cache[w])
      <4>1. /\ OlderVersion(cache[w])
            /\ Past(cache[w].phase, 3) => collectSlugs(cache[w]) = collectSlugs(exam)
            /\ fresh'[w] => cache[w] = exam
            /\ \A v \in Workers \ {w} : fresh'[v] = fresh[v]
        BY <2>0, <3>1 DEF CacheInv, SameEntries, TypeOK
      <4>2. QED
        BY <2>0, <3>1, <3>2, <4>1, EntriesDispatch
    <3>3. CASE /\ loc' = [loc EXCEPT ![w] = cache[w]]
               /\ Goto(w, IF cache[w].deleting THEN "finalizeDelete" ELSE "addFinalizer")
               /\ UNCHANGED todo
      <4>1. pc'[w] \in {"finalizeDelete", "addFinalizer"} /\ loc'[w] = cache[w]
        BY <3>3 DEF Goto, TypeOK
      <4>2. SameEntries(w)'
        BY <2>0, <3>1, <4>1 DEF SameEntries, BeforeDispatch
      <4>3. KnownRoutes'
        BY <2>0, <3>1, RoutesKeep
      <4>4. QED
        BY <3>1, <3>3, <4>2, <4>3, EntriesLocal DEF Goto, TypeOK
    <3>4. QED
      BY <2>2, <3>2, <3>3 DEF Get
  <2>3. CASE Decide(w)
    <3>1. UNCHANGED <<exam, objs, cache, fresh>> /\ DecideOn(w, loc[w]) /\ pc[w] = "decide"
      BY <2>3 DEF Decide, cluster
    <3>2. /\ OlderVersion(loc[w])
          /\ Past(loc[w].phase, 3) => collectSlugs(loc[w]) = collectSlugs(exam)
          /\ fresh'[w] => loc[w] = exam
      BY <2>0, <3>1 DEF InFlightInv, FreshInv, SameEntries, BeforeDispatch
    <3>3. QED
      BY <2>0, <3>1, <3>2, EntriesDispatch
  <2>4. ASSUME Return(w), UNCHANGED <<objs, cache>>, exam'.inst = exam.inst,
               \A v \in Workers : fresh'[v] => fresh[v] /\ exam' = exam
        PROVE  EntryInv'
    <3>1. collectSlugs(exam') = collectSlugs(exam)
      BY <2>4, SlugsOf
    <3>2. pc'[w] = "idle"
          /\ \A v \in Workers \ {w} : pc'[v] = pc[v] /\ loc'[v] = loc[v] /\ todo'[v] = todo[v]
      BY <2>4 DEF Return, TypeOK
    <3>3. ASSUME NEW v \in Workers, v # w PROVE SameEntries(v)'
      BY <1>0, <2>4, <3>1, <3>2, <3>3, EntriesKeep DEF EntryInv
    <3>4. SameEntries(w)'
      BY <2>0, <2>4, <3>1, <3>2 DEF SameEntries, BeforeDispatch
    <3>5. KnownRoutes'
      BY <1>0, <2>0, <2>4, <3>1, RoutesKeep
    <3>6. QED
      BY <3>3, <3>4, <3>5 DEF EntryInv
  <2>5. CASE ReturnNoWrite(w) /\ UNCHANGED <<objs, cache>>
    <3>1. \A v \in Workers : fresh'[v] => fresh[v] /\ exam' = exam
      BY <2>5 DEF ReturnNoWrite, TypeOK
    <3>2. QED
      BY <2>4, <2>5, <3>1 DEF ReturnNoWrite
  <2>6. CASE AddFinalizer(w) /\ ~ReturnNoWrite(w)
    <3>1. /\ pc[w] = "addFinalizer" /\ fresh[w]
          /\ exam' = [exam EXCEPT !.finalizer = TRUE]
          /\ loc' = [loc EXCEPT ![w].finalizer = TRUE] /\ Goto(w, "decide")
          /\ fresh' = FreshAfter(exam', w, TRUE)
          /\ UNCHANGED <<objs, cache, todo>>
      BY <2>6 DEF AddFinalizer, Store, Conflict, cluster
    <3>2. /\ exam'.inst = exam.inst /\ loc'[w].inst = loc[w].inst
          /\ loc'[w].phase = loc[w].phase /\ pc'[w] = "decide"
      BY <2>0, <3>1 DEF Goto, TypeOK, ExamObjects
    <3>3. collectSlugs(exam') = collectSlugs(exam) /\ collectSlugs(loc'[w]) = collectSlugs(loc[w])
      BY <3>2, SlugsOf
    <3>4. /\ \A v \in Workers \ {w} : pc'[v] = pc[v] /\ loc'[v] = loc[v]
          /\ \A v \in Workers \ {w} : fresh'[v] => fresh[v] /\ exam' = exam
      BY <3>1 DEF Goto, FreshAfter, TypeOK
    <3>5. ASSUME NEW v \in Workers, v # w PROVE SameEntries(v)'
      BY <1>0, <3>1, <3>3, <3>4, <3>5, EntriesKeep DEF EntryInv
    <3>6. SameEntries(w)'
      BY <2>0, <3>1, <3>2, <3>3 DEF SameEntries, BeforeDispatch
    <3>7. KnownRoutes'
      BY <1>0, <2>0, <3>1, <3>3, RoutesKeep
    <3>8. QED
      BY <3>5, <3>6, <3>7 DEF EntryInv
  <2>7. CASE StatusUpdate(w) /\ ~ReturnNoWrite(w)
    BY <2>7, EntriesWrite
  <2>8. CASE RemoveFinalizer(w) /\ ~ReturnNoWrite(w)
    <3>1. /\ exam' = [exam EXCEPT !.present = FALSE, !.finalizer = FALSE]
          /\ fresh' = FreshAfter(exam', w, FALSE) /\ Return(w)
          /\ UNCHANGED <<objs, cache>>
      BY <2>8 DEF RemoveFinalizer, Store, cluster
    <3>2. exam'.inst = exam.inst
      BY <3>1 DEF TypeOK, ExamObjects
    <3>3. \A v \in Workers : fresh'[v] => fresh[v] /\ exam' = exam
      BY <3>1 DEF FreshAfter
    <3>4. QED
      BY <2>4, <3>1, <3>2, <3>3
  <2>9. CASE FinalizeDelete(w) /\ ~ReturnNoWrite(w)
    <3>1. /\ pc[w] = "finalizeDelete" /\ Goto(w, "removeFinalizer")
          /\ loc' = [loc EXCEPT ![w].phase = "TearingDown"]
          /\ UNCHANGED <<exam, objs, cache, fresh, todo>>
      BY <2>9 DEF FinalizeDelete
    <3>2. pc'[w] = "removeFinalizer"
      BY <3>1 DEF Goto, TypeOK
    <3>3. SameEntries(w)'
      BY <2>0, <3>1, <3>2 DEF SameEntries, BeforeDispatch
    <3>4. KnownRoutes'
      BY <2>0, <3>1, RoutesKeep
    <3>5. QED
      BY <3>1, <3>3, <3>4, EntriesLocal DEF Goto, TypeOK
  <2>10. QED
    BY <1>4, <2>1, <2>2, <2>3, <2>5, <2>6, <2>7, <2>8, <2>9, EntriesHandlers
       DEF Reconcile, AddFinalizer, StatusUpdate, RemoveFinalizer, FinalizeDelete, cluster
<1>5. QED
  BY <1>2, <1>3, <1>4 DEF Next

LEMMA EntryInit == Init => EntryInv
  BY RankValues DEF Init, NewExam, EntryInv, KnownRoutes, SameEntries, Past, BeforeDispatch

\* The status entries are settled when the Exam becomes Ready: whichever
\* manager reconciles, and from whatever copy, it opens and closes the routes
\* of the same instances.
THEOREM Entries == Spec => []EntryInv
<1>1. TypeOK /\ TypeOK' /\ IInv /\ EntryInv /\ [Next]_vars => EntryInv'
  BY EntryNext, PhaseForward
<1>2. QED
  BY <1>1, EntryInit, TypeCorrect, Invariance, PTL DEF Spec

-----------------------------------------------------------------------------
(***************************************************************************)
(* One manager's routes: the copies its reconciles start from.             *)
(***************************************************************************)

\* A copy that leads to the lock does so later too, and the dispatch on it
\* goes past Unlocked.
LEMMA LocksLater ==
  ASSUME TypeOK, TypeOK', clock <= clock', NEW c \in ExamObjects, LocksOn(c)
  PROVE  LocksOn(c)'
<1>1. clock \in Int /\ clock' \in Int
  BY ControllerAssumption DEF TypeOK
<1>2. LockTime(c.spec) \in Int
  BY ScheduleType DEF ExamObjects
<1>3. QED
  BY <1>1, <1>2 DEF LocksOn

LEMMA LocksDecide ==
  ASSUME TypeOK, NEW c \in ExamObjects, LocksOn(c)
  PROVE  Past(determineDesiredPhase(c.phase, c.spec, clock), 5)
<1>1. c.phase \in ExamPhases /\ c.spec \in Specs /\ clock \in Int
  BY Numbers DEF ExamObjects
<1>2. LockTime(c.spec) \in Int /\ RetentionDeadline(c.spec) \in Int
  BY <1>1, ScheduleType
<1>3. QED
  BY <1>1, <1>2, RankValues DEF LocksOn, Past, determineDesiredPhase, FromUnlocked,
     FromLocked, ExamPhases

\* What the only manager's reconcile finds, and holds, is current enough.
CopiesInv == \A w \in Workers : LockFinal(w) /\ LatestCopy(w)

LEMMA CopiesDispatch ==
  ASSUME Solo, TypeOK, IInv, CopiesInv, NEW w \in Workers, NEW e \in ExamObjects,
         Past(exam.phase, 5) => LocksOn(e),
         fresh'[w] => cache[w] = exam \/ fresh[w], fresh'[w] => ~exam.deleting,
         DecideOn(w, e), UNCHANGED <<clock, exam, cache>>
  PROVE  CopiesInv'
<1> DEFINE d == determineDesiredPhase(e.phase, e.spec, clock)
<1>1. d \in ExamPhases
  BY DesiredPhaseType DEF ExamObjects
<1>2. pc'[w] = HandlerLabel(e, d) /\ loc'[w].phase = d
  BY DEF DecideOn, Goto, TypeOK, ExamObjects
<1>3. Past(exam.phase, 5) => Past(d, 5)
  BY LocksDecide
<1> HIDE DEF d
<1>4. pc'[w] \in InHandler
  BY <1>1, <1>2, HandlerEntry
<1>5. LockFinal(w)'
  BY <1>2, <1>3, <1>4 DEF LockFinal, LocksOn, CopiesInv, BeforeDispatch, InHandler
<1>6. LatestCopy(w)'
  BY DEF LatestCopy, CopiesInv
<1>7. QED
  BY <1>5, <1>6 DEF Solo, CopiesInv

\* A step of the only reconcile within its handler.
LEMMA CopiesHandler ==
  ASSUME Solo, TypeOK, CopiesInv, NEW w \in Workers, pc[w] \in InHandler,
         pc'[w] \in InHandler \cup {"idle"},
         loc[w].phase # "Provisioning" => loc'[w].phase = loc[w].phase,
         UNCHANGED <<clock, exam, cache, fresh>>
  PROVE  CopiesInv'
<1>1. LockFinal(w)'
  BY RankValues DEF LockFinal, LocksOn, Past, CopiesInv, BeforeDispatch, InHandler
<1>2. LatestCopy(w)'
  BY DEF LatestCopy, CopiesInv
<1>3. QED
  BY <1>1, <1>2 DEF Solo, CopiesInv

\* A reconcile that ends, with what it writes.
LEMMA CopiesReturn ==
  ASSUME Solo, TypeOK, CopiesInv, NEW w \in Workers, Return(w), ~fresh'[w],
         Past(exam'.phase, 5) => Past(exam.phase, 5) \/ LocksOn(cache[w]),
         UNCHANGED <<clock, cache>>
  PROVE  CopiesInv'
<1>1. pc'[w] = "idle"
  BY DEF Return, TypeOK
<1>2. LockFinal(w)'
  BY <1>1 DEF LockFinal, LocksOn, CopiesInv, BeforeDispatch, InHandler
<1>3. QED
  BY <1>2 DEF Solo, CopiesInv, LatestCopy

\* One manager's copies, step by step.
LEMMA CopiesNext ==
  ASSUME Solo, TypeOK, TypeOK', IInv, CopiesInv, [Next]_vars
  PROVE  CopiesInv'
<1>0. /\ exam \in ExamObjects
      /\ \A v \in Workers : cache[v] \in ExamObjects /\ loc[v] \in ExamObjects
  BY DEF TypeOK
<1>1. ASSUME exam'.phase = exam.phase, clock <= clock', UNCHANGED <<pc, loc, cache>>,
             \A v \in Workers : fresh'[v] => fresh[v] /\ exam' = exam
      PROVE  CopiesInv'
  <2>1. ASSUME NEW v \in Workers PROVE LockFinal(v)'
    <3>1. LocksOn(cache[v]) => LocksOn(cache[v])'
      BY <1>0, <1>1, LocksLater
    <3>2. LocksOn(loc[v]) => LocksOn(loc[v])'
      BY <1>0, <1>1, LocksLater
    <3>3. QED
      BY <1>1, <3>1, <3>2 DEF LockFinal, CopiesInv
  <2>2. ASSUME NEW v \in Workers PROVE LatestCopy(v)'
    BY <1>1 DEF LatestCopy, CopiesInv
  <2>3. QED
    BY <2>1, <2>2 DEF CopiesInv
<1>2. clock <= clock /\ clock <= clock + 1
  BY Numbers
<1>3. CASE UNCHANGED vars
  BY <1>1, <1>2, <1>3 DEF vars
<1>4. CASE Environment
  <2>1. CASE Tick \/ NamespaceGone \/ (\E i \in Instances : DeploymentReady(i))
             \/ (\E o \in objs : Drift(o))
    BY <1>1, <1>2, <2>1 DEF Tick, NamespaceGone, DeploymentReady, Drift, worker
  <2>2. CASE DeleteExam \/ (\E s \in Specs : EditSpec(s))
    <3>1. exam'.phase = exam.phase
      BY <2>2 DEF DeleteExam, EditSpec, UserStore, Store, TypeOK, ExamObjects
    <3>2. QED
      BY <1>1, <1>2, <2>2, <3>1 DEF DeleteExam, EditSpec, UserStore
  <2>3. ASSUME NEW w \in Workers, InformerSync(w) \/ Crash(w) PROVE CopiesInv'
    <3>1. /\ cache' = [cache EXCEPT ![w] = exam] /\ UNCHANGED <<clock, exam>>
          /\ \/ UNCHANGED <<pc, loc, fresh>>
             \/ Return(w) /\ fresh' = [fresh EXCEPT ![w] = FALSE]
      BY <2>3 DEF InformerSync, Crash, worker
    <3>2. /\ cache'[w] = exam
          /\ \/ pc'[w] = pc[w] /\ loc'[w] = loc[w] /\ fresh'[w] = fresh[w]
             \/ pc'[w] = "idle" /\ ~fresh'[w]
      BY <3>1 DEF Return, TypeOK
    <3>3. LockFinal(w)'
      BY <3>1, <3>2 DEF LockFinal, LocksOn, CopiesInv, BeforeDispatch, InHandler
    <3>4. LatestCopy(w)'
      BY <3>1, <3>2 DEF LatestCopy, CopiesInv
    <3>5. QED
      BY <3>3, <3>4 DEF Solo, CopiesInv
  <2>4. QED
    BY <1>4, <2>1, <2>2, <2>3 DEF Environment
<1>5. ASSUME NEW w \in Workers, Reconcile(w) PROVE CopiesInv'
  <2>0. /\ CacheInv(w) /\ FreshInv(w) /\ HandlerPhaseOK(w) /\ LockFinal(w) /\ LatestCopy(w)
        /\ cache[w] \in ExamObjects /\ loc[w] \in ExamObjects
    BY <1>0 DEF IInv, WorkerInv, HandlerPhaseInv, CopiesInv
  <2>1. CASE GetNothing(w)
    BY <2>1, <1>3 DEF GetNothing
  <2>2. CASE Get(w)
    <3>1. UNCHANGED <<clock, exam, cache>> /\ fresh'[w] = synced[w]
      BY <2>2 DEF Get, TypeOK
    <3>2. CASE cache[w].finalizer /\ ~cache[w].deleting
      <4>1. DecideOn(w, cache[w])
        BY <2>2, <3>2 DEF Get
      <4>2. /\ Past(exam.phase, 5) => LocksOn(cache[w])
            /\ fresh'[w] => cache[w] = exam /\ ~exam.deleting
        BY <2>0, <3>1, <3>2 DEF CacheInv, LockFinal
      <4>3. QED
        BY <2>0, <3>1, <4>1, <4>2, CopiesDispatch
    <3>3. CASE ~(cache[w].finalizer /\ ~cache[w].deleting)
      <4>1. /\ pc'[w] = IF cache[w].deleting THEN "finalizeDelete" ELSE "addFinalizer"
            /\ loc'[w] = cache[w]
        BY <2>2, <3>3 DEF Get, Goto, TypeOK
      <4>2. LockFinal(w)'
        BY <2>0, <3>1, <4>1 DEF LockFinal, LocksOn, BeforeDispatch, InHandler
      <4>3. LatestCopy(w)'
        BY <2>0, <3>1, <4>1 DEF LatestCopy, CacheInv, BeforeDispatch, InHandler
      <4>4. QED
        BY <4>2, <4>3 DEF Solo, CopiesInv
    <3>4. QED
      BY <3>2, <3>3
  <2>3. CASE Decide(w)
    <3>1. UNCHANGED <<clock, exam, cache, fresh>> /\ DecideOn(w, loc[w]) /\ pc[w] = "decide"
      BY <2>3 DEF Decide
    <3>2. /\ Past(exam.phase, 5) => LocksOn(loc[w])
          /\ fresh[w] => ~exam.deleting
      BY <2>0, <3>1 DEF LockFinal, LatestCopy, BeforeDispatch
    <3>3. QED
      BY <2>0, <3>1, <3>2, CopiesDispatch
  <2>4. CASE ReturnNoWrite(w) /\ UNCHANGED <<clock, cache>>
    <3>1. ~fresh'[w] /\ exam' = exam /\ Return(w)
      BY <2>4 DEF ReturnNoWrite, TypeOK
    <3>2. QED
      BY <2>4, <3>1, CopiesReturn
  <2>5. CASE AddFinalizer(w) /\ ~ReturnNoWrite(w)
    <3>1. /\ pc[w] = "addFinalizer" /\ fresh[w]
          /\ exam' = [exam EXCEPT !.finalizer = TRUE]
          /\ loc' = [loc EXCEPT ![w].finalizer = TRUE] /\ Goto(w, "decide")
          /\ UNCHANGED <<clock, cache>>
      BY <2>5 DEF AddFinalizer, Store, Conflict
    <3>2. /\ exam'.phase = exam.phase /\ exam'.spec = exam.spec
          /\ exam'.deleting = exam.deleting
          /\ loc'[w].phase = loc[w].phase /\ loc'[w].spec = loc[w].spec /\ pc'[w] = "decide"
      BY <1>0, <2>0, <3>1 DEF Goto, TypeOK, ExamObjects
    <3>3. LockFinal(w)'
      BY <2>0, <3>1, <3>2 DEF LockFinal, LocksOn, BeforeDispatch, InHandler
    <3>4. LatestCopy(w)'
      BY <2>0, <3>1, <3>2 DEF LatestCopy, BeforeDispatch
    <3>5. QED
      BY <3>3, <3>4 DEF Solo, CopiesInv
  <2>6. CASE StatusUpdate(w) /\ ~ReturnNoWrite(w)
    <3>1. /\ pc[w] = "status" /\ fresh[w]
          /\ exam' = [exam EXCEPT !.phase = loc[w].phase, !.inst = loc[w].inst,
                                  !.mail = loc[w].mail, !.conds = loc[w].conds]
          /\ fresh' = FreshAfter(exam', w, FALSE) /\ Return(w) /\ UNCHANGED <<clock, cache>>
      BY <2>6 DEF StatusUpdate, Store, Conflict
    <3>2. exam'.phase = loc[w].phase /\ ~fresh'[w]
      BY <1>0, <3>1 DEF FreshAfter, ExamObjects
    <3>3. Contract!MayFollow(exam.phase, loc[w].phase, exam.spec, clock)
          /\ cache[w].phase = exam.phase /\ cache[w].spec = exam.spec
      BY <2>0, <3>1 DEF FreshInv, LatestCopy, InHandler
    <3>4. Past(loc[w].phase, 5) => Past(exam.phase, 5) \/ LocksOn(cache[w])
      BY <1>0, <2>0, <3>3, RankValues, SameSchedule
         DEF Contract!MayFollow, Past, LocksOn, ExamObjects, ExamPhases
    <3>5. QED
      BY <3>1, <3>2, <3>4, CopiesReturn
  <2>7. CASE RemoveFinalizer(w) /\ ~ReturnNoWrite(w)
    <3>1. /\ exam' = [exam EXCEPT !.present = FALSE, !.finalizer = FALSE]
          /\ fresh' = FreshAfter(exam', w, FALSE) /\ Return(w) /\ UNCHANGED <<clock, cache>>
      BY <2>7 DEF RemoveFinalizer, Store
    <3>2. exam'.phase = exam.phase /\ ~fresh'[w]
      BY <1>0, <3>1 DEF FreshAfter, ExamObjects
    <3>3. QED
      BY <3>1, <3>2, CopiesReturn
  <2>8. CASE FinalizeDelete(w) /\ ~ReturnNoWrite(w)
    <3>1. /\ pc[w] = "finalizeDelete" /\ pc'[w] = "removeFinalizer"
          /\ UNCHANGED <<clock, exam, cache, fresh>>
      BY <2>8 DEF FinalizeDelete, Goto, TypeOK
    <3>2. LockFinal(w)'
      BY <2>0, <3>1 DEF LockFinal, LocksOn, BeforeDispatch, InHandler
    <3>3. LatestCopy(w)'
      BY <2>0, <3>1 DEF LatestCopy, BeforeDispatch, InHandler
    <3>4. QED
      BY <3>2, <3>3 DEF Solo, CopiesInv
  <2>9. CASE \/ CreateNamespace(w) \/ provisionInstance(w) \/ SlugError(w)
             \/ FinishProvisioning(w) \/ sendNextPendingEmail(w) \/ ReadyContinue(w)
             \/ enforcePolicies(w) \/ deleteIngresses(w) \/ NotifyInstructor(w)
             \/ reconcileTeardown(w)
    <3>1. pc[w] \in InHandler /\ UNCHANGED <<clock, exam, cache, fresh>>
      BY <2>9 DEF CreateNamespace, provisionInstance, SlugError, FinishProvisioning,
         sendNextPendingEmail, ReadyContinue, enforcePolicies, deleteIngresses,
         NotifyInstructor, reconcileTeardown, InHandler
    <3>2. pc'[w] \in InHandler
      BY <2>9 DEF CreateNamespace, provisionInstance, SlugError, FinishProvisioning,
         sendNextPendingEmail, ReadyContinue, enforcePolicies, deleteIngresses,
         NotifyInstructor, reconcileTeardown, Goto, EnforceLabel, AfterEnforce,
         InHandler, TypeOK
    <3>3. loc[w].phase # "Provisioning" => loc'[w].phase = loc[w].phase
      <4>1. CASE provisionInstance(w) \/ FinishProvisioning(w)
        BY <2>0, <4>1 DEF provisionInstance, FinishProvisioning, HandlerPhaseOK
      <4>2. CASE sendNextPendingEmail(w)
        BY <2>0, <4>2 DEF sendNextPendingEmail, TypeOK, ExamObjects
      <4>3. CASE ReadyContinue(w)
        BY <2>0, <4>3 DEF ReadyContinue, TypeOK, ExamObjects
      <4>4. CASE NotifyInstructor(w)
        BY <2>0, <4>4 DEF NotifyInstructor, TypeOK, ExamObjects
      <4>5. QED
        BY <2>9, <4>1, <4>2, <4>3, <4>4 DEF CreateNamespace, SlugError, enforcePolicies,
           deleteIngresses, reconcileTeardown
    <3>4. QED
      BY <3>1, <3>2, <3>3, CopiesHandler
  <2>10. QED
    BY <1>5, <2>1, <2>2, <2>3, <2>4, <2>5, <2>6, <2>7, <2>8, <2>9
       DEF Reconcile, AddFinalizer, StatusUpdate, RemoveFinalizer, FinalizeDelete
<1>6. QED
  BY <1>3, <1>4, <1>5 DEF Next

-----------------------------------------------------------------------------
(***************************************************************************)
(* One manager's routes: the loops that close and open them.               *)
(***************************************************************************)

\* Failures are counted and never forgotten.
LEMMA FaultsCounted ==
  ASSUME TypeOK, [Next]_vars
  PROVE  faults \in Nat /\ faults <= faults'
<1>1. faults \in Nat
  BY ControllerAssumption DEF TypeOK
<1>2. ASSUME NEW n \in {0, 1, 2}, Charge(n) PROVE faults <= faults'
  BY <1>1, <1>2 DEF Charge
<1>3. ASSUME UNCHANGED faults PROVE faults <= faults'
  BY <1>1, <1>3
<1>4. ASSUME Environment PROVE faults <= faults'
  BY <1>2, <1>3, <1>4 DEF Environment, Tick, DeleteExam, EditSpec, UserStore, NamespaceGone,
     DeploymentReady, Drift, InformerSync, Crash, OneFault
<1>5. ASSUME NEW w \in Workers, Reconcile(w) PROVE faults <= faults'
  <2>1. CASE \/ CreateNamespace(w) \/ provisionInstance(w) \/ SlugError(w)
             \/ enforcePolicies(w) \/ deleteIngresses(w) \/ reconcileTeardown(w)
             \/ FinalizeDelete(w) \/ RemoveFinalizer(w) \/ StatusUpdate(w)
             \/ AddFinalizer(w)
    BY <1>2, <1>3, <2>1 DEF CreateNamespace, provisionInstance, SlugError, enforcePolicies,
       deleteIngresses, reconcileTeardown, FinalizeDelete, RemoveFinalizer, StatusUpdate,
       AddFinalizer, OneFault, NoFault
  <2>2. CASE FinishProvisioning(w)
    <3>1. PICK sent \in BOOLEAN : Charge(Cost(~sent))
      BY <2>2 DEF FinishProvisioning
    <3>2. Cost(~sent) \in {0, 1}
      BY DEF Cost
    <3>3. QED
      BY <1>2, <3>1, <3>2
  <2>3. CASE sendNextPendingEmail(w) \/ NotifyInstructor(w)
    BY <1>2, <1>3, <2>3 DEF sendNextPendingEmail, NotifyInstructor, Cost, NoFault
  <2>4. CASE Get(w) \/ Decide(w) \/ ReadyContinue(w) \/ GetNothing(w)
    BY <1>3, <2>4 DEF Get, Decide, ReadyContinue, GetNothing, vars
  <2>5. QED
    BY <1>5, <2>1, <2>2, <2>3, <2>4 DEF Reconcile
<1>6. QED
  BY <1>1, <1>3, <1>4, <1>5 DEF Next, vars

\* A step without failures behind it comes from a state without any.
LEMMA FaultFree ==
  ASSUME TypeOK, [Next]_vars, faults' = 0
  PROVE  faults = 0
  BY FaultsCounted

\* A copy that decides on Locked closes, and one that decides on Unlocked
\* opens, the routes of every entry.
LEMMA LoopsDispatch ==
  ASSUME Solo, TypeOK, EntryInv, NEW w \in Workers, NEW e \in ExamObjects,
         Past(e.phase, 3) => collectSlugs(e) = collectSlugs(exam),
         DecideOn(w, e), UNCHANGED <<exam, objs, faults>>
  PROVE  ClosingInv(w)' /\ OpeningInv(w)'
<1> DEFINE d == determineDesiredPhase(e.phase, e.spec, clock)
<1>0. e.phase \in ExamPhases /\ e.spec \in Specs /\ clock \in Int
  BY Numbers DEF ExamObjects
<1>1. d \in ExamPhases
  BY <1>0, DesiredPhaseType
<1>2. d \in {"Unlocked", "Locked"} => collectSlugs(e) = collectSlugs(exam)
  BY <1>0, DesiredOrigin, RankValues DEF Past
<1>3. /\ pc'[w] = HandlerLabel(e, d) /\ loc'[w].phase = d /\ loc'[w].inst = e.inst
      /\ d \in {"Unlocked", "Locked"} => todo'[w] = collectSlugs(e)
  BY DEF DecideOn, Goto, TypeOK, ExamObjects
<1> HIDE DEF d
<1>4. collectSlugs(loc'[w]) = collectSlugs(e)
  BY <1>3, SlugsOf
<1>5. /\ d = "Locked" => pc'[w] = IF collectSlugs(e) = {} THEN "deleteIngresses" ELSE "enforce"
      /\ d = "Unlocked" => pc'[w] = IF collectSlugs(e) = {} THEN "notify" ELSE "enforce"
  BY <1>3 DEF HandlerLabel, EnforceLabel, AfterEnforce
<1>6. \A i \in Instances : <<"ingressAllow", i>> \in objs => i \in collectSlugs(exam)
  <2>1. ASSUME NEW i \in Instances, <<"ingressAllow", i>> \in objs
        PROVE  i \in collectSlugs(exam)
    <3>1. <<"ingressAllow", i>> \in objs \cap AccessObjects
      BY <2>1 DEF AccessObjects, AccessKinds
    <3>2. <<"ingressAllow", i>> \in AccessKinds \X collectSlugs(exam)
      BY <3>1 DEF EntryInv, KnownRoutes
    <3>3. QED
      BY <3>2
  <2>2. QED
    BY <2>1
<1>7. ClosingInv(w)'
  BY <1>2, <1>3, <1>5, <1>6 DEF ClosingInv
<1>8. OpeningInv(w)'
  <2>1. CASE d = "Unlocked"
    <3>1. collectSlugs(loc'[w]) \ todo'[w] = {}
      BY <1>3, <1>4, <2>1
    <3>2. pc'[w] \in {"notify", "status"} => collectSlugs(loc'[w]) = {}
      BY <1>4, <1>5, <2>1
    <3>3. QED
      BY <3>1, <3>2 DEF OpeningInv
  <2>2. CASE d # "Unlocked"
    BY <1>3, <2>2 DEF OpeningInv
  <2>3. QED
    BY <2>1, <2>2
<1>9. QED
  BY <1>7, <1>8

\* One turn of the loop of enforcePolicies.
LEMMA LoopsEnforce ==
  ASSUME Solo, TypeOK, TypeOK', IInv, EntryInv, RouteInv, NEW w \in Workers,
         enforcePolicies(w), faults' = 0, faults = 0
  PROVE  ClosingInv(w)' /\ OpeningInv(w)' /\ LockedClosed'
<1>1. PICK i \in todo[w], failed \in SUBSET (EnforceCreates(w) \cup EnforceDeletes(w)) :
        /\ IF failed = {} THEN NoFault ELSE OneFault
        /\ objs' = (objs \cup Create(EnforceCreates(w) \ failed, i))
                      \ ((EnforceDeletes(w) \ failed) \X {i})
        /\ todo' = [todo EXCEPT ![w] = @ \ {i}]
        /\ Goto(w, EnforceLabel(todo[w] \ {i}, loc[w].phase))
  BY DEF enforcePolicies
<1>2. pc[w] = "enforce" /\ UNCHANGED <<exam, ns, loc, fresh>>
  BY DEF enforcePolicies
<1>3. failed = {}
  BY <1>1 DEF OneFault, Charge
<1>4. /\ objs' = (objs \cup Create(EnforceCreates(w), i)) \ (EnforceDeletes(w) \X {i})
      /\ todo'[w] = todo[w] \ {i} /\ i \in Instances
      /\ pc'[w] = EnforceLabel(todo[w] \ {i}, loc[w].phase)
  BY <1>1, <1>3 DEF Goto, TypeOK
<1>5. /\ HandlerPhaseOK(w) /\ FreshInv(w) /\ InFlightInv(w) /\ StoredInv
      /\ SameEntries(w) /\ LockFinal(w) /\ LatestCopy(w) /\ ClosingInv(w) /\ OpeningInv(w)
  BY DEF IInv, WorkerInv, HandlerPhaseInv, EntryInv, RouteInv
<1>6. CASE loc[w].phase = "Unlocked"
  <2>1. ~Past(exam.phase, 5)
    BY <1>2, <1>5, <1>6, RankValues DEF LockFinal, InHandler, Past
  <2>2. ClosingInv(w)' /\ LockedClosed'
    BY <1>2, <1>6, <2>1, RankValues DEF ClosingInv, LockedClosed, Past
  <2>3. OpeningInv(w)'
    <3>1. SUFFICES ASSUME fresh[w]
                   PROVE  AccessKinds \X (collectSlugs(loc[w]) \ todo'[w]) \subseteq objs'
      <4>1. pc'[w] = IF todo'[w] = {} THEN "notify" ELSE "enforce"
        BY <1>4, <1>6 DEF EnforceLabel, AfterEnforce
      <4>2. collectSlugs(loc[w]) \ {} = collectSlugs(loc[w])
        OBVIOUS
      <4> HIDE DEF collectSlugs
      <4>3. QED
        BY <1>2, <1>6, <3>1, <4>1, <4>2 DEF OpeningInv
    <3>2. ns = "active"
      BY <1>2, <1>5, <1>6, <2>1, <3>1, RankValues
         DEF InFlightInv, LatestCopy, InHandler, Kept, Past
    <3>3. objs' = objs \cup (EnforceCreates(w) \X {i})
      BY <1>4, <1>6, <3>2 DEF Create, EnforceDeletes, Unlocking
    <3>4. AccessKinds \subseteq EnforceCreates(w)
      BY <1>6 DEF EnforceCreates, Unlocking
    <3>5. AccessKinds \X (collectSlugs(loc[w]) \ todo[w]) \subseteq objs
      BY <1>2, <1>5, <1>6, <3>1 DEF OpeningInv
    <3> HIDE DEF collectSlugs
    <3>6. QED
      BY <1>4, <3>3, <3>4, <3>5
  <2>4. QED
    BY <2>2, <2>3
<1>7. CASE loc[w].phase # "Unlocked"
  <2>1. /\ EnforceCreates(w) = {"denyAll", "egressAllow"}
        /\ EnforceDeletes(w) = {"ingressAllow"}
    BY <1>7 DEF EnforceCreates, EnforceDeletes, Unlocking
  <2>2. /\ objs' \cap AccessObjects \subseteq objs
        /\ \A j \in Instances : <<"ingressAllow", j>> \in objs' =>
             <<"ingressAllow", j>> \in objs /\ j # i
    BY <1>4, <2>1 DEF Create, AccessObjects, AccessKinds
  <2>3. LockedClosed'
    BY <1>2, <2>2 DEF RouteInv, LockedClosed
  <2>4. OpeningInv(w)'
    BY <1>2, <1>7 DEF OpeningInv
  <2>5. ClosingInv(w)'
    <3>1. CASE loc[w].phase = "Locked"
      <4>1. pc'[w] = IF todo'[w] = {} THEN "deleteIngresses" ELSE "enforce"
        BY <1>4, <3>1 DEF EnforceLabel, AfterEnforce
      <4>2. \A j \in Instances : <<"ingressAllow", j>> \in objs' => j \in todo'[w]
        BY <1>2, <1>4, <1>5, <2>2, <3>1 DEF ClosingInv
      <4>3. QED
        BY <1>2, <4>1, <4>2 DEF ClosingInv
    <3>2. CASE loc[w].phase # "Locked"
      BY <1>2, <3>2 DEF ClosingInv
    <3>3. QED
      BY <3>1, <3>2
  <2>6. QED
    BY <2>3, <2>4, <2>5
<1>8. QED
  BY <1>6, <1>7

\* The steps of the handlers.
LEMMA LoopsHandlers ==
  ASSUME Solo, TypeOK, TypeOK', IInv, EntryInv, RouteInv, NEW w \in Workers,
         faults' = 0 => faults = 0,
         \/ CreateNamespace(w) \/ provisionInstance(w) \/ SlugError(w)
         \/ FinishProvisioning(w) \/ sendNextPendingEmail(w) \/ ReadyContinue(w)
         \/ enforcePolicies(w) \/ deleteIngresses(w) \/ NotifyInstructor(w)
         \/ reconcileTeardown(w)
  PROVE  ClosingInv(w)' /\ OpeningInv(w)' /\ LockedClosed'
<1>0. /\ loc[w] \in ExamObjects /\ HandlerPhaseOK(w) /\ LockedClosed
      /\ ClosingInv(w) /\ OpeningInv(w)
  BY DEF TypeOK, IInv, HandlerPhaseInv, RouteInv
<1>1. UNCHANGED <<exam, fresh>>
  BY DEF CreateNamespace, provisionInstance, SlugError, FinishProvisioning,
     sendNextPendingEmail, ReadyContinue, enforcePolicies, deleteIngresses,
     NotifyInstructor, reconcileTeardown
<1>2. ASSUME loc'[w].phase \notin {"Unlocked", "Locked"}, objs' \cap AccessObjects \subseteq objs
      PROVE  ClosingInv(w)' /\ OpeningInv(w)' /\ LockedClosed'
  <2>1. \A i \in Instances : <<"ingressAllow", i>> \in objs' => <<"ingressAllow", i>> \in objs
    BY <1>2 DEF AccessObjects, AccessKinds
  <2>2. QED
    BY <1>0, <1>1, <1>2, <2>1 DEF ClosingInv, OpeningInv, LockedClosed
<1>3. CASE CreateNamespace(w) \/ SlugError(w) \/ reconcileTeardown(w)
  BY <1>0, <1>2, <1>3 DEF CreateNamespace, SlugError, reconcileTeardown, HandlerPhaseOK, cluster
<1>4. CASE provisionInstance(w)
  <2>1. PICK i \in todo[w], n \in 0..4 :
          /\ objs' = objs \cup Create({ProvisionedKinds[k] : k \in 1..n}, i)
          /\ loc' = [loc EXCEPT ![w] = setInstanceStatus(loc[w], i, n = 4)]
    BY <1>4 DEF provisionInstance
  <2>2. Create({ProvisionedKinds[k] : k \in 1..n}, i) \cap AccessObjects = {}
    <3>1. \A k \in 1..n : ProvisionedKinds[k] \notin AccessKinds
      BY DEF ProvisionedKinds, AccessKinds
    <3>2. QED
      BY <3>1 DEF Create, AccessObjects
  <2>3. setInstanceStatus(loc[w], i, n = 4).phase = loc[w].phase
    BY <1>0 DEF setInstanceStatus, ExamObjects
  <2>4. loc'[w].phase = "Provisioning"
    BY <1>0, <1>4, <2>1, <2>3 DEF provisionInstance, HandlerPhaseOK, TypeOK
  <2>5. QED
    BY <1>2, <2>1, <2>2, <2>4
<1>5. CASE FinishProvisioning(w)
  <2>1. objs' \subseteq objs
    BY <1>5 DEF FinishProvisioning
  <2>2. loc'[w].phase \in {"Provisioning", "Ready"}
    BY <1>0, <1>5 DEF FinishProvisioning, HandlerPhaseOK, TypeOK, ExamObjects
  <2>3. QED
    BY <1>2, <2>1, <2>2
<1>6. CASE sendNextPendingEmail(w) \/ ReadyContinue(w)
  <2>1. objs' = objs /\ pc[w] = "ready"
    BY <1>6 DEF sendNextPendingEmail, ReadyContinue, cluster
  <2>2. loc'[w].phase = "Ready"
    <3>1. loc[w].phase = "Ready"
      BY <1>0, <2>1 DEF HandlerPhaseOK
    <3>2. CASE sendNextPendingEmail(w)
      BY <1>0, <3>1, <3>2 DEF sendNextPendingEmail, TypeOK, ExamObjects
    <3>3. CASE ReadyContinue(w)
      BY <1>0, <3>1, <3>3 DEF ReadyContinue, TypeOK, ExamObjects
    <3>4. QED
      BY <1>6, <3>2, <3>3
  <2>3. QED
    BY <1>2, <2>1, <2>2
<1>7. CASE enforcePolicies(w)
  <2>1. CASE faults' = 0
    BY <1>7, <2>1, LoopsEnforce
  <2>2. CASE faults' # 0
    BY <2>2 DEF ClosingInv, OpeningInv, LockedClosed
  <2>3. QED
    BY <2>1, <2>2
<1>8. CASE deleteIngresses(w)
  <2>1. /\ pc[w] = "deleteIngresses" /\ loc' = loc /\ loc[w].phase = "Locked"
        /\ objs' \subseteq objs
        /\ pc'[w] \in {"notify", "status"}
    BY <1>0, <1>8 DEF deleteIngresses, HandlerPhaseOK, Goto, TypeOK
  <2>2. QED
    BY <1>0, <1>1, <2>1 DEF ClosingInv, OpeningInv, LockedClosed
<1>9. CASE NotifyInstructor(w)
  <2>1. pc[w] = "notify" /\ pc'[w] = "status" /\ objs' = objs
    BY <1>9 DEF NotifyInstructor, Goto, TypeOK, cluster
  <2>2. loc'[w].inst = MoveInstances(loc[w]) /\ loc'[w].phase = loc[w].phase
    BY <1>9, <1>0 DEF NotifyInstructor, TypeOK, ExamObjects
  <2>3. collectSlugs(loc'[w]) = collectSlugs(loc[w])
    BY <2>2 DEF collectSlugs, MoveInstances
  <2>4. ClosingInv(w)' /\ LockedClosed'
    BY <1>0, <1>1, <2>1, <2>2 DEF ClosingInv, LockedClosed
  <2>5. OpeningInv(w)'
    BY <1>0, <1>1, <2>1, <2>2, <2>3 DEF OpeningInv
  <2>6. QED
    BY <2>4, <2>5
<1>10. QED
  BY <1>3, <1>4, <1>5, <1>6, <1>7, <1>8, <1>9

\* RouteInv is inductive.
LEMMA RouteNext ==
  ASSUME Solo, TypeOK, TypeOK', IInv, EntryInv, RouteInv, [Next]_vars
  PROVE  RouteInv'
<1>1. CopiesInv'
  BY CopiesNext DEF RouteInv, CopiesInv
<1>2. SUFFICES ASSUME NEW w \in Workers PROVE ClosingInv(w)' /\ OpeningInv(w)' /\ LockedClosed'
  BY <1>1, <1>2, ControllerAssumption DEF RouteInv, CopiesInv
<1>3. /\ faults' = 0 => faults = 0
      /\ LockedClosed /\ ClosingInv(w) /\ OpeningInv(w) /\ LatestCopy(w)
      /\ StoredInv /\ WorkerInv(w) /\ SameEntries(w)
      /\ exam \in ExamObjects /\ loc[w] \in ExamObjects /\ cache[w] \in ExamObjects
  BY FaultFree DEF RouteInv, IInv, EntryInv, TypeOK
<1>4. ASSUME exam'.phase = exam.phase, UNCHANGED <<pc, loc, todo>>,
             objs' \cap AccessObjects \subseteq objs, fresh'[w] => fresh[w],
             \/ objs' = objs \/ faults' # 0
             \/ ~(fresh[w] /\ loc[w].phase = "Unlocked" /\ pc[w] \in InHandler)
      PROVE  ClosingInv(w)' /\ OpeningInv(w)' /\ LockedClosed'
  <2>1. \A i \in Instances : <<"ingressAllow", i>> \in objs' => <<"ingressAllow", i>> \in objs
    BY <1>4 DEF AccessObjects, AccessKinds
  <2>2. LockedClosed'
    BY <1>3, <1>4, <2>1 DEF LockedClosed
  <2>3. ClosingInv(w)'
    BY <1>3, <1>4, <2>1 DEF ClosingInv
  <2>4. OpeningInv(w)'
    BY <1>3, <1>4 DEF OpeningInv, InHandler
  <2>5. QED
    BY <2>2, <2>3, <2>4
<1>5. CASE UNCHANGED vars
  BY <1>4, <1>5 DEF vars
<1>6. ASSUME Return(w), exam'.phase = exam.phase, objs' = objs
      PROVE  ClosingInv(w)' /\ OpeningInv(w)' /\ LockedClosed'
  <2>1. pc'[w] = "idle"
    BY <1>6 DEF Return, TypeOK
  <2>2. QED
    BY <1>3, <1>6, <2>1 DEF ClosingInv, OpeningInv, LockedClosed
<1>7. CASE Environment
  <2>1. CASE Tick \/ (\E i \in Instances : DeploymentReady(i))
    BY <1>4, <2>1 DEF Tick, DeploymentReady, worker, cluster
  <2>2. CASE NamespaceGone
    <3>1. /\ objs' = {} /\ UNCHANGED <<exam, pc, loc, todo, fresh>> /\ ns = "terminating"
      BY <2>2 DEF NamespaceGone, worker
    <3>2. exam.deleting \/ Past(exam.phase, 5)
      BY <1>3, <3>1 DEF StoredInv, Kept
    <3>3. ~(fresh[w] /\ loc[w].phase = "Unlocked" /\ pc[w] \in InHandler)
      BY <1>3, <3>2, RankValues DEF LatestCopy, RouteInv, LockFinal, Past
    <3>4. QED
      BY <1>4, <3>1, <3>3
  <2>3. ASSUME NEW o \in objs, Drift(o)
        PROVE ClosingInv(w)' /\ OpeningInv(w)' /\ LockedClosed'
    <3>1. /\ objs' \subseteq objs /\ UNCHANGED <<exam, pc, loc, todo, fresh>> /\ OneFault
      BY <2>3 DEF Drift, worker
    <3>2. faults' # 0
      BY <3>1, ControllerAssumption DEF OneFault, Charge, TypeOK
    <3>3. QED
      BY <1>4, <3>1, <3>2
  <2>4. CASE DeleteExam \/ (\E s \in Specs : EditSpec(s))
    <3>1. exam'.phase = exam.phase
      BY <2>4 DEF DeleteExam, EditSpec, UserStore, Store, TypeOK, ExamObjects
    <3>2. UNCHANGED <<objs, pc, loc, todo>> /\ ~fresh'[w]
      BY <2>4 DEF DeleteExam, EditSpec, UserStore, cluster
    <3>3. QED
      BY <1>4, <3>1, <3>2
  <2>5. ASSUME NEW v \in Workers, InformerSync(v) \/ Crash(v)
        PROVE  ClosingInv(w)' /\ OpeningInv(w)' /\ LockedClosed'
    <3>1. v = w
      BY DEF Solo
    <3>2. CASE InformerSync(w)
      BY <1>4, <3>2 DEF InformerSync, worker, cluster
    <3>3. CASE Crash(w)
      BY <1>6, <3>3 DEF Crash, cluster
    <3>4. QED
      BY <2>5, <3>1, <3>2, <3>3
  <2>6. QED
    BY <1>7, <2>1, <2>2, <2>3, <2>4, <2>5 DEF Environment
<1>8. CASE Reconcile(w)
  <2>1. CASE GetNothing(w)
    BY <2>1, <1>5 DEF GetNothing
  <2>2. CASE Get(w) /\ DecideOn(w, cache[w])
    <3>1. UNCHANGED <<exam, objs, faults>>
      BY <2>2 DEF Get, cluster
    <3>2. ClosingInv(w)' /\ OpeningInv(w)'
      BY <1>3, <2>2, <3>1, LoopsDispatch DEF SameEntries
    <3>3. QED
      BY <1>3, <3>1, <3>2 DEF LockedClosed
  <2>3. CASE Get(w) /\ ~DecideOn(w, cache[w])
    <3>1. pc'[w] \in {"finalizeDelete", "addFinalizer"} /\ UNCHANGED <<exam, objs, faults>>
      BY <2>3 DEF Get, Goto, TypeOK, cluster
    <3>2. QED
      BY <1>3, <3>1 DEF ClosingInv, OpeningInv, LockedClosed
  <2>4. CASE Decide(w)
    <3>1. UNCHANGED <<exam, objs, faults>> /\ DecideOn(w, loc[w]) /\ pc[w] = "decide"
      BY <2>4 DEF Decide, cluster
    <3>2. ClosingInv(w)' /\ OpeningInv(w)'
      BY <1>3, <3>1, LoopsDispatch DEF SameEntries, BeforeDispatch
    <3>3. QED
      BY <1>3, <3>1, <3>2 DEF LockedClosed
  <2>5. CASE ReturnNoWrite(w) /\ UNCHANGED objs
    BY <1>6, <2>5 DEF ReturnNoWrite
  <2>6. CASE AddFinalizer(w) /\ ~ReturnNoWrite(w)
    <3>1. /\ exam' = [exam EXCEPT !.finalizer = TRUE] /\ pc'[w] = "decide"
          /\ UNCHANGED <<objs, faults>>
      BY <2>6 DEF AddFinalizer, Store, Goto, TypeOK, cluster, NoFault
    <3>2. exam'.phase = exam.phase
      BY <1>3, <3>1 DEF ExamObjects
    <3>3. QED
      BY <1>3, <3>1, <3>2 DEF ClosingInv, OpeningInv, LockedClosed
  <2>7. CASE StatusUpdate(w) /\ ~ReturnNoWrite(w)
    <3>1. /\ pc[w] = "status"
          /\ exam' = [exam EXCEPT !.phase = loc[w].phase, !.inst = loc[w].inst,
                                  !.mail = loc[w].mail, !.conds = loc[w].conds]
          /\ Return(w) /\ UNCHANGED objs
      BY <2>7 DEF StatusUpdate, Store, cluster
    <3>2. exam'.phase = loc[w].phase
      BY <1>3, <3>1 DEF ExamObjects
    <3>3. LockedClosed'
      BY <1>3, <3>1, <3>2 DEF LockedClosed, ClosingInv
    <3>4. pc'[w] = "idle"
      BY <3>1 DEF Return, TypeOK
    <3>5. QED
      BY <3>3, <3>4 DEF ClosingInv, OpeningInv
  <2>8. CASE RemoveFinalizer(w) /\ ~ReturnNoWrite(w)
    <3>1. /\ exam' = [exam EXCEPT !.present = FALSE, !.finalizer = FALSE]
          /\ Return(w) /\ UNCHANGED objs
      BY <2>8 DEF RemoveFinalizer, Store, cluster
    <3>2. exam'.phase = exam.phase
      BY <1>3, <3>1 DEF ExamObjects
    <3>3. QED
      BY <1>6, <3>1, <3>2
  <2>9. CASE FinalizeDelete(w) /\ ~ReturnNoWrite(w)
    <3>1. /\ pc'[w] = "removeFinalizer" /\ UNCHANGED <<exam, objs>>
      BY <2>9 DEF FinalizeDelete, Goto, TypeOK
    <3>2. QED
      BY <1>3, <3>1 DEF ClosingInv, OpeningInv, LockedClosed
  <2>10. QED
    BY <1>3, <1>8, <2>1, <2>2, <2>3, <2>4, <2>5, <2>6, <2>7, <2>8, <2>9, LoopsHandlers
       DEF Reconcile, AddFinalizer, StatusUpdate, RemoveFinalizer, FinalizeDelete, cluster
<1>9. QED
  BY <1>5, <1>7, <1>8 DEF Next, Solo

\* The invariant of a single manager holds throughout.
THEOREM Alone == ASSUME Solo PROVE Spec => []SoloInv
<1>1. Init => ReleaseInv
  BY DEF Init, NewExam, ReleaseInv, NoLeak, InDeletion
<1>2. TypeOK /\ IInv /\ ReleaseInv /\ [Next]_vars => ReleaseInv'
  BY ReleaseNext
<1>3. Init => RouteInv
  BY RankValues DEF Init, NewExam, RouteInv, LockedClosed, LockFinal, LatestCopy, ClosingInv,
     OpeningInv, Past
<1>4. TypeOK /\ TypeOK' /\ IInv /\ EntryInv /\ RouteInv /\ [Next]_vars => RouteInv'
  BY RouteNext
<1>5. QED
  BY <1>1, <1>2, <1>3, <1>4, TypeCorrect, Invariance, Entries, PTL DEF Spec, SoloInv

\* With one manager the Exam leaves no live namespace behind: the finalizer is
\* only removed once the deletion of the namespace was asked for, and no
\* reconcile that started from an older copy creates it again.
THEOREM Released == ASSUME Solo PROVE Spec => []NoLeak
<1>1. SoloInv => NoLeak
  BY DEF SoloInv, ReleaseInv
<1>2. QED
  BY <1>1, Alone, PTL

\* With one manager and no failed call, reconcileLocked removes every policy that
\* admits somebody before the Exam is stored as Locked, and no later reconcile,
\* from whatever copy, puts one back.
THEOREM Closed == ASSUME Solo PROVE Spec => []LockedClosed
<1>1. SoloInv => LockedClosed
  BY DEF SoloInv, RouteInv
<1>2. QED
  BY <1>1, Alone, PTL

\* Only enforcePolicies for an unlocked exam creates routes.
LEMMA RouteCreator ==
  ASSUME TypeOK, [Next]_vars, ~(objs' \cap AccessObjects \subseteq objs)
  PROVE  \E w \in Workers : pc[w] = "enforce" /\ loc[w].phase = "Unlocked"
<1>1. ~(Environment \/ UNCHANGED vars)
  BY DEF Environment, Tick, DeleteExam, EditSpec, UserStore, NamespaceGone, DeploymentReady,
     Drift, InformerSync, Crash, vars, cluster
<1>2. PICK w \in Workers : Reconcile(w)
  BY <1>1 DEF Next
<1>3. ~provisionInstance(w)
  <2>1. ASSUME NEW i \in todo[w], NEW n \in 0..4
        PROVE  Create({ProvisionedKinds[k] : k \in 1..n}, i) \cap AccessObjects = {}
    BY <2>1, ProvisionedKindsType DEF Create, AccessObjects
  <2>2. QED
    BY <2>1 DEF provisionInstance
<1>4. enforcePolicies(w)
  BY <1>2, <1>3 DEF Reconcile, GetNothing, vars, Get, AddFinalizer, Decide, CreateNamespace,
     SlugError, FinishProvisioning, sendNextPendingEmail, ReadyContinue, deleteIngresses,
     NotifyInstructor, reconcileTeardown, FinalizeDelete, RemoveFinalizer, StatusUpdate,
     cluster
<1>5. PICK i \in todo[w], failed \in SUBSET (EnforceCreates(w) \cup EnforceDeletes(w)) :
        objs' = (objs \cup Create(EnforceCreates(w) \ failed, i))
                  \ ((EnforceDeletes(w) \ failed) \X {i})
  BY <1>4 DEF enforcePolicies
<1>6. loc[w].phase = "Unlocked"
  BY <1>5 DEF Create, EnforceCreates, Unlocking, AccessObjects, AccessKinds
<1>7. QED
  BY <1>4, <1>6 DEF enforcePolicies

\* With one manager, no route is opened any more once the Exam is stored as
\* Locked or TearingDown: every copy a reconcile works on or may start from
\* decides on Locked at least.
THEOREM Sealed == ASSUME Solo PROVE Spec => StaysClosed
<1>1. ASSUME TypeOK, SoloInv, [Next]_vars, exam.phase \in {"Locked", "TearingDown"}
      PROVE  objs' \cap AccessObjects \subseteq objs
  <2>1. SUFFICES ASSUME NEW w \in Workers, pc[w] = "enforce", loc[w].phase = "Unlocked"
                 PROVE  FALSE
    BY <1>1, RouteCreator
  <2>2. Past(exam.phase, 5) /\ LockFinal(w)
    BY <1>1, RankValues DEF SoloInv, RouteInv, Past
  <2>3. Past(loc[w].phase, 5)
    BY <2>1, <2>2 DEF LockFinal, InHandler
  <2>4. QED
    BY <2>1, <2>3, RankValues DEF Past
<1>2. TypeOK /\ SoloInv /\ [Next]_vars
        => [exam.phase \in {"Locked", "TearingDown"}
              => objs' \cap AccessObjects \subseteq objs]_vars
  BY <1>1
<1>3. QED
  BY <1>2, Alone, TypeCorrect, PTL DEF Spec, StaysClosed

\* Only a status update that goes through moves the phase or the entries.
LEMMA StatusWriter ==
  ASSUME TypeOK, [Next]_vars, exam'.phase # exam.phase \/ exam'.inst # exam.inst
  PROVE  \E w \in Workers : StatusUpdate(w) /\ ~ReturnNoWrite(w)
<1>0. exam \in ExamObjects
  BY DEF TypeOK
<1>1. ~(Environment \/ UNCHANGED vars)
  BY <1>0 DEF Environment, Tick, DeleteExam, EditSpec, UserStore, Store, NamespaceGone,
     DeploymentReady, Drift, InformerSync, Crash, vars, ExamObjects
<1>2. PICK w \in Workers : Reconcile(w)
  BY <1>1 DEF Next
<1>3. ~AddFinalizer(w) /\ ~RemoveFinalizer(w)
  BY <1>0 DEF AddFinalizer, RemoveFinalizer, Store, ReturnNoWrite, ExamObjects
<1>4. exam' # exam
  OBVIOUS
<1>5. StatusUpdate(w) /\ ~ReturnNoWrite(w)
  BY <1>2, <1>3, <1>4 DEF Reconcile, GetNothing, vars, Get, Decide, CreateNamespace,
     provisionInstance, SlugError, FinishProvisioning, sendNextPendingEmail,
     ReadyContinue, enforcePolicies, deleteIngresses, NotifyInstructor,
     reconcileTeardown, FinalizeDelete, ReturnNoWrite
<1>6. QED
  BY <1>5

\* With one manager and no failed call, the status that first says Unlocked is
\* written only once every instance in it has its routes.
THEOREM Opened == ASSUME Solo PROVE Spec => UnlockOpens
<1>1. ASSUME TypeOK, TypeOK', IInv, SoloInv, [Next]_vars,
             exam.phase = "Ready", exam'.phase = "Unlocked", faults = 0
      PROVE  AccessKinds \X collectSlugs(exam') \subseteq objs
  <2>0. exam \in ExamObjects
    BY <1>1 DEF TypeOK
  <2>1. PICK w \in Workers : StatusUpdate(w) /\ ~ReturnNoWrite(w)
    BY <1>1, StatusWriter
  <2>2. /\ pc[w] = "status" /\ fresh[w]
        /\ exam' = [exam EXCEPT !.phase = loc[w].phase, !.inst = loc[w].inst,
                                !.mail = loc[w].mail, !.conds = loc[w].conds]
    BY <2>1 DEF StatusUpdate, Store, Conflict
  <2>3. exam'.phase = loc[w].phase /\ exam'.inst = loc[w].inst
    BY <2>0, <2>2 DEF ExamObjects
  <2>4. AccessKinds \X collectSlugs(loc[w]) \subseteq objs
    BY <1>1, <2>2, <2>3 DEF SoloInv, RouteInv, OpeningInv
  <2>5. QED
    BY <2>3, <2>4, SlugsOf
<1>2. TypeOK /\ TypeOK' /\ IInv /\ SoloInv /\ [Next]_vars
        => [exam.phase = "Ready" /\ exam'.phase = "Unlocked" /\ faults = 0
              => AccessKinds \X collectSlugs(exam') \subseteq objs]_vars
  BY <1>1
<1>3. QED
  BY <1>2, Alone, Invariance, TypeCorrect, PTL DEF Spec, UnlockOpens
=============================================================================
