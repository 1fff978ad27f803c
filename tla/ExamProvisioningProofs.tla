---------------------- MODULE ExamProvisioningProofs ----------------------
(***************************************************************************)
(* Type correctness of ExamProvisioning, that a stored slug is never       *)
(* replaced and that slugs have one owner, for any number of managers,     *)
(* students, spares, failures and restarts; and that a Ready Exam has its  *)
(* Deployments, for one manager and at most one spare.                     *)
(***************************************************************************)
EXTENDS ExamProvisioningInvariant, FiniteSetTheorems, TLAPS

-----------------------------------------------------------------------------
(***************************************************************************)
(* Types.                                                                  *)
(***************************************************************************)
LEMMA RecordType ==
  ASSUME NEW st \in Statuses, NEW i \in Instances, NEW s \in Slugs
  PROVE  Record(st, i, s) \in Statuses
<1>1. st.slug \in [Instances -> Slugs \cup {NoSlug}] /\ st.phase \in {"Pending", "Provisioning", "Ready"}
  BY DEF Statuses
<1>2. [j \in Instances |-> IF j = i THEN s ELSE st.slug[j]]
        \in [Instances -> Slugs \cup {NoSlug}]
  BY <1>1
<1>3. QED
  BY <1>1, <1>2 DEF Record, Statuses

LEMMA PhaseType ==
  ASSUME NEW st \in Statuses, NEW p \in {"Pending", "Provisioning", "Ready"}
  PROVE  /\ [st EXCEPT !.phase = p] \in Statuses
         /\ [st EXCEPT !.phase = p].slug = st.slug
  BY DEF Statuses

LEMMA NewStatusType == NewStatus \in Statuses /\ \A i \in Instances : NewStatus.slug[i] = NoSlug
  BY DEF NewStatus, Statuses

\* A slug that is found or generated is one of the model.
LEMMA SlugType ==
  ASSUME TypeOK, NEW w \in Workers, NEW i \in Instances,
         NEW s \in (IF Found(w, i) = {} THEN Generate(i) ELSE Found(w, i))
  PROVE  s \in Slugs
<1>1. CASE Found(w, i) = {}
  BY <1>1 DEF Generate, Unused
<1>2. CASE loc[w].slug[i] # NoSlug /\ Found(w, i) # {}
  <2>1. s = loc[w].slug[i]
    BY <1>2 DEF Found, StudentSlugs, SpareSlugs
  <2>2. loc[w].slug[i] \in Slugs \cup {NoSlug}
    BY DEF TypeOK, Statuses
  <2>3. QED
    BY <1>2, <2>1, <2>2
<1>3. CASE loc[w].slug[i] = NoSlug /\ Found(w, i) # {}
  <2>1. s \in SlugsOf(seen[w])
    BY <1>3 DEF Found, StudentSlugs, SpareSlugs, AtIndex, SlugsOf
  <2>2. seen[w] \in SUBSET Deployments
    BY DEF TypeOK
  <2>3. QED
    BY <2>1, <2>2 DEF SlugsOf, Deployments
<1>4. QED
  BY <1>1, <1>2, <1>3

LEMMA DeploymentType ==
  ASSUME NEW s \in Slugs, NEW i \in Instances, NEW r \in BOOLEAN
  PROVE  [slug |-> s, student |-> LabelOf(i), ready |-> r] \in Deployments
<1>1. LabelOf(i) \in Students \cup {NoStudent}
  BY DEF LabelOf
<1>2. QED
  BY <1>1 DEF Deployments

LEMMA CreateType ==
  ASSUME TypeOK, NEW i \in Instances, NEW s \in Slugs
  PROVE  CreateDeployment(s, i) \in SUBSET Deployments
<1>1. [slug |-> s, student |-> LabelOf(i), ready |-> FALSE] \in Deployments
  BY DeploymentType
<1>2. deps \in SUBSET Deployments
  BY DEF TypeOK
<1>3. QED
  BY <1>1, <1>2 DEF CreateDeployment

LEMMA ReturnType ==
  ASSUME TypeOK, NEW w \in Workers, Return(w)
  PROVE  /\ pc' \in [Workers -> PCs] /\ loc' \in [Workers -> Statuses]
         /\ next' \in [Workers -> 1..(NumStudents + NumSpares + 1)]
  BY NewStatusType, ProvisioningAssumption DEF Return, Goto, TypeOK, PCs

LEMMA StatusUpdateType ==
  ASSUME TypeOK, NEW w \in Workers, NEW copy \in Statuses, NEW current \in BOOLEAN,
         NEW charged, StatusUpdate(w, copy, current, charged)
  PROVE  /\ status' \in Statuses /\ synced' \in [Workers -> BOOLEAN]
         /\ fresh' \in [Workers -> BOOLEAN] /\ faults' \in 0..MaxFaults
         /\ pc' \in [Workers -> PCs] /\ loc' \in [Workers -> Statuses]
         /\ next' \in [Workers -> 1..(NumStudents + NumSpares + 1)]
<1>1. Return(w)
  BY DEF StatusUpdate
<1>2. \/ /\ status' = copy
         /\ synced' = [v \in Workers |-> synced[v] /\ copy = status]
         /\ fresh' = [v \in Workers |-> v # w /\ fresh[v] /\ copy = status]
      \/ fresh' = [fresh EXCEPT ![w] = FALSE] /\ UNCHANGED <<status, synced>>
  BY DEF StatusUpdate
<1>3. faults' = faults \/ (faults < MaxFaults /\ faults' = faults + 1)
  BY DEF StatusUpdate, NoFault, OneFault
<1>4. status' \in Statuses
  BY <1>2 DEF TypeOK
<1>5. synced' \in [Workers -> BOOLEAN] /\ fresh' \in [Workers -> BOOLEAN]
  BY <1>2, Zenon DEF TypeOK
<1>6. faults' \in 0..MaxFaults
  BY <1>3, ProvisioningAssumption DEF TypeOK
<1>7. QED
  BY <1>1, <1>4, <1>5, <1>6, ReturnType

LEMMA TypeInit == Init => TypeOK
<1> SUFFICES ASSUME Init PROVE TypeOK
  OBVIOUS
<1>1. OldDeployments \in SUBSET Deployments
  <2>1. \A i \in Instances : i \in Slugs
    BY ProvisioningAssumption DEF Instances, Slugs
  <2>2. \A i \in Instances :
          [slug |-> i, student |-> LabelOf(i), ready |-> TRUE] \in Deployments
    BY <2>1, DeploymentType
  <2>3. QED
    BY <2>2 DEF OldDeployments
<1>2. deps \in SUBSET Deployments /\ recreated \in BOOLEAN
      /\ ns \in {"absent", "active", "terminating"}
  BY <1>1 DEF Init
<1>3. QED
  BY <1>2, NewStatusType, ProvisioningAssumption DEF Init, TypeOK, PCs

\* What a step of a reconcile writes has its type.
LEMMA TypeReconcile ==
  ASSUME TypeOK, NEW w \in Workers, Reconcile(w)
  PROVE  TypeOK'
<1>1. cache[w] \in Statuses /\ loc[w] \in Statuses /\ synced[w] \in BOOLEAN
      /\ fresh[w] \in BOOLEAN /\ NamespaceCreated \in {"absent", "active", "terminating"}
  BY DEF TypeOK, NamespaceCreated
<1>2. Dispatched(w) \in Statuses
  BY <1>1, PhaseType DEF Dispatched
<1>3. CASE CreateNamespace(w)
  BY <1>1, <1>2, <1>3 DEF CreateNamespace, Goto, TypeOK, PCs, copies, bounds
<1>4. CASE NamespaceError(w)
  <2>1. StatusUpdate(w, Dispatched(w), synced[w], ns # "terminating")
        /\ ns' \in {"absent", "active", "terminating"}
        /\ UNCHANGED <<deps, recreated, cache, seen, upsets>>
    BY <1>1, <1>4 DEF NamespaceError, TypeOK
  <2>2. QED
    BY <1>1, <1>2, <2>1, StatusUpdateType DEF TypeOK
<1>5. CASE ProvisionNext(w)
  <2> DEFINE i == next[w]
  <2>1. i \in Instances /\ UNCHANGED <<status, ns, recreated, cache, synced, seen, pc, fresh, upsets>>
        /\ next' = [next EXCEPT ![w] = i + 1]
    BY <1>5 DEF ProvisionNext, copies
  <2>2. PICK s \in (IF Found(w, i) = {} THEN Generate(i) ELSE Found(w, i)), ok \in BOOLEAN :
          /\ loc' = IF ok \/ i \in Students THEN [loc EXCEPT ![w] = Record(@, i, s)] ELSE loc
          /\ deps' = deps \/ deps' = CreateDeployment(s, i)
          /\ faults' = faults \/ (faults < MaxFaults /\ faults' = faults + 1)
    BY <1>5 DEF ProvisionNext, NoFault, OneFault
  <2>3. s \in Slugs
    BY <2>1, <2>2, SlugType
  <2>4. deps' \in SUBSET Deployments
    BY <2>1, <2>2, <2>3, CreateType DEF TypeOK
  <2>5. loc' \in [Workers -> Statuses]
    BY <1>1, <2>1, <2>2, <2>3, RecordType DEF TypeOK
  <2>6. next' \in [Workers -> 1..(NumStudents + NumSpares + 1)]
    BY <2>1, ProvisioningAssumption DEF TypeOK, Instances
  <2>7. faults' \in 0..MaxFaults
    BY <2>2, ProvisioningAssumption DEF TypeOK
  <2>8. QED
    BY <2>1, <2>4, <2>5, <2>6, <2>7 DEF TypeOK
<1>6. CASE SlugError(w)
  BY <1>1, <1>6, StatusUpdateType DEF SlugError, TypeOK
<1>7. CASE cleanupOrphanedResources(w)
  <2>1. deps' \in SUBSET Deployments /\ faults' \in 0..MaxFaults
        /\ pc' \in [Workers -> PCs]
    BY <1>7, ProvisioningAssumption
    DEF cleanupOrphanedResources, Goto, TypeOK, PCs, NoFault, OneFault
  <2>2. QED
    BY <1>7, <2>1 DEF cleanupOrphanedResources, TypeOK, copies
<1>8. CASE HealthGate(w)
  <2> DEFINE copy == IF allInstancesHealthy(seen[w]) THEN [loc[w] EXCEPT !.phase = "Ready"]
                     ELSE loc[w]
  <2>1. copy \in Statuses
    BY <1>1, PhaseType
  <2>2. StatusUpdate(w, copy, fresh[w], FALSE)
        /\ UNCHANGED <<ns, deps, recreated, cache, seen, upsets>>
    BY <1>8 DEF HealthGate
  <2> HIDE DEF copy
  <2>3. QED
    BY <1>1, <2>1, <2>2, StatusUpdateType DEF TypeOK
<1>9. QED
  BY <1>3, <1>4, <1>5, <1>6, <1>7, <1>8 DEF Reconcile

LEMMA TypeEnvironment ==
  ASSUME TypeOK, Environment
  PROVE  TypeOK'
<1>1. CASE NamespaceGone
  BY <1>1 DEF NamespaceGone, TypeOK, copies, bounds
<1>2. CASE EditExam
  BY <1>2, ProvisioningAssumption DEF EditExam, TypeOK
<1>3. ASSUME NEW d \in deps, DeploymentReady(d) PROVE TypeOK'
  <2>1. d \in Deployments
    BY DEF TypeOK
  <2>2. [d EXCEPT !.ready = TRUE] \in Deployments
    BY <2>1 DEF Deployments
  <2>3. QED
    BY <1>3, <2>2 DEF DeploymentReady, TypeOK, copies, bounds
<1>4. ASSUME NEW d \in deps, ContentGone(d) PROVE TypeOK'
  BY <1>4 DEF ContentGone, TypeOK, copies, bounds
<1>5. ASSUME NEW w \in Workers, ExamSync(w) PROVE TypeOK'
  BY <1>5 DEF ExamSync, TypeOK, bounds
<1>6. ASSUME NEW w \in Workers, DeploymentSync(w) PROVE TypeOK'
  BY <1>6 DEF DeploymentSync, TypeOK, bounds
<1>7. ASSUME NEW w \in Workers, Crash(w) PROVE TypeOK'
  <2>1. /\ cache' \in [Workers -> Statuses] /\ synced' \in [Workers -> BOOLEAN]
        /\ seen' \in [Workers -> SUBSET Deployments] /\ fresh' \in [Workers -> BOOLEAN]
    BY <1>7 DEF Crash, ListAfresh, TypeOK
  <2>2. upsets' \in 0..MaxUpsets
    BY <1>7, ProvisioningAssumption DEF Crash, TypeOK
  <2>3. QED
    BY <1>7, <2>1, <2>2, ReturnType DEF Crash, TypeOK
<1>8. QED
  BY <1>1, <1>2, <1>3, <1>4, <1>5, <1>6, <1>7 DEF Environment

LEMMA TypeNext == TypeOK /\ [Next]_vars => TypeOK'
<1> SUFFICES ASSUME TypeOK, [Next]_vars PROVE TypeOK'
  OBVIOUS
<1>1. CASE UNCHANGED vars
  BY <1>1 DEF vars, TypeOK
<1>2. QED
  BY <1>1, TypeReconcile, TypeEnvironment DEF Next

\* Provisioning keeps its types: in particular the loops end at the last spare
\* and every slug in a status or a Deployment was generated or adopted.
THEOREM TypeCorrect == Spec => []TypeOK
<1>1. QED
  BY TypeInit, TypeNext, PTL DEF Spec

-----------------------------------------------------------------------------
(***************************************************************************)
(* Slugs.                                                                  *)
(***************************************************************************)

\* st has every slug the stored status has.
Keeps(st) ==
  \A i \in Instances : status.slug[i] # NoSlug => st.slug[i] = status.slug[i]

\* A synced cache is the stored status; a copy that can still be written has
\* every stored slug.
CopyInv ==
  \A w \in Workers :
    /\ synced[w] => cache[w] = status
    /\ fresh[w] => pc[w] # "idle" /\ Keeps(loc[w])

\* Writing a copy that keeps the stored slugs, or being refused, keeps CopyInv
\* and the stored slugs.
LEMMA StatusUpdateKeeps ==
  ASSUME TypeOK, CopyInv, NEW w \in Workers, NEW copy, NEW current, NEW charged,
         current => Keeps(copy), StatusUpdate(w, copy, current, charged), UNCHANGED cache
  PROVE  CopyInv' /\ Keeps(status')
<1>1. /\ pc' = [pc EXCEPT ![w] = "idle"] /\ loc' = [loc EXCEPT ![w] = NewStatus]
  BY DEF StatusUpdate, Return, Goto
<1>2. CASE /\ ~Conflict(current) /\ status' = copy
           /\ synced' = [v \in Workers |-> synced[v] /\ copy = status]
           /\ fresh' = [v \in Workers |-> v # w /\ fresh[v] /\ copy = status]
  <2>1. Keeps(status')
    BY <1>2 DEF Conflict
  <2>2. ASSUME NEW v \in Workers, synced'[v] PROVE cache'[v] = status'
    BY <1>2, <2>2 DEF CopyInv
  <2>3. ASSUME NEW v \in Workers, fresh'[v] PROVE pc'[v] # "idle" /\ Keeps(loc[v])' 
    BY <1>1, <1>2, <2>3 DEF CopyInv, Keeps, TypeOK
  <2>4. QED
    BY <2>1, <2>2, <2>3 DEF CopyInv
<1>3. CASE fresh' = [fresh EXCEPT ![w] = FALSE] /\ UNCHANGED <<status, synced>>
  <2>1. Keeps(status')
    BY <1>3 DEF Keeps
  <2>2. ASSUME NEW v \in Workers, fresh'[v] PROVE pc'[v] # "idle" /\ Keeps(loc[v])'
    BY <1>1, <1>3, <2>2 DEF CopyInv, Keeps, TypeOK
  <2>3. ASSUME NEW v \in Workers, synced'[v] PROVE cache'[v] = status'
    BY <1>3, <2>3 DEF CopyInv
  <2>4. QED
    BY <2>1, <2>2, <2>3 DEF CopyInv
<1>4. QED
  BY <1>2, <1>3 DEF StatusUpdate

\* A step that leaves the stored status alone and this reconcile's copy with
\* the stored slugs.
LEMMA CopyFrame ==
  ASSUME CopyInv, UNCHANGED <<status, cache, synced>>,
         \A w \in Workers : fresh'[w] => pc'[w] # "idle" /\ Keeps(loc'[w])
  PROVE  CopyInv' /\ Keeps(status')
  BY DEF CopyInv, Keeps

LEMMA KeepsReconcile ==
  ASSUME TypeOK, CopyInv, NEW w \in Workers, Reconcile(w)
  PROVE  CopyInv' /\ Keeps(status')
<1>1. Dispatched(w).slug = cache[w].slug
  BY PhaseType DEF Dispatched, TypeOK
<1>2. synced[w] => Keeps(Dispatched(w))
  BY <1>1 DEF CopyInv, Keeps
<1>3. CASE CreateNamespace(w)
  <2>1. \A v \in Workers : fresh'[v] => pc'[v] # "idle" /\ Keeps(loc'[v])
    BY <1>2, <1>3 DEF CreateNamespace, Goto, CopyInv, TypeOK
  <2>2. QED
    BY <1>3, <2>1, CopyFrame DEF CreateNamespace, copies
<1>4. CASE NamespaceError(w)
  BY <1>2, <1>4, StatusUpdateKeeps DEF NamespaceError
<1>5. CASE ProvisionNext(w)
  <2> DEFINE i == next[w]
  <2>1. i \in Instances /\ pc[w] = "instances"
        /\ UNCHANGED <<status, cache, synced, pc, fresh>>
    BY <1>5 DEF ProvisionNext, copies
  <2>2. PICK s \in (IF Found(w, i) = {} THEN Generate(i) ELSE Found(w, i)) :
          loc' = [loc EXCEPT ![w] = Record(@, i, s)] \/ loc' = loc
    BY <1>5 DEF ProvisionNext
  <2>3. loc[w].slug[i] # NoSlug => s = loc[w].slug[i]
    BY <2>2 DEF Found, StudentSlugs, SpareSlugs
  <2>4. Keeps(loc[w]) => Keeps(Record(loc[w], i, s))
    <3>1. Record(loc[w], i, s).slug = [j \in Instances |-> IF j = i THEN s ELSE loc[w].slug[j]]
      BY DEF Record, TypeOK, Statuses
    <3>2. QED
      BY <2>3, <3>1 DEF Keeps
  <2>5. \A v \in Workers : fresh'[v] => pc'[v] # "idle" /\ Keeps(loc'[v])
    BY <2>1, <2>2, <2>4 DEF CopyInv, TypeOK
  <2>6. QED
    BY <2>1, <2>5, CopyFrame
<1>6. CASE SlugError(w)
  <2>1. fresh[w] => Keeps(loc[w])
    BY DEF CopyInv
  <2>2. QED
    BY <1>6, <2>1, StatusUpdateKeeps DEF SlugError
<1>7. CASE cleanupOrphanedResources(w)
  <2>1. \A v \in Workers : fresh'[v] => pc'[v] # "idle" /\ Keeps(loc'[v])
    BY <1>7 DEF cleanupOrphanedResources, Goto, CopyInv, TypeOK
  <2>2. QED
    BY <1>7, <2>1, CopyFrame DEF cleanupOrphanedResources, copies
<1>8. CASE HealthGate(w)
  <2> DEFINE copy == IF allInstancesHealthy(seen[w]) THEN [loc[w] EXCEPT !.phase = "Ready"]
                     ELSE loc[w]
  <2>1. copy.slug = loc[w].slug
    BY PhaseType DEF TypeOK
  <2>2. fresh[w] => Keeps(copy)
    BY <2>1 DEF CopyInv, Keeps
  <2>3. StatusUpdate(w, copy, fresh[w], FALSE) /\ UNCHANGED cache
    BY <1>8 DEF HealthGate
  <2> HIDE DEF copy
  <2>4. QED
    BY <2>2, <2>3, StatusUpdateKeeps
<1>9. QED
  BY <1>3, <1>4, <1>5, <1>6, <1>7, <1>8 DEF Reconcile

LEMMA KeepsEnvironment ==
  ASSUME TypeOK, CopyInv, Environment
  PROVE  CopyInv' /\ Keeps(status')
<1>1. status' = status
  BY DEF Environment, NamespaceGone, EditExam, DeploymentReady, ContentGone, ExamSync,
         DeploymentSync, Crash
<1>2. ASSUME NamespaceGone \/ \E d \in deps : DeploymentReady(d) \/ ContentGone(d) PROVE CopyInv'
  BY <1>2 DEF NamespaceGone, DeploymentReady, ContentGone, copies, CopyInv, Keeps
<1>3. ASSUME EditExam PROVE CopyInv'
  BY <1>3 DEF EditExam, CopyInv
<1>4. ASSUME NEW w \in Workers, ExamSync(w) PROVE CopyInv'
  BY <1>4 DEF ExamSync, CopyInv, Keeps, TypeOK
<1>5. ASSUME NEW w \in Workers, DeploymentSync(w) PROVE CopyInv'
  BY <1>5 DEF DeploymentSync, CopyInv, Keeps
<1>6. ASSUME NEW w \in Workers, Crash(w) PROVE CopyInv'
  BY <1>6 DEF Crash, Return, Goto, ListAfresh, CopyInv, Keeps, TypeOK
<1>7. CopyInv'
  BY <1>2, <1>3, <1>4, <1>5, <1>6 DEF Environment
<1>8. QED
  BY <1>1, <1>7 DEF Keeps

LEMMA KeepsNext == TypeOK /\ CopyInv /\ [Next]_vars => CopyInv' /\ Keeps(status')
<1> SUFFICES ASSUME TypeOK, CopyInv, [Next]_vars PROVE CopyInv' /\ Keeps(status')
  OBVIOUS
<1>1. CASE UNCHANGED vars
  <2>1. UNCHANGED <<status, cache, synced, pc, loc, fresh>>
    BY <1>1 DEF vars
  <2>2. \A w \in Workers : fresh'[w] => pc'[w] # "idle" /\ Keeps(loc'[w])
    BY <2>1 DEF CopyInv
  <2>3. QED
    BY <2>1, <2>2, CopyFrame
<1>2. ASSUME NEW w \in Workers, Reconcile(w) PROVE CopyInv' /\ Keeps(status')
  BY <1>2, KeepsReconcile
<1>3. CASE Environment
  BY <1>3, KeepsEnvironment
<1>4. QED
  BY <1>1, <1>2, <1>3 DEF Next

LEMMA CopyInit == Init => CopyInv
  BY DEF Init, CopyInv

\* However many managers race, fail or restart, the slug the status once gave
\* a student or a spare, and with it the URL, never changes.
THEOREM SlugsStay == Spec => SlugKept
<1>1. Keeps(status') <=> \A i \in Instances :
                           status.slug[i] # NoSlug => status'.slug[i] = status.slug[i]
  BY DEF Keeps
<1>2. TypeOK /\ CopyInv /\ [Next]_vars
        => [\A i \in Instances :
              status.slug[i] # NoSlug => status'.slug[i] = status.slug[i]]_vars
  BY <1>1, KeepsNext
<1>3. QED
  BY <1>2, CopyInit, KeepsNext, TypeCorrect, PTL DEF Spec, SlugKept

-----------------------------------------------------------------------------
(***************************************************************************)
(* Owners of slugs.                                                        *)
(***************************************************************************)
LEMMA UsesParts ==
  /\ Marks(deps) \subseteq Uses /\ Entries(status) \subseteq Uses
  /\ \A v \in Workers : /\ Marks(seen[v]) \subseteq Uses
                         /\ Entries(cache[v]) \subseteq Uses /\ Entries(loc[v]) \subseteq Uses
  BY DEF Uses

\* The uses after a step lie in a set when those of every part do.
LEMMA UsesWithin ==
  ASSUME NEW X, Marks(deps') \subseteq X, Entries(status') \subseteq X,
         \A v \in Workers : /\ Marks(seen'[v]) \subseteq X
                            /\ Entries(cache'[v]) \subseteq X /\ Entries(loc'[v]) \subseteq X
  PROVE  Uses' \subseteq X
  BY DEF Uses, Marks, Entries

LEMMA MarksMonotone ==
  ASSUME NEW ds, NEW es, ds \subseteq es
  PROVE  Marks(ds) \subseteq Marks(es)
  BY DEF Marks

\* Entries depend on the slugs only.
LEMMA SameEntries ==
  ASSUME NEW st, NEW tt, st.slug = tt.slug
  PROVE  Entries(st) = Entries(tt)
  BY DEF Entries

LEMMA NoEntries == Entries(NewStatus) = {}
  BY NewStatusType DEF Entries

LEMMA RecordEntries ==
  ASSUME NEW st \in Statuses, NEW i \in Instances, NEW s \in Slugs
  PROVE  Entries(Record(st, i, s)) \subseteq Entries(st) \cup {<<s, LabelOf(i)>>}
<1>1. Record(st, i, s).slug = [j \in Instances |-> IF j = i THEN s ELSE st.slug[j]]
  BY DEF Record, Statuses
<1>2. QED
  BY <1>1 DEF Entries

LEMMA CreateMarks ==
  ASSUME NEW i \in Instances, NEW s
  PROVE  Marks(CreateDeployment(s, i)) \subseteq Marks(deps) \cup {<<s, LabelOf(i)>>}
  BY DEF Marks, CreateDeployment

\* Ownership survives a step that uses no slug in a new way, or one more slug,
\* which nobody used.
LEMMA OwnerFrame ==
  ASSUME OneOwner, Uses' \subseteq Uses
  PROVE  OneOwner'
  BY DEF OneOwner

LEMMA OwnerNew ==
  ASSUME OneOwner, NEW s, NEW l, \A p \in Uses : p[1] # s,
         Uses' \subseteq Uses \cup {<<s, l>>}
  PROVE  OneOwner'
  BY DEF OneOwner

\* A slug that is found is in use for the instance it is found for; one that
\* is generated is in use for nobody.
LEMMA FoundOwned ==
  ASSUME TypeOK, NEW w \in Workers, NEW i \in Instances, NEW s \in Found(w, i)
  PROVE  <<s, LabelOf(i)>> \in Uses
<1>1. CASE loc[w].slug[i] # NoSlug
  <2>1. s = loc[w].slug[i]
    BY <1>1 DEF Found, StudentSlugs, SpareSlugs
  <2>2. <<s, LabelOf(i)>> \in Entries(loc[w])
    BY <1>1, <2>1 DEF Entries
  <2>3. QED
    BY <2>2, UsesParts
<1>2. CASE loc[w].slug[i] = NoSlug
  <2>1. s \in SlugsOf({d \in seen[w] : d.student = LabelOf(i)})
    BY <1>2 DEF Found, StudentSlugs, SpareSlugs, AtIndex, LabelOf
  <2>2. PICK d \in seen[w] : d.student = LabelOf(i) /\ d.slug = s
    BY <2>1 DEF SlugsOf
  <2>3. <<s, LabelOf(i)>> \in Marks(seen[w])
    BY <2>2 DEF Marks
  <2>4. QED
    BY <2>3, UsesParts
<1>3. QED
  BY <1>1, <1>2

LEMMA EntrySlug ==
  ASSUME NEW st, NEW p \in Entries(st)
  PROVE  p[1] \in validSlugs(st)
  BY DEF Entries, validSlugs

LEMMA MarkSlug ==
  ASSUME NEW ds, NEW p \in Marks(ds)
  PROVE  p[1] \in SlugsOf(ds)
  BY DEF Marks, SlugsOf

LEMMA UnusedFree ==
  ASSUME NEW s \in Unused, NEW p \in Uses
  PROVE  p[1] # s
<1>1. s \notin SlugsOf(deps) /\ s \notin validSlugs(status)
      /\ \A v \in Workers : /\ s \notin SlugsOf(seen[v])
                            /\ s \notin validSlugs(cache[v]) /\ s \notin validSlugs(loc[v])
  BY DEF Unused
<1>2. CASE p \in Marks(deps)
  BY <1>1, <1>2, MarkSlug
<1>3. CASE p \in Entries(status)
  BY <1>1, <1>3, EntrySlug
<1>4. ASSUME NEW v \in Workers, p \in Marks(seen[v]) PROVE p[1] # s
  BY <1>1, <1>4, MarkSlug
<1>5. ASSUME NEW v \in Workers, p \in Entries(cache[v]) PROVE p[1] # s
  BY <1>1, <1>5, EntrySlug
<1>6. ASSUME NEW v \in Workers, p \in Entries(loc[v]) PROVE p[1] # s
  BY <1>1, <1>6, EntrySlug
<1>7. QED
  BY <1>2, <1>3, <1>4, <1>5, <1>6 DEF Uses

\* Writing a copy whose slugs are in use, or being refused.
LEMMA OwnerStatusUpdate ==
  ASSUME TypeOK, OneOwner, NEW w \in Workers, NEW copy, NEW current, NEW charged,
         Entries(copy) \subseteq Uses, StatusUpdate(w, copy, current, charged),
         UNCHANGED <<deps, cache, seen>>
  PROVE  OneOwner'
<1>1. loc' = [loc EXCEPT ![w] = NewStatus] /\ (status' = copy \/ status' = status)
  BY DEF StatusUpdate, Return
<1>2. \A v \in Workers : Entries(loc'[v]) \subseteq Uses
  BY <1>1, UsesParts, NoEntries DEF TypeOK
<1>3. Entries(status') \subseteq Uses
  BY <1>1, UsesParts
<1>4. Uses' \subseteq Uses
  BY <1>2, <1>3, UsesParts, UsesWithin
<1>5. QED
  BY <1>4, OwnerFrame

LEMMA OwnerReconcile ==
  ASSUME TypeOK, OneOwner, NEW w \in Workers, Reconcile(w)
  PROVE  OneOwner'
<1>1. Entries(Dispatched(w)) \subseteq Uses
  <2>1. Dispatched(w).slug = cache[w].slug
    BY PhaseType DEF Dispatched, TypeOK
  <2>2. QED
    BY <2>1, SameEntries, UsesParts
<1>2. CASE CreateNamespace(w)
  <2>1. \A v \in Workers : Entries(loc'[v]) \subseteq Uses
    BY <1>1, <1>2, UsesParts DEF CreateNamespace, TypeOK
  <2>2. Uses' \subseteq Uses
    BY <1>2, <2>1, UsesParts, UsesWithin DEF CreateNamespace, copies
  <2>3. QED
    BY <2>2, OwnerFrame
<1>3. CASE NamespaceError(w)
  BY <1>1, <1>3, OwnerStatusUpdate DEF NamespaceError
<1>4. CASE ProvisionNext(w)
  <2> DEFINE i == next[w]
  <2>1. i \in Instances /\ UNCHANGED <<status, cache, seen>>
    BY <1>4 DEF ProvisionNext, copies
  <2>2. PICK s \in (IF Found(w, i) = {} THEN Generate(i) ELSE Found(w, i)) :
          /\ loc' = [loc EXCEPT ![w] = Record(@, i, s)] \/ loc' = loc
          /\ deps' = deps \/ deps' = CreateDeployment(s, i)
    BY <1>4 DEF ProvisionNext
  <2>3. s \in Slugs
    BY <2>1, <2>2, SlugType
  <2> DEFINE X == Uses \cup {<<s, LabelOf(i)>>}
  <2>4. \A v \in Workers : Entries(loc'[v]) \subseteq X
    <3>1. Entries(Record(loc[w], i, s)) \subseteq Entries(loc[w]) \cup {<<s, LabelOf(i)>>}
      BY <2>1, <2>3, RecordEntries DEF TypeOK
    <3>2. QED
      BY <2>2, <3>1, UsesParts DEF TypeOK
  <2>5. Marks(deps') \subseteq X
    BY <2>1, <2>2, CreateMarks, UsesParts
  <2>6. Uses' \subseteq X
    BY <2>1, <2>4, <2>5, UsesParts, UsesWithin
  <2>7. CASE Found(w, i) = {}
    <3>1. s \in Unused
      BY <2>2, <2>7 DEF Generate
    <3>2. QED
      BY <2>6, <3>1, UnusedFree, OwnerNew
  <2>8. CASE Found(w, i) # {}
    <3>1. <<s, LabelOf(i)>> \in Uses
      BY <2>1, <2>2, <2>8, FoundOwned
    <3>2. QED
      BY <2>6, <3>1, OwnerFrame
  <2>9. QED
    BY <2>7, <2>8
<1>5. CASE SlugError(w)
  BY <1>5, UsesParts, OwnerStatusUpdate DEF SlugError
<1>6. CASE cleanupOrphanedResources(w)
  <2>1. deps' \subseteq deps /\ UNCHANGED <<status, cache, seen, loc>>
    BY <1>6 DEF cleanupOrphanedResources, copies
  <2>2. Uses' \subseteq Uses
    BY <2>1, MarksMonotone, UsesParts, UsesWithin
  <2>3. QED
    BY <2>2, OwnerFrame
<1>7. CASE HealthGate(w)
  <2> DEFINE copy == IF allInstancesHealthy(seen[w]) THEN [loc[w] EXCEPT !.phase = "Ready"]
                     ELSE loc[w]
  <2>1. copy.slug = loc[w].slug
    BY PhaseType DEF TypeOK
  <2>2. StatusUpdate(w, copy, fresh[w], FALSE) /\ UNCHANGED <<deps, cache, seen>>
    BY <1>7 DEF HealthGate
  <2> HIDE DEF copy
  <2>3. Entries(copy) \subseteq Uses
    BY <2>1, SameEntries, UsesParts
  <2>4. QED
    BY <2>2, <2>3, OwnerStatusUpdate
<1>8. QED
  BY <1>2, <1>3, <1>4, <1>5, <1>6, <1>7 DEF Reconcile

LEMMA OwnerEnvironment ==
  ASSUME TypeOK, OneOwner, Environment
  PROVE  OneOwner'
<1> SUFFICES Uses' \subseteq Uses
  BY OwnerFrame
<1>1. CASE NamespaceGone \/ EditExam
  BY <1>1, UsesParts, UsesWithin DEF NamespaceGone, EditExam, copies
<1>2. ASSUME NEW d \in deps, DeploymentReady(d) \/ ContentGone(d) PROVE Uses' \subseteq Uses
  <2>1. d \in Deployments /\ UNCHANGED <<status, cache, seen, loc>>
    BY <1>2 DEF TypeOK, DeploymentReady, ContentGone, copies
  <2>2. [d EXCEPT !.ready = TRUE].slug = d.slug /\ [d EXCEPT !.ready = TRUE].student = d.student
    BY <2>1 DEF Deployments
  <2>3. deps' \subseteq deps \cup {[d EXCEPT !.ready = TRUE]}
    BY <1>2 DEF DeploymentReady, ContentGone
  <2>4. Marks(deps') \subseteq Marks(deps)
    BY <2>2, <2>3 DEF Marks
  <2>5. QED
    BY <2>1, <2>4, UsesParts, UsesWithin
<1>3. ASSUME NEW w \in Workers, ExamSync(w) \/ DeploymentSync(w) \/ Crash(w)
      PROVE  Uses' \subseteq Uses
  <2>1. /\ UNCHANGED <<status, deps>>
        /\ cache' = cache \/ cache' = [cache EXCEPT ![w] = status]
        /\ seen' = seen \/ seen' = [seen EXCEPT ![w] = deps]
        /\ loc' = loc \/ loc' = [loc EXCEPT ![w] = NewStatus]
    BY <1>3 DEF ExamSync, DeploymentSync, Crash, Return, ListAfresh
  <2>2. ASSUME NEW v \in Workers
        PROVE  /\ cache'[v] \in {cache[v], status} /\ seen'[v] \in {seen[v], deps}
               /\ loc'[v] \in {loc[v], NewStatus}
    BY <2>1 DEF TypeOK
  <2>3. \A v \in Workers : /\ Marks(seen'[v]) \subseteq Uses
                           /\ Entries(cache'[v]) \subseteq Uses /\ Entries(loc'[v]) \subseteq Uses
    BY <2>2, UsesParts, NoEntries
  <2>4. QED
    BY <2>1, <2>3, UsesParts, UsesWithin
<1>4. QED
  BY <1>1, <1>2, <1>3 DEF Environment

LEMMA OwnerInit == Init => OneOwner
<1> SUFFICES ASSUME Init PROVE OneOwner
  OBVIOUS
<1>1. deps = {} \/ deps = OldDeployments
  BY DEF Init
<1>2. \A v \in Workers : seen[v] = deps /\ Entries(cache[v]) = {} /\ Entries(loc[v]) = {}
  BY NoEntries DEF Init
<1>3. Uses \subseteq Marks(deps)
  BY <1>2, NoEntries DEF Uses, Init
<1>4. \A p \in Marks(deps) : \E i \in Instances : p = <<i, LabelOf(i)>>
  BY <1>1 DEF Marks, OldDeployments
<1>5. QED
  BY <1>3, <1>4 DEF OneOwner

LEMMA OwnerNext == TypeOK /\ OneOwner /\ [Next]_vars => OneOwner'
<1> SUFFICES ASSUME TypeOK, OneOwner, [Next]_vars PROVE OneOwner'
  OBVIOUS
<1>1. CASE UNCHANGED vars
  <2>1. UNCHANGED <<status, deps, cache, seen, loc>>
    BY <1>1 DEF vars
  <2>2. Uses' \subseteq Uses
    BY <2>1, UsesParts, UsesWithin
  <2>3. QED
    BY <2>2, OwnerFrame
<1>2. QED
  BY <1>1, OwnerReconcile, OwnerEnvironment DEF Next

\* However many managers race, whatever their caches miss and whatever a deleted
\* predecessor left behind, a slug is never used for two students, nor for a
\* student and a spare; for any number of spares.
THEOREM Owners == Spec => []OneOwner
<1>1. QED
  BY OwnerInit, OwnerNext, TypeCorrect, PTL DEF Spec

-----------------------------------------------------------------------------
(***************************************************************************)
(* The Deployments of a Ready Exam.                                        *)
(***************************************************************************)
LEMMA LabelsDiffer ==
  ASSUME NumSpares <= 1, NEW i \in Instances, NEW j \in Instances, LabelOf(i) = LabelOf(j)
  PROVE  i = j
  BY ProvisioningAssumption DEF LabelOf, Instances, Students, NoStudent

LEMMA OfMonotone ==
  ASSUME NEW ds, NEW es, ds \subseteq es, NEW i
  PROVE  Of(ds, i) \subseteq Of(es, i)
  BY DEF Of, SlugsOf

LEMMA OfSlugs ==
  ASSUME NEW ds, NEW i
  PROVE  Of(ds, i) \subseteq SlugsOf(ds)
  BY DEF Of, SlugsOf

LEMMA OfType ==
  ASSUME NEW ds, ds \subseteq Deployments, NEW i, NEW s \in Of(ds, i)
  PROVE  s \in Slugs /\ s # NoSlug
  BY ProvisioningAssumption DEF Of, SlugsOf, Deployments, Slugs, NoSlug

\* A set of slugs that is not empty has a first one.
LEMMA FirstSlug ==
  ASSUME NEW S, S \subseteq Slugs, S # {}
  PROVE  AtIndex(S, 0) # {}
<1>1. S \subseteq Nat
  BY ProvisioningAssumption DEF Slugs
<1>2. PICK x \in S : \A y \in S : ~(<<y, x>> \in OpToRel(<, Nat))
  BY <1>1, WFMin, NatLessThanWellFounded
<1>3. \A y \in S : ~(y < x)
  BY <1>1, <1>2 DEF OpToRel
<1>4. {t \in S : t < x} = {}
  BY <1>3
<1>5. Cardinality({t \in S : t < x}) = 0
  BY <1>4, FS_EmptySet
<1>6. QED
  BY <1>5 DEF AtIndex

\* With at most one spare a list that passes the count of the health gate has
\* exactly one Deployment for every instance.
LEMMA CountedOnce ==
  ASSUME NumSpares <= 1, NEW ds, Even(ds),
         Cardinality(ds) = NumStudents + NumSpares, NEW i \in Instances
  PROVE  \E s : Of(ds, i) = {s}
<1> DEFINE f == [d \in ds |-> CHOOSE j \in Instances : d.student = LabelOf(j)]
<1>1. \A d \in ds : f[d] \in Instances /\ LabelOf(f[d]) = d.student
  BY DEF Even
<1>2. f \in [ds -> Instances]
  BY <1>1
<1>3. IsFiniteSet(Instances) /\ Cardinality(Instances) = NumStudents + NumSpares
  BY FS_Interval, ProvisioningAssumption DEF Instances
<1>4. \A j \in Instances : \A d \in ds : d.student = LabelOf(j) => f[d] = j
  BY <1>1, LabelsDiffer
<1> HIDE DEF f
<1>5. f \in Injection(ds, Instances) \/ f \in Surjection(ds, Instances)
  <2>1. CASE Full(ds)
    <3>1. \A j \in Instances : \E d \in ds : d.student = LabelOf(j)
      BY <2>1 DEF Full, Of, SlugsOf
    <3>2. \A j \in Instances : \E d \in ds : f[d] = j
      BY <1>4, <3>1
    <3>3. QED
      BY <1>2, <3>2 DEF Surjection
  <2>2. CASE Single(ds)
    <3>1. \A d, e \in ds : f[d] = f[e] => d = e
      BY <1>1, <2>2 DEF Single
    <3>2. QED
      BY <1>2, <3>1 DEF Injection, IsInjective
  <2>3. QED
    BY <2>1, <2>2 DEF Even
<1>6. f \in Injection(ds, Instances) /\ f \in Surjection(ds, Instances)
  BY <1>3, <1>5, FS_Injection, FS_Surjection DEF Even
<1>7. PICK d \in ds : f[d] = i
  BY <1>6 DEF Surjection
<1>8. \A e \in ds : e.student = LabelOf(i) => e = d
  BY <1>4, <1>6, <1>7 DEF Injection, IsInjective
<1>9. Of(ds, i) = {d.slug}
  BY <1>1, <1>7, <1>8 DEF Of, SlugsOf
<1>10. QED
  BY <1>9

\* Which instances a reconcile has been at, before and after a step of it.
LEMMA Places ==
  ASSUME TypeOK, NEW w \in Workers, NEW i \in Instances
  PROVE  /\ pc[w] = "idle" => ~Visited(w, i) /\ ~Ahead(w, i)
         /\ pc[w] = "health" => Visited(w, i) /\ ~Ahead(w, i)
         /\ pc[w] = "instances" /\ next[w] \notin Instances => Visited(w, i) /\ ~Ahead(w, i)
         /\ Ahead(w, i) <=> pc[w] = "instances" /\ ~Visited(w, i)
<1>1. next[w] \in 1..(NumStudents + NumSpares + 1)
  BY DEF TypeOK
<1>2. QED
  BY <1>1, ProvisioningAssumption DEF Visited, Ahead, Instances

\* What reconcileProvisioning finds or generates for the instance it is at,
\* with at most one spare.
LEMMA FoundSlug ==
  ASSUME TypeOK, NumSpares <= 1, NEW w \in Workers, NEW i \in Instances,
         NEW s \in (IF Found(w, i) = {} THEN Generate(i) ELSE Found(w, i))
  PROVE  /\ loc[w].slug[i] # NoSlug => s = loc[w].slug[i]
         /\ loc[w].slug[i] = NoSlug /\ Of(seen[w], i) # {} => s \in Of(seen[w], i)
<1>1. ASSUME loc[w].slug[i] # NoSlug PROVE s = loc[w].slug[i]
  BY <1>1 DEF Found, StudentSlugs, SpareSlugs
<1>2. ASSUME loc[w].slug[i] = NoSlug, Of(seen[w], i) # {} PROVE s \in Of(seen[w], i)
  <2>1. CASE i \in Students
    BY <1>2, <2>1 DEF Found, StudentSlugs, Of, LabelOf
  <2>2. CASE i \notin Students
    <3>1. i - NumStudents - 1 = 0
      BY <2>2, ProvisioningAssumption DEF Students, Instances
    <3>2. Found(w, i) = AtIndex(Of(seen[w], i), 0)
      BY <1>2, <2>2, <3>1 DEF Found, SpareSlugs, Of, LabelOf
    <3>3. seen[w] \subseteq Deployments
      BY DEF TypeOK
    <3>4. Of(seen[w], i) \subseteq Slugs
      BY <3>3, OfType
    <3>5. Found(w, i) # {}
      BY <1>2, <3>2, <3>4, FirstSlug
    <3>6. QED
      BY <3>2, <3>5 DEF AtIndex
  <2>3. QED
    BY <2>1, <2>2
<1>3. QED
  BY <1>1, <1>2

\* After a round of the loops the instance has a Deployment of its slug, with
\* its label.
LEMMA Created ==
  ASSUME TypeOK, OneOwner, NEW w \in Workers, NEW i \in Instances, ns = "active",
         NEW s \in (IF Found(w, i) = {} THEN Generate(i) ELSE Found(w, i))
  PROVE  s \in Of(CreateDeployment(s, i), i)
<1>1. CASE s \notin SlugsOf(deps)
  <2> DEFINE r == [slug |-> s, student |-> LabelOf(i), ready |-> FALSE]
  <2>1. r \in CreateDeployment(s, i)
    BY <1>1 DEF CreateDeployment
  <2>2. r.slug = s /\ r.student = LabelOf(i)
    OBVIOUS
  <2> HIDE DEF r
  <2>3. QED
    BY <2>1, <2>2 DEF Of, SlugsOf
<1>2. CASE s \in SlugsOf(deps)
  <2>1. PICK d \in deps : d.slug = s
    BY <1>2 DEF SlugsOf
  <2>2. <<s, d.student>> \in Uses
    BY <2>1, UsesParts DEF Marks
  <2>3. Found(w, i) # {}
    <3>1. ASSUME Found(w, i) = {} PROVE FALSE
      BY <1>2, <3>1 DEF Generate, Unused
    <3>2. QED
      BY <3>1
  <2>4. <<s, LabelOf(i)>> \in Uses
    BY <2>3, FoundOwned
  <2>5. d.student = LabelOf(i)
    BY <2>2, <2>4 DEF OneOwner
  <2>6. QED
    BY <1>2, <2>1, <2>5 DEF CreateDeployment, Of, SlugsOf
<1>3. QED
  BY <1>1, <1>2

\* Other instances are not touched.
LEMMA CreatedElsewhere ==
  ASSUME NumSpares <= 1, NEW i \in Instances, NEW s, NEW j \in Instances, i # j
  PROVE  Of(CreateDeployment(s, i), j) = Of(deps, j)
<1>1. LabelOf(i) # LabelOf(j)
  BY LabelsDiffer
<1>2. QED
  BY <1>1 DEF CreateDeployment, Of, SlugsOf

LEMMA EvenSubset ==
  ASSUME NEW ds, Even(ds), NEW es, es \subseteq ds, Full(es)
  PROVE  Even(es)
<1>1. IsFiniteSet(es)
  BY FS_Subset DEF Even
<1>2. QED
  BY <1>1 DEF Even

\* One round of the loops, when no call fails.
LEMMA ReadyProvisionNext ==
  ASSUME TypeOK, TypeOK', OneOwner, NumSpares <= 1, NEW w \in Workers, ClusterInv, WorkerInv(w),
         faults = 0, faults' = 0, ProvisionNext(w)
  PROVE  ClusterInv' /\ WorkerInv(w)'
<1>0. PICK i \in Instances : i = next[w]
  BY DEF ProvisionNext
<1>1. /\ i = next[w] /\ pc[w] = "instances"
      /\ next' = [next EXCEPT ![w] = i + 1]
      /\ UNCHANGED <<status, ns, cache, synced, seen, pc, fresh>>
  BY <1>0 DEF ProvisionNext, copies
<1>2. ns = "active"
  BY <1>1 DEF WorkerInv
<1>3. PICK s \in (IF Found(w, i) = {} THEN Generate(i) ELSE Found(w, i)) :
        loc' = [loc EXCEPT ![w] = Record(@, i, s)] /\ deps' = CreateDeployment(s, i)
  BY <1>1, <1>2 DEF ProvisionNext, OneFault
<1>4. deps \subseteq deps' /\ s \in Of(deps', i)
      /\ (s \in SlugsOf(deps) => deps' = deps)
      /\ \A j \in Instances \ {i} : Of(deps', j) = Of(deps, j)
  BY <1>1, <1>2, <1>3, Created, CreatedElsewhere DEF CreateDeployment
<1>5. Of(deps', i) \subseteq Of(deps, i) \cup {s}
  BY <1>3 DEF CreateDeployment, Of, SlugsOf
<1>6. /\ loc'[w].phase = loc[w].phase /\ loc'[w].slug[i] = s
      /\ \A j \in Instances \ {i} : loc'[w].slug[j] = loc[w].slug[j]
  BY <1>1, <1>3 DEF Record, TypeOK, Statuses
<1>7. /\ Ahead(w, i) /\ ~Visited(w, i) /\ Visited(w, i)' /\ ~Ahead(w, i)'
      /\ \A j \in Instances \ {i} : (Visited(w, j)' <=> Visited(w, j)) /\ (Ahead(w, j)' <=> Ahead(w, j))
  BY <1>1, ProvisioningAssumption DEF Visited, Ahead, TypeOK, Instances
<1>8. /\ loc[w].slug[i] # NoSlug => s = loc[w].slug[i]
      /\ loc[w].slug[i] = NoSlug /\ Of(seen[w], i) # {} => s \in Of(seen[w], i)
  BY <1>1, <1>3, FoundSlug
<1>9. KnownInv(w, i) /\ \A j \in Instances : KnownInv(w, j)
  BY <1>1 DEF WorkerInv
<1>10. ASSUME ~Full(deps), Of(seen[w], i) # {} \/ Of(deps, i) # {} PROVE deps' = deps
  <2>1. FirstRound(w)
    BY <1>10 DEF WorkerInv
  <2>2. cache[w].slug[i] = NoSlug /\ loc[w].slug[i] = NoSlug
    BY <1>1, <1>7, <1>9, <2>1, NewStatusType DEF FirstRound, KnownInv
  <2>3. Of(seen[w], i) # {}
    BY <1>1, <1>7, <1>10, <2>1 DEF FirstRound
  <2>4. s \in Of(deps, i)
    BY <1>1, <1>8, <2>1, <2>2, <2>3 DEF FirstRound
  <2>5. QED
    BY <1>4, <2>4, OfSlugs
<1>11. Full(deps) => Full(deps')
  BY <1>4, OfMonotone DEF Full
<1>12. Even(deps')
  <2>1. Even(deps)
    BY DEF ClusterInv
  <2>2. IsFiniteSet(deps')
    BY <1>3, <2>1, FS_AddElement DEF Even, CreateDeployment
  <2>3. \A d \in deps' : \E j \in Instances : d.student = LabelOf(j)
    BY <1>1, <1>3, <2>1 DEF Even, CreateDeployment
  <2>4. CASE deps' = deps \/ Full(deps)
    BY <1>11, <2>1, <2>2, <2>3, <2>4 DEF Even
  <2>5. CASE ~Full(deps) /\ Of(deps, i) = {}
    <3>1. Single(deps)
      BY <2>1, <2>5 DEF Even
    <3>2. \A d \in deps : d.student # LabelOf(i)
      BY <2>5 DEF Of, SlugsOf
    <3>3. \A d \in deps' : d \in deps \/ (d.student = LabelOf(i) /\ d \in deps' \ deps)
      BY <1>3 DEF CreateDeployment
    <3>4. \A d, e \in deps' \ deps : d = e
      BY <1>3 DEF CreateDeployment
    <3>5. Single(deps')
      BY <3>1, <3>2, <3>3, <3>4 DEF Single
    <3>6. QED
      BY <2>2, <2>3, <3>5 DEF Even
  <2>6. QED
    BY <1>10, <2>4, <2>5
<1>13. ASSUME ~Full(deps') PROVE FirstRound(w)'
  <2>1. FirstRound(w)
    BY <1>11, <1>13 DEF WorkerInv
  <2>2. \A j \in Instances : Of(seen[w], j) \subseteq Of(deps', j)
    BY <1>4, <2>1, OfMonotone DEF FirstRound
  <2>3. ASSUME NEW j \in Instances, Of(deps', j) # {} PROVE Of(seen[w], j) # {} \/ Visited(w, j)'
    <3>1. CASE j = i
      BY <1>7, <3>1
    <3>2. CASE j # i
      BY <1>4, <1>7, <2>1, <2>3, <3>2 DEF FirstRound
    <3>3. QED
      BY <3>1, <3>2
  <2>4. status'.slug = NewStatus.slug
    BY <1>1, <2>1 DEF FirstRound
  <2>5. QED
    BY <1>1, <2>2, <2>3, <2>4 DEF FirstRound, Of
<1>14. ASSUME NEW j \in Instances PROVE KnownInv(w, j)'
  <2>1. CASE j = i
    <3>1. ASSUME cache[w].slug[i] = NoSlug, Of(seen[w], i) # {}
          PROVE  Of(deps', i) \subseteq Of(seen[w], i) /\ s \in Of(seen[w], i)
      <4>1. loc[w].slug[i] = NoSlug /\ Of(deps, i) \subseteq Of(seen[w], i)
        BY <1>7, <1>9, <3>1 DEF KnownInv
      <4>2. QED
        BY <1>5, <1>8, <3>1, <4>1
    <3>2. QED
      BY <1>1, <1>4, <1>6, <1>7, <1>9, <2>1, <3>1 DEF KnownInv, Of
  <2>2. CASE j # i
    <3>1. KnownInv(w, j)
      BY <1>9
    <3>2. Of(deps', j) = Of(deps, j) /\ loc'[w].slug[j] = loc[w].slug[j]
          /\ (Visited(w, j)' <=> Visited(w, j)) /\ (Ahead(w, j)' <=> Ahead(w, j))
      BY <1>4, <1>6, <1>7, <2>2
    <3>3. QED
      BY <1>1, <3>1, <3>2 DEF KnownInv, Of
  <2>3. QED
    BY <2>1, <2>2
<1>15. ASSUME status.phase = "Ready", NEW j \in Instances PROVE StoredReadyInv(w, j)'
  <2>1. StoredReadyInv(w, i) /\ StoredReadyInv(w, j)
    BY <1>1, <1>15 DEF WorkerInv
  <2>2. s = status.slug[i]
    <3>1. CASE loc[w].slug[i] # NoSlug
      BY <1>7, <1>8, <1>9, <3>1 DEF KnownInv
    <3>2. CASE loc[w].slug[i] = NoSlug
      BY <1>7, <1>8, <2>1, <3>2 DEF StoredReadyInv
    <3>3. QED
      BY <3>1, <3>2
  <2>3. deps' = deps
    BY <1>4, <2>1, <2>2, OfSlugs DEF StoredReadyInv
  <2>4. Visited(w, j)' => loc'[w].slug[j] = status.slug[j]
    BY <1>6, <1>7, <2>1, <2>2 DEF StoredReadyInv
  <2>5. Ahead(w, j)' /\ loc'[w].slug[j] = NoSlug => Ahead(w, j) /\ loc[w].slug[j] = NoSlug
    BY <1>6, <1>7
  <2>6. QED
    BY <1>1, <2>1, <2>3, <2>4, <2>5 DEF StoredReadyInv
<1>16. ClusterInv'
  BY <1>1, <1>12 DEF ClusterInv
<1>17. QED
  BY <1>1, <1>2, <1>6, <1>13, <1>14, <1>15, <1>16 DEF WorkerInv

\* The clean-up deletes no Deployment the loops of its own reconcile have found
\* or created.
LEMMA ReadyCleanup ==
  ASSUME TypeOK, TypeOK', NEW w \in Workers, ClusterInv, WorkerInv(w),
         faults = 0, faults' = 0, cleanupOrphanedResources(w)
  PROVE  ClusterInv' /\ WorkerInv(w)'
<1>1. /\ pc[w] = "instances" /\ next[w] \notin Instances /\ pc' = [pc EXCEPT ![w] = "health"]
      /\ UNCHANGED <<status, ns, cache, synced, seen, loc, fresh, next>>
  BY DEF cleanupOrphanedResources, Goto, copies
<1>2. deps' = {d \in deps : d.slug \notin OrphansSeen(w)}
  BY DEF cleanupOrphanedResources, OneFault
<1>3. \A i \in Instances : Visited(w, i) /\ ~Ahead(w, i) /\ Visited(w, i)' /\ ~Ahead(w, i)'
  BY <1>1, Places DEF Visited, Ahead, TypeOK
<1>4. \A i \in Instances : KnownInv(w, i)
  BY DEF WorkerInv
<1>5. ASSUME NEW i \in Instances PROVE loc[w].slug[i] \in Of(deps', i)
  <2>1. loc[w].slug[i] \in Of(deps, i)
    BY <1>3, <1>4 DEF KnownInv
  <2>2. deps \subseteq Deployments
    BY DEF TypeOK
  <2>3. loc[w].slug[i] \in validSlugs(loc[w])
    BY <2>1, <2>2, OfType DEF validSlugs
  <2>4. loc[w].slug[i] \notin OrphansSeen(w)
    BY <2>3 DEF OrphansSeen
  <2>5. QED
    BY <1>2, <2>1, <2>4 DEF Of, SlugsOf
<1>6. Full(deps') /\ deps' \subseteq deps
  BY <1>2, <1>5 DEF Full
<1>7. \A i \in Instances : Of(deps', i) \subseteq Of(deps, i)
  BY <1>6, OfMonotone
<1>8. ClusterInv'
  BY <1>1, <1>6, EvenSubset DEF ClusterInv
<1>9. ASSUME NEW i \in Instances PROVE KnownInv(w, i)'
  <2>1. KnownInv(w, i)
    BY <1>4
  <2>2. QED
    BY <1>1, <1>3, <1>5, <1>7, <2>1 DEF KnownInv, Of
<1>10. ASSUME status.phase = "Ready", NEW i \in Instances PROVE StoredReadyInv(w, i)'
  <2>1. StoredReadyInv(w, i) /\ loc[w].slug[i] = status.slug[i]
    BY <1>3, <1>10 DEF WorkerInv, StoredReadyInv
  <2>2. status.slug[i] \in Of(deps', i) /\ Of(deps', i) \subseteq Of(deps, i)
    BY <1>5, <1>7, <2>1
  <2>3. QED
    BY <1>1, <1>3, <2>1, <2>2 DEF StoredReadyInv
<1>11. pc'[w] = "health"
  BY <1>1 DEF TypeOK
<1>12. QED
  BY <1>1, <1>6, <1>8, <1>9, <1>10, <1>11 DEF WorkerInv

\* The health gate makes an Exam Ready only from a list that has one Deployment per
\* instance, and where the manager may yet look for a slug it is the stored one.
LEMMA ReadyHealthGate ==
  ASSUME TypeOK, TypeOK', CopyInv, NumSpares <= 1, NEW w \in Workers, ClusterInv, WorkerInv(w),
         faults = 0, faults' = 0, HealthGate(w)
  PROVE  ClusterInv' /\ WorkerInv(w)'
<1> DEFINE copy == IF allInstancesHealthy(seen[w]) THEN [loc[w] EXCEPT !.phase = "Ready"]
                   ELSE loc[w]
<1>1. /\ pc[w] = "health" /\ UNCHANGED <<ns, deps, cache, seen>>
      /\ StatusUpdate(w, copy, fresh[w], FALSE)
  BY DEF HealthGate
<1>2. /\ copy.slug = loc[w].slug
      /\ copy.phase = "Ready" => allInstancesHealthy(seen[w])
  BY PhaseType DEF TypeOK, WorkerInv
<1> HIDE DEF copy
<1>3. /\ pc'[w] = "idle" /\ next'[w] = 1 /\ loc'[w] = NewStatus /\ ~fresh'[w]
  BY <1>1 DEF StatusUpdate, Return, Goto, TypeOK
<1>4. \/ fresh[w] /\ status' = copy
      \/ status' = status
  BY <1>1 DEF StatusUpdate, Conflict
<1>5. ns = "active" /\ \A i \in Instances : KnownInv(w, i) /\ loc[w].slug[i] \in Of(deps, i)
  BY <1>1, Places DEF WorkerInv, KnownInv
<1>6. Full(deps) /\ Full(deps)'
  BY <1>1, <1>5 DEF Full
<1>7. \A i \in Instances : ~Visited(w, i)' /\ ~Ahead(w, i)'
  BY <1>3 DEF Visited, Ahead
<1>8. fresh[w] => cache[w] = status /\ Keeps(loc[w])
  BY DEF CopyInv, WorkerInv
<1>9. ASSUME NEW i \in Instances PROVE KnownInv(w, i)'
  <2>1. cache[w].slug[i] # NoSlug => status'.slug[i] = cache[w].slug[i]
    BY <1>2, <1>4, <1>5, <1>8 DEF KnownInv, Keeps
  <2>2. QED
    BY <1>1, <1>5, <1>7, <2>1 DEF KnownInv, Of
<1>10. ASSUME status'.phase = "Ready", NEW i \in Instances PROVE StoredReadyInv(w, i)'
  <2>1. CASE fresh[w] /\ status' = copy
    <3>1. Cardinality(seen[w]) = NumStudents + NumSpares /\ Even(seen[w])
      BY <1>2, <1>10, <2>1 DEF allInstancesHealthy, WorkerInv
    <3>2. PICK s : Of(seen[w], i) = {s}
      BY <3>1, CountedOnce
    <3>3. status'.slug[i] = loc[w].slug[i]
      BY <1>2, <2>1
    <3>4. cache[w].slug[i] = NoSlug => s = loc[w].slug[i] /\ Of(deps, i) = {s}
      BY <1>1, <1>5, <3>2, Places DEF KnownInv
    <3>5. QED
      BY <1>1, <1>5, <1>7, <3>2, <3>3, <3>4 DEF StoredReadyInv, Of
  <2>2. CASE status' = status
    <3>1. StoredReadyInv(w, i)
      BY <1>10, <2>2 DEF WorkerInv
    <3>2. QED
      BY <1>1, <1>7, <2>2, <3>1 DEF StoredReadyInv, Of
  <2>3. QED
    BY <1>4, <2>1, <2>2
<1>11. ClusterInv'
  BY <1>1, <1>5 DEF ClusterInv
<1>12. loc'[w].phase # "Ready"
  BY <1>3 DEF NewStatus
<1>13. QED
  BY <1>1, <1>3, <1>6, <1>9, <1>10, <1>11, <1>12 DEF WorkerInv

LEMMA ReadyCreateNamespace ==
  ASSUME TypeOK, TypeOK', CopyInv, NEW w \in Workers, ClusterInv, WorkerInv(w), CreateNamespace(w)
  PROVE  ClusterInv' /\ WorkerInv(w)'
<1>1. /\ pc[w] = "idle" /\ cache[w].phase # "Ready" /\ ns' = NamespaceCreated
      /\ loc'[w] = Dispatched(w) /\ fresh'[w] = synced[w] /\ pc'[w] = "instances"
      /\ UNCHANGED <<status, deps, cache, synced, seen, next>>
  BY DEF CreateNamespace, Starts, Goto, copies, TypeOK
<1>2. ns' = "active"
  BY <1>1 DEF NamespaceCreated, ClusterInv, TypeOK
<1>3. loc'[w].slug = cache[w].slug /\ loc'[w].phase = "Provisioning"
  BY <1>1 DEF Dispatched, TypeOK, Statuses
<1>4. next'[w] = 1
  BY <1>1 DEF WorkerInv
<1>5. \A i \in Instances : ~Visited(w, i) /\ ~Visited(w, i)'
  BY <1>1, <1>4, ProvisioningAssumption DEF Visited, Instances
<1>6. ASSUME NEW i \in Instances PROVE KnownInv(w, i)'
  <2>1. KnownInv(w, i)
    BY DEF WorkerInv
  <2>2. QED
    BY <1>1, <1>3, <1>5, <2>1 DEF KnownInv, Of
<1>7. ASSUME status.phase = "Ready", NEW i \in Instances PROVE StoredReadyInv(w, i)'
  <2>1. StoredReadyInv(w, i)
    BY <1>7 DEF WorkerInv
  <2>2. QED
    BY <1>1, <1>3, <1>5, <2>1 DEF StoredReadyInv, Of
<1>8. ~Full(deps') => FirstRound(w)'
  BY <1>1, <1>5 DEF WorkerInv, FirstRound, Of
<1>9. fresh'[w] => synced'[w] /\ status'.phase # "Ready"
  BY <1>1 DEF CopyInv
<1>10. QED
  BY <1>1, <1>2, <1>3, <1>4, <1>6, <1>7, <1>8, <1>9 DEF WorkerInv, ClusterInv

LEMMA ReadyExamSync ==
  ASSUME TypeOK, NEW w \in Workers, ClusterInv, WorkerInv(w), ExamSync(w)
  PROVE  ClusterInv' /\ WorkerInv(w)'
<1>1. /\ cache'[w] = status /\ synced'[w] = TRUE
      /\ UNCHANGED <<status, ns, deps, seen, pc, loc, fresh, next>>
  BY DEF ExamSync, TypeOK
<1>2. \A i \in Instances : (Visited(w, i)' <=> Visited(w, i)) /\ (Ahead(w, i)' <=> Ahead(w, i))
  BY <1>1 DEF Visited, Ahead
<1>3. ASSUME NEW i \in Instances PROVE KnownInv(w, i)'
  <2>1. KnownInv(w, i)
    BY DEF WorkerInv
  <2>2. QED
    BY <1>1, <1>2, <2>1 DEF KnownInv, Of
<1>4. ASSUME status.phase = "Ready", NEW i \in Instances PROVE StoredReadyInv(w, i)'
  <2>1. StoredReadyInv(w, i) /\ KnownInv(w, i)
    BY <1>4 DEF WorkerInv
  <2>2. QED
    BY <1>1, <1>2, <2>1 DEF StoredReadyInv, KnownInv, Of
<1>5. ~Full(deps') => FirstRound(w)'
  BY <1>1, <1>2 DEF WorkerInv, FirstRound, Of
<1>6. QED
  BY <1>1, <1>3, <1>4, <1>5 DEF WorkerInv, ClusterInv

LEMMA ReadyDeploymentSync ==
  ASSUME TypeOK, NEW w \in Workers, ClusterInv, WorkerInv(w), DeploymentSync(w)
  PROVE  ClusterInv' /\ WorkerInv(w)'
<1>1. /\ seen'[w] = deps
      /\ UNCHANGED <<status, ns, deps, cache, synced, pc, loc, fresh, next>>
  BY DEF DeploymentSync, TypeOK
<1>2. \A i \in Instances : (Visited(w, i)' <=> Visited(w, i)) /\ (Ahead(w, i)' <=> Ahead(w, i))
  BY <1>1 DEF Visited, Ahead
<1>3. ASSUME NEW i \in Instances PROVE KnownInv(w, i)'
  <2>1. KnownInv(w, i)
    BY DEF WorkerInv
  <2>2. QED
    BY <1>1, <1>2, <2>1 DEF KnownInv, Of
<1>4. ASSUME status.phase = "Ready", NEW i \in Instances PROVE StoredReadyInv(w, i)'
  <2>1. StoredReadyInv(w, i)
    BY <1>4 DEF WorkerInv
  <2>2. QED
    BY <1>1, <1>2, <2>1 DEF StoredReadyInv, Of
<1>5. ~Full(deps') => FirstRound(w)'
  BY <1>1, <1>2 DEF WorkerInv, FirstRound, Of
<1>6. Even(seen'[w])
  BY <1>1 DEF ClusterInv
<1>7. QED
  BY <1>1, <1>3, <1>4, <1>5, <1>6 DEF WorkerInv, ClusterInv

\* A manager that starts again has listed everything.
LEMMA ReadyCrash ==
  ASSUME TypeOK, NEW w \in Workers, ClusterInv, WorkerInv(w), Crash(w)
  PROVE  ClusterInv' /\ WorkerInv(w)'
<1>1. /\ seen'[w] = deps /\ cache'[w] = status /\ ~fresh'[w]
      /\ pc'[w] = "idle" /\ next'[w] = 1 /\ loc'[w] = NewStatus
      /\ UNCHANGED <<status, ns, deps>>
  BY DEF Crash, Return, Goto, ListAfresh, TypeOK
<1>2. \A i \in Instances : ~Visited(w, i)' /\ ~Ahead(w, i)'
  BY <1>1 DEF Visited, Ahead
<1>3. ASSUME NEW i \in Instances PROVE KnownInv(w, i)'
  BY <1>1, <1>2 DEF KnownInv, Of
<1>4. ASSUME status.phase = "Ready", NEW i \in Instances PROVE StoredReadyInv(w, i)'
  <2>1. StoredReadyInv(w, i) /\ KnownInv(w, i)
    BY <1>4 DEF WorkerInv
  <2>2. status.slug[i] # NoSlug
    <3>1. deps \subseteq Deployments
      BY DEF TypeOK
    <3>2. QED
      BY <2>1, <3>1, OfType DEF StoredReadyInv
  <2>3. QED
    BY <1>1, <1>2, <2>1, <2>2 DEF StoredReadyInv, Of
<1>5. ~Full(deps') => FirstRound(w)'
  BY <1>1 DEF WorkerInv, FirstRound, Of
<1>6. loc'[w].phase # "Ready" /\ Even(seen'[w])
  BY <1>1 DEF NewStatus, ClusterInv
<1>7. QED
  BY <1>1, <1>3, <1>4, <1>5, <1>6 DEF WorkerInv, ClusterInv

\* Readiness does not matter to the lists.
LEMMA ReadyDeploymentReady ==
  ASSUME TypeOK, ClusterInv, NEW d \in deps, DeploymentReady(d)
  PROVE  /\ ClusterInv'
         /\ \A w \in Workers : WorkerInv(w) => WorkerInv(w)'
<1> DEFINE e == [d EXCEPT !.ready = TRUE]
<1>1. /\ deps' = (deps \ {d}) \cup {e}
      /\ UNCHANGED <<status, ns, cache, synced, seen, pc, loc, fresh, next>>
  BY DEF DeploymentReady, copies
<1>2. e.slug = d.slug /\ e.student = d.student
  BY DEF TypeOK, Deployments
<1> HIDE DEF e
<1>3. ASSUME NEW i \in Instances PROVE Of(deps', i) = Of(deps, i)
  <2>1. \A c \in deps : \E b \in deps' : b.slug = c.slug /\ b.student = c.student
    BY <1>1, <1>2
  <2>2. \A b \in deps' : \E c \in deps : b.slug = c.slug /\ b.student = c.student
    BY <1>1, <1>2
  <2>3. QED
    BY <2>1, <2>2 DEF Of, SlugsOf
<1>4. Full(deps') <=> Full(deps)
  BY <1>3 DEF Full
<1>5. Even(deps')
  <2>1. Even(deps)
    BY DEF ClusterInv
  <2>2. IsFiniteSet(deps \ {d})
    BY <2>1, FS_RemoveElement DEF Even
  <2>3. IsFiniteSet(deps')
    BY <1>1, <2>2, FS_AddElement
  <2>4. \A c \in deps' : \E i \in Instances : c.student = LabelOf(i)
    BY <1>1, <1>2, <2>1 DEF Even
  <2>5. Single(deps) => Single(deps')
    BY <1>1, <1>2 DEF Single
  <2>6. QED
    BY <1>4, <2>1, <2>3, <2>4, <2>5 DEF Even
<1>6. ASSUME NEW w \in Workers, WorkerInv(w) PROVE WorkerInv(w)'
  <2>1. \A i \in Instances : (Visited(w, i)' <=> Visited(w, i)) /\ (Ahead(w, i)' <=> Ahead(w, i))
    BY <1>1 DEF Visited, Ahead
  <2>2. ASSUME NEW i \in Instances PROVE KnownInv(w, i)'
    <3>1. KnownInv(w, i)
      BY <1>6 DEF WorkerInv
    <3>2. QED
      BY <1>1, <1>3, <2>1, <3>1 DEF KnownInv, Of
  <2>3. ASSUME status.phase = "Ready", NEW i \in Instances PROVE StoredReadyInv(w, i)'
    <3>1. StoredReadyInv(w, i)
      BY <1>6, <2>3 DEF WorkerInv
    <3>2. QED
      BY <1>1, <1>3, <2>1, <3>1 DEF StoredReadyInv
  <2>4. ASSUME ~Full(deps') PROVE FirstRound(w)'
    <3>1. FirstRound(w)
      BY <1>4, <1>6, <2>4 DEF WorkerInv
    <3>2. QED
      BY <1>1, <1>3, <2>1, <3>1 DEF FirstRound
  <2>5. QED
    BY <1>1, <1>6, <2>2, <2>3, <2>4 DEF WorkerInv
<1>7. QED
  BY <1>1, <1>5, <1>6 DEF ClusterInv

LEMMA ReadyEdit ==
  ASSUME ClusterInv, EditExam
  PROVE  /\ ClusterInv'
         /\ \A w \in Workers : WorkerInv(w) => WorkerInv(w)'
<1>1. UNCHANGED <<status, ns, deps, cache, seen, pc, loc, next>> /\ \A w \in Workers : ~fresh'[w]
  BY DEF EditExam
<1>2. ASSUME NEW w \in Workers, WorkerInv(w) PROVE WorkerInv(w)'
  <2>1. \A i \in Instances : (Visited(w, i)' <=> Visited(w, i)) /\ (Ahead(w, i)' <=> Ahead(w, i))
    BY <1>1 DEF Visited, Ahead
  <2>2. \A i \in Instances : (KnownInv(w, i)' <=> KnownInv(w, i))
                             /\ (StoredReadyInv(w, i)' <=> StoredReadyInv(w, i))
    BY <1>1, <2>1 DEF KnownInv, StoredReadyInv, Of
  <2>3. FirstRound(w)' <=> FirstRound(w)
    BY <1>1, <2>1 DEF FirstRound, Of
  <2>4. QED
    BY <1>1, <1>2, <2>2, <2>3 DEF WorkerInv
<1>3. QED
  BY <1>1, <1>2 DEF ClusterInv

LEMMA ReadyInit == Init => ReadyInv
<1> SUFFICES ASSUME Init, Clean PROVE ClusterInv /\ \A w \in Workers : WorkerInv(w)
  BY DEF ReadyInv
<1>1. /\ deps = {} /\ ns = "absent" /\ status = NewStatus
      /\ \A w \in Workers : /\ cache[w] = NewStatus /\ seen[w] = {} /\ pc[w] = "idle"
                            /\ loc[w] = NewStatus /\ ~fresh[w] /\ next[w] = 1
  BY DEF Init, Clean
<1>2. \A i \in Instances : Of({}, i) = {}
  BY DEF Of, SlugsOf
<1>3. Even({})
  BY FS_EmptySet DEF Even, Single
<1>4. NewStatus.phase = "Pending"
  BY DEF NewStatus
<1>5. ASSUME NEW w \in Workers PROVE WorkerInv(w)
  <2>1. \A i \in Instances : ~Visited(w, i) /\ ~Ahead(w, i)
    BY <1>1 DEF Visited, Ahead
  <2>2. \A i \in Instances : KnownInv(w, i)
    BY <1>1, <1>2, <2>1, NewStatusType DEF KnownInv
  <2>3. FirstRound(w)
    BY <1>1, <1>2 DEF FirstRound
  <2>4. QED
    BY <1>1, <1>3, <1>4, <2>2, <2>3 DEF WorkerInv
<1>6. QED
  BY <1>1, <1>3, <1>4, <1>5 DEF ClusterInv

\* Without a failed call a reconcile of the one manager keeps the invariant.
LEMMA ReadyReconcile ==
  ASSUME TypeOK, TypeOK', CopyInv, OneOwner, NumSpares <= 1, NEW w \in Workers, ClusterInv, WorkerInv(w),
         faults = 0, faults' = 0, Reconcile(w)
  PROVE  ClusterInv' /\ WorkerInv(w)'
<1>1. ASSUME NamespaceError(w) PROVE FALSE
  <2>1. ns # "terminating"
    BY DEF ClusterInv
  <2>2. OneFault
    BY <1>1, <2>1 DEF NamespaceError, StatusUpdate
  <2>3. QED
    BY <2>2 DEF OneFault
<1>2. ASSUME SlugError(w) PROVE FALSE
  BY <1>2 DEF SlugError, StatusUpdate, OneFault
<1>3. QED
  BY <1>1, <1>2, ReadyCreateNamespace, ReadyProvisionNext, ReadyCleanup, ReadyHealthGate DEF Reconcile

LEMMA ReadyEnvironment ==
  ASSUME TypeOK, \A v, w \in Workers : v = w, ClusterInv, \A w \in Workers : WorkerInv(w), Environment
  PROVE  ClusterInv' /\ \A w \in Workers : WorkerInv(w)'
<1>1. ~NamespaceGone /\ \A d \in deps : ~ContentGone(d)
  BY DEF NamespaceGone, ContentGone, ClusterInv
<1>2. ASSUME NEW w \in Workers, ExamSync(w) \/ DeploymentSync(w) \/ Crash(w)
      PROVE  ClusterInv' /\ \A v \in Workers : WorkerInv(v)'
  <2>1. ClusterInv' /\ WorkerInv(w)'
    BY <1>2, ReadyExamSync, ReadyDeploymentSync, ReadyCrash
  <2>2. QED
    BY <2>1, Zenon
<1>3. CASE EditExam
  BY <1>3, ReadyEdit
<1>4. ASSUME NEW d \in deps, DeploymentReady(d)
      PROVE  ClusterInv' /\ \A v \in Workers : WorkerInv(v)'
  BY <1>4, ReadyDeploymentReady
<1>5. QED
  BY <1>1, <1>2, <1>3, <1>4 DEF Environment

\* A step leaves no failure behind only when there was none before.
LEMMA CleanBefore ==
  ASSUME TypeOK, [Next]_vars, Clean'
  PROVE  Clean /\ faults = 0 /\ faults' = 0
<1>1. recreated' = recreated
  BY DEF Next, Environment, Reconcile, vars, NamespaceGone, EditExam, DeploymentReady, ContentGone,
         ExamSync, DeploymentSync, Crash, CreateNamespace, NamespaceError, ProvisionNext,
         SlugError, cleanupOrphanedResources, HealthGate
<1>2. faults' = faults \/ faults' = faults + 1
  BY DEF Next, Environment, Reconcile, vars, NamespaceGone, EditExam, DeploymentReady, ContentGone,
         ExamSync, DeploymentSync, Crash, CreateNamespace, NamespaceError, ProvisionNext,
         SlugError, cleanupOrphanedResources, HealthGate, StatusUpdate, NoFault, OneFault, bounds
<1>3. faults \in Nat
  BY ProvisioningAssumption DEF TypeOK
<1>4. QED
  BY <1>1, <1>2, <1>3 DEF Clean

LEMMA ReadyNext ==
  ASSUME NumSpares <= 1, \A v, w \in Workers : v = w
  PROVE  TypeOK /\ TypeOK' /\ CopyInv /\ OneOwner /\ ReadyInv /\ [Next]_vars => ReadyInv'
<1> SUFFICES ASSUME TypeOK, TypeOK', CopyInv, OneOwner, ReadyInv, [Next]_vars, Clean'
             PROVE  ClusterInv' /\ \A w \in Workers : WorkerInv(w)'
  BY DEF ReadyInv
<1>1. faults = 0 /\ faults' = 0 /\ ClusterInv /\ \A w \in Workers : WorkerInv(w)
  BY CleanBefore DEF ReadyInv
<1>2. CASE UNCHANGED vars
  <2>1. UNCHANGED <<status, ns, deps, cache, synced, seen, pc, loc, fresh, next>>
    BY <1>2 DEF vars
  <2>2. ASSUME NEW w \in Workers PROVE WorkerInv(w)'
    <3>1. \A i \in Instances : (Visited(w, i)' <=> Visited(w, i)) /\ (Ahead(w, i)' <=> Ahead(w, i))
      BY <2>1 DEF Visited, Ahead
    <3>2. \A i \in Instances : (KnownInv(w, i)' <=> KnownInv(w, i))
                               /\ (StoredReadyInv(w, i)' <=> StoredReadyInv(w, i))
      BY <2>1, <3>1 DEF KnownInv, StoredReadyInv, Of
    <3>3. FirstRound(w)' <=> FirstRound(w)
      BY <2>1, <3>1 DEF FirstRound, Of
    <3>4. WorkerInv(w)
      BY <1>1
    <3>5. QED
      BY <2>1, <3>2, <3>3, <3>4 DEF WorkerInv
  <2>3. QED
    BY <1>1, <2>1, <2>2 DEF ClusterInv
<1>3. ASSUME NEW w \in Workers, Reconcile(w)
      PROVE  ClusterInv' /\ \A v \in Workers : WorkerInv(v)'
  <2>1. ClusterInv' /\ WorkerInv(w)'
    BY <1>1, <1>3, ReadyReconcile
  <2>2. QED
    BY <2>1, Zenon
<1>4. CASE Environment
  BY <1>1, <1>4, ReadyEnvironment
<1>5. QED
  BY <1>2, <1>3, <1>4 DEF Next

\* What one manager knows of slugs and Deployments, at every point where it may
\* be cut off, with at most one spare.
THEOREM ReadyInvariance ==
  ASSUME NumSpares <= 1, \A v, w \in Workers : v = w
  PROVE  Spec => []ReadyInv
<1>1. TypeOK /\ TypeOK' /\ CopyInv /\ OneOwner /\ ReadyInv /\ [Next]_vars => ReadyInv'
  BY ReadyNext
<1>2. Spec => []CopyInv
  BY CopyInit, KeepsNext, TypeCorrect, PTL DEF Spec
<1>3. QED
  BY <1>1, <1>2, ReadyInit, TypeCorrect, Owners, PTL DEF Spec

\* With one manager and at most one spare, whatever its two caches miss and
\* whenever it restarts or loses its status write, an Exam that no failed call has
\* touched and that has no predecessor is Ready only while every slug it stores has
\* its Deployment, for any number of students.  (With two managers it is
\* not so, see CanonicalKept.)
THEOREM Deployed ==
  ASSUME NumSpares <= 1, \A v, w \in Workers : v = w
  PROVE  Spec => []ReadyDeployed
<1>1. TypeOK /\ ReadyInv => ReadyDeployed
  <2> SUFFICES ASSUME TypeOK, ReadyInv, status.phase = "Ready", Clean
               PROVE  /\ ns = "active" /\ validSlugs(status) \subseteq SlugsOf(deps)
                      /\ NoSlug \notin {status.slug[i] : i \in Instances}
    BY DEF ReadyDeployed, Clean
  <2>1. ns = "active" /\ \A i \in Instances : status.slug[i] \in Of(deps, i)
    BY ProvisioningAssumption DEF ReadyInv, ClusterInv, WorkerInv, StoredReadyInv
  <2>2. deps \subseteq Deployments
    BY DEF TypeOK
  <2>3. QED
    BY <2>1, <2>2, OfSlugs, OfType DEF validSlugs
<1>2. QED
  BY <1>1, ReadyInvariance, TypeCorrect, PTL
=============================================================================
