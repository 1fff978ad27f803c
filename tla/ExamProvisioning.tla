-------------------------- MODULE ExamProvisioning --------------------------
(***************************************************************************)
(* How reconcileProvisioning of internal/controller/exam_controller.go     *)
(* gives every student and spare of one Exam a slug and a Deployment: the  *)
(* search for a slug, the clean-up of what lost a race and the health gate *)
(* that ends the phase.  ExamController takes instances for granted by     *)
(* their index; this module is about which slug each of them gets.         *)
(*                                                                         *)
(* A worker is a manager process that reads both the Exam and the          *)
(* Deployments from informer caches, each of which may lag.  There is more *)
(* than one where leader election is off.                                  *)
(*                                                                         *)
(* Abstractions.  A slug is a number, because spares are found in the      *)
(* order of their slugs.  Deployments stand for the objects of an          *)
(* instance: Service and policies are created after it and cleaned up      *)
(* after it.  Student ids are distinct.  Whether a copy of the Exam is the *)
(* latest version is all that is kept of resourceVersions.                 *)
(***************************************************************************)
EXTENDS Integers, FiniteSets

CONSTANTS
  Workers,        \* manager processes
  NumStudents,    \* len(spec.students)
  NumSpares,      \* spec.spares
  Predecessor,    \* may the Exam follow a deleted one of the same name
  MaxSlugs,       \* bound: slugs in use at the same time
  MaxFaults,      \* bound: failed calls
  MaxUpsets       \* bound: writes to the Exam by others, and manager restarts

ASSUME ProvisioningAssumption ==
  /\ Workers # {}
  /\ NumStudents \in Nat \ {0}
  /\ NumSpares \in Nat
  /\ Predecessor \in BOOLEAN
  /\ MaxSlugs \in Nat /\ NumStudents + NumSpares <= MaxSlugs
  /\ MaxFaults \in Nat /\ MaxUpsets \in Nat

Students  == 1..NumStudents
Instances == 1..(NumStudents + NumSpares)
Slugs     == 1..MaxSlugs
NoSlug    == 0

\* The student label of an instance's Deployment; spares have none.
NoStudent    == 0
LabelAll(i)  == i      \* mutant: spares get a label as well
LabelOf(i)   == IF i \in Students THEN i ELSE NoStudent

Deployments  == [slug: Slugs, student: Students \cup {NoStudent}, ready: BOOLEAN]

\* What the status of an Exam in these phases says about its instances.
Statuses ==
  [phase: {"Pending", "Provisioning", "Ready"}, slug: [Instances -> Slugs \cup {NoSlug}]]

NewStatus == [phase |-> "Pending", slug |-> [i \in Instances |-> NoSlug]]

PCs == {"idle", "instances", "health"}

VARIABLES
  status,     \* the status of the Exam as the API server stores it
  ns,         \* the exam namespace: "absent", "active" or "terminating"
  deps,       \* the Deployments in it
  recreated,  \* did the Exam start on the namespace of a deleted predecessor
  cache,      \* per worker: the status in the informer cache
  synced,     \* per worker: is cache the latest version
  seen,       \* per worker: the Deployments in the informer cache
  pc,         \* per worker: where its reconcile is
  loc,        \* per worker: the status Reconcile works on
  fresh,      \* per worker: is loc based on the latest version
  next,       \* per worker: the instance its loops visit next
  faults, upsets    \* used-up bounds

copies == <<cache, synced, seen>>
bounds == <<faults, upsets>>
vars == <<status, ns, deps, recreated, cache, synced, seen, pc, loc,
          fresh, next, faults, upsets>>

Goto(w, label) == pc' = [pc EXCEPT ![w] = label]
NoFault  == UNCHANGED faults
OneFault == faults < MaxFaults /\ faults' = faults + 1

\* The slugs a status names (validSlugs).
validSlugs(st) == {st.slug[i] : i \in Instances} \ {NoSlug}

SlugsOf(ds) == {d.slug : d \in ds}

-----------------------------------------------------------------------------
(***************************************************************************)
(* Finding a slug.  List reads the worker's cache, in no particular order. *)
(***************************************************************************)

Unused ==
  Slugs \ (SlugsOf(deps) \cup validSlugs(status)
             \cup UNION {SlugsOf(seen[v]) \cup validSlugs(cache[v]) \cup validSlugs(loc[v])
                           : v \in Workers})

\* Generate: eight random characters, never a slug that is in use.  Only the
\* slugs of spares are ever compared, so a student gets the smallest.
Generate(i) == {s \in Unused : i \in Students => \A t \in Unused : s <= t}

\* The slugs findOrGenerateSlug may find for a student: the one in the status,
\* else that of any Deployment with the student's label.
StudentSlugs(w, i) ==
  IF loc[w].slug[i] # NoSlug
  THEN {loc[w].slug[i]}
  ELSE SlugsOf({d \in seen[w] : d.student = i})

\* The slug at a position, counted from 0, of the sorted slugs.
AtIndex(slugs, k) == {s \in slugs : Cardinality({t \in slugs : t < s}) = k}

\* Mutant: any Deployment is taken for a spare's.
AnyDeployment(w, i) ==
  IF loc[w].slug[i] # NoSlug
  THEN {loc[w].slug[i]}
  ELSE AtIndex(SlugsOf(seen[w]), i - NumStudents - 1)

\* findOrGenerateSpareSlug for a spare: the slug in the status, else the one
\* at its position among the Deployments that have no student label.
SpareSlugs(w, i) ==
  IF loc[w].slug[i] # NoSlug
  THEN {loc[w].slug[i]}
  ELSE AtIndex(SlugsOf({d \in seen[w] : d.student = NoStudent}), i - NumStudents - 1)

Found(w, i) == IF i \in Students THEN StudentSlugs(w, i) ELSE SpareSlugs(w, i)

-----------------------------------------------------------------------------
(***************************************************************************)
(* The end of Reconcile.                                                   *)
(***************************************************************************)
Return(w) ==
  /\ Goto(w, "idle")
  /\ loc'  = [loc EXCEPT ![w] = NewStatus]
  /\ next' = [next EXCEPT ![w] = 1]

\* Mutant: the write goes through whatever version the copy came from.
NeverConflict(current) == FALSE

\* A write of the Exam is refused unless the copy it is based on is current.
Conflict(current) == ~current

\* Status().Update of a copy, also after a handler that failed; charged is
\* whether a call has failed before.  Then Reconcile returns.
StatusUpdate(w, copy, current, charged) ==
  /\ Return(w)
  /\ \/ /\ ~Conflict(current)
        /\ status' = copy
        /\ synced' = [v \in Workers |-> synced[v] /\ copy = status]
        /\ fresh'  = [v \in Workers |-> v # w /\ fresh[v] /\ copy = status]
        /\ IF charged THEN OneFault ELSE NoFault
     \/ /\ IF charged \/ ~Conflict(current) THEN OneFault ELSE NoFault
        /\ fresh' = [fresh EXCEPT ![w] = FALSE]
        /\ UNCHANGED <<status, synced>>

-----------------------------------------------------------------------------
(***************************************************************************)
(* reconcileProvisioning.                                                  *)
(***************************************************************************)

\* Reconcile reads an Exam that is due for provisioning, or is in it.
Dispatched(w) == [cache[w] EXCEPT !.phase = "Provisioning"]

Starts(w) == pc[w] = "idle" /\ cache[w].phase # "Ready"

NamespaceCreated == IF ns = "absent" THEN "active" ELSE ns

\* Read the cache, create the namespace and copy the TLS secret, if one is
\* configured.  A namespace that is terminating counts as existing.
CreateNamespace(w) ==
  /\ Starts(w)
  /\ ns' = NamespaceCreated
  /\ loc' = [loc EXCEPT ![w] = Dispatched(w)]
  /\ fresh' = [fresh EXCEPT ![w] = synced[w]]
  /\ Goto(w, "instances")
  /\ UNCHANGED <<status, deps, recreated, copies, next, bounds>>

\* One of these calls fails, which ends the handler.  A terminating namespace
\* refuses the secret once the predecessor's copy is gone.
NamespaceError(w) ==
  /\ Starts(w)
  /\ ns' \in {ns, NamespaceCreated}
  /\ StatusUpdate(w, Dispatched(w), synced[w], ns # "terminating")
  /\ UNCHANGED <<deps, recreated, cache, seen, upsets>>

\* Create tolerates a Deployment of that name, and is refused by a namespace
\* that is gone or terminating.
CreateDeployment(s, i) ==
  IF ns = "active" /\ s \notin SlugsOf(deps)
  THEN deps \cup {[slug |-> s, student |-> LabelOf(i), ready |-> FALSE]}
  ELSE deps

Record(st, i, s) == [st EXCEPT !.slug = [j \in Instances |-> IF j = i THEN s ELSE st.slug[j]]]

\* One round of the loops over students and spares: find a slug, create the
\* Deployment and what belongs to it, note the slug in the status.  A student
\* keeps the slug when that fails, a spare does not.
ProvisionNext(w) ==
  LET i == next[w]
  IN  /\ pc[w] = "instances"
      /\ i \in Instances
      /\ \E s \in (IF Found(w, i) = {} THEN Generate(i) ELSE Found(w, i)), ok \in BOOLEAN :
           /\ loc' = IF ok \/ i \in Students THEN [loc EXCEPT ![w] = Record(@, i, s)] ELSE loc
           /\ IF ns = "active"
              THEN IF ok THEN deps' = CreateDeployment(s, i) /\ NoFault
                   ELSE deps' \in {deps, CreateDeployment(s, i)} /\ OneFault
              ELSE ~ok /\ UNCHANGED <<deps, faults>>
      /\ next' = [next EXCEPT ![w] = i + 1]
      /\ UNCHANGED <<status, ns, recreated, copies, pc, fresh, upsets>>

NeedsSlug(w) ==
  pc[w] = "instances" /\ next[w] \in Instances /\ Found(w, next[w]) = {}

\* No slug can be generated, which ends the handler.
SlugError(w) ==
  /\ NeedsSlug(w)
  /\ StatusUpdate(w, loc[w], fresh[w], TRUE)
  /\ UNCHANGED <<ns, deps, recreated, cache, seen, upsets>>

\* Mutants: nothing is cleaned up; the slugs of the cached status, not those
\* of the working copy, are taken for the valid ones.
CleansUpNothing(w) == {}
CleansUpByCache(w) == SlugsOf(seen[w]) \ validSlugs(cache[w])

\* The slugs cleanupOrphanedResources deletes the objects of.
OrphansSeen(w) == SlugsOf(seen[w]) \ validSlugs(loc[w])

\* A Delete that fails ends the clean-up, and is only logged.
cleanupOrphanedResources(w) ==
  /\ pc[w] = "instances"
  /\ next[w] \notin Instances
  /\ \E gone \in SUBSET OrphansSeen(w) :
       /\ deps' = {d \in deps : d.slug \notin gone}
       /\ IF gone = OrphansSeen(w) THEN NoFault ELSE OneFault
  /\ Goto(w, "health")
  /\ UNCHANGED <<status, ns, recreated, copies, loc, fresh, next, upsets>>

\* Mutant: more Deployments than instances will do.
HealthyAtLeast(ds) ==
  /\ \A d \in ds : d.ready
  /\ Cardinality(ds) >= NumStudents + NumSpares

\* Every Deployment of the list is ready, and there is one per instance.
allInstancesHealthy(ds) ==
  /\ \A d \in ds : d.ready
  /\ Cardinality(ds) = NumStudents + NumSpares

\* The end of the handler and of Reconcile.
HealthGate(w) ==
  /\ pc[w] = "health"
  /\ StatusUpdate(w,
       IF allInstancesHealthy(seen[w]) THEN [loc[w] EXCEPT !.phase = "Ready"] ELSE loc[w],
       fresh[w], FALSE)
  /\ UNCHANGED <<ns, deps, recreated, cache, seen, upsets>>

-----------------------------------------------------------------------------
(***************************************************************************)
(* The environment.                                                        *)
(***************************************************************************)

\* The watches deliver the latest version of the Exam, of the Deployments.
ExamSync(w) ==
  /\ ~synced[w]
  /\ cache'  = [cache EXCEPT ![w] = status]
  /\ synced' = [synced EXCEPT ![w] = TRUE]
  /\ UNCHANGED <<status, ns, deps, recreated, seen, pc, loc, fresh, next, bounds>>

DeploymentSync(w) ==
  /\ seen[w] # deps
  /\ seen' = [seen EXCEPT ![w] = deps]
  /\ UNCHANGED <<status, ns, deps, recreated, cache, synced, pc, loc, fresh,
                 next, bounds>>

DeploymentReady(d) ==
  /\ ns = "active"
  /\ ~d.ready
  /\ deps' = (deps \ {d}) \cup {[d EXCEPT !.ready = TRUE]}
  /\ UNCHANGED <<status, ns, recreated, copies, pc, loc, fresh, next, bounds>>

\* A terminating namespace loses its objects one by one, then goes away.
ContentGone(d) ==
  /\ ns = "terminating"
  /\ deps' = deps \ {d}
  /\ UNCHANGED <<status, ns, recreated, copies, pc, loc, fresh, next, bounds>>

NamespaceGone ==
  /\ ns = "terminating"
  /\ deps = {}
  /\ ns' = "absent"
  /\ UNCHANGED <<status, deps, recreated, copies, pc, loc, fresh, next, bounds>>

\* Somebody else writes the Exam: every copy goes stale.
EditExam ==
  /\ upsets < MaxUpsets
  /\ upsets' = upsets + 1
  /\ synced' = [v \in Workers |-> FALSE]
  /\ fresh'  = [v \in Workers |-> FALSE]
  /\ UNCHANGED <<status, ns, deps, recreated, cache, seen, pc, loc, next,
                 faults>>

\* The caches of a manager that starts are filled before it reconciles.
ListAfresh(w) ==
  /\ cache'  = [cache EXCEPT ![w] = status]
  /\ synced' = [synced EXCEPT ![w] = TRUE]
  /\ seen'   = [seen EXCEPT ![w] = deps]

\* A manager dies in the middle of a reconcile and starts again.
Crash(w) ==
  /\ pc[w] # "idle"
  /\ upsets < MaxUpsets
  /\ upsets' = upsets + 1
  /\ Return(w)
  /\ fresh' = [fresh EXCEPT ![w] = FALSE]
  /\ ListAfresh(w)
  /\ UNCHANGED <<status, ns, deps, recreated, faults>>

-----------------------------------------------------------------------------
\* What a predecessor of the same name with the same students leaves behind.
OldDeployments ==
  {[slug |-> i, student |-> LabelOf(i), ready |-> TRUE] : i \in Instances}

\* A new Exam that every manager has listed, and either no namespace or
\* the one of a deleted predecessor.
Init ==
  /\ status = NewStatus
  /\ \/ ns = "absent" /\ deps = {} /\ recreated = FALSE
     \/ Predecessor /\ ns = "terminating" /\ deps = OldDeployments /\ recreated = TRUE
  /\ cache = [w \in Workers |-> status]
  /\ synced = [w \in Workers |-> TRUE]
  /\ seen = [w \in Workers |-> deps]
  /\ pc = [w \in Workers |-> "idle"]
  /\ loc = [w \in Workers |-> NewStatus]
  /\ fresh = [w \in Workers |-> FALSE]
  /\ next = [w \in Workers |-> 1]
  /\ faults = 0 /\ upsets = 0

Reconcile(w) ==
  \/ CreateNamespace(w) \/ NamespaceError(w) \/ ProvisionNext(w) \/ SlugError(w)
  \/ cleanupOrphanedResources(w) \/ HealthGate(w)

Environment ==
  \/ NamespaceGone \/ EditExam
  \/ \E d \in deps : DeploymentReady(d) \/ ContentGone(d)
  \/ \E w \in Workers : ExamSync(w) \/ DeploymentSync(w) \/ Crash(w)

Next == Environment \/ \E w \in Workers : Reconcile(w)

Spec == Init /\ [][Next]_vars

\* The work queue asks for another reconcile until the Exam is Ready, watches
\* deliver, Deployments come up and namespaces go away.  Nothing is assumed
\* of failures, edits or restarts.
Fairness ==
  /\ \A w \in Workers : WF_vars(Reconcile(w)) /\ WF_vars(ExamSync(w)) /\ WF_vars(DeploymentSync(w))
  /\ WF_vars(\E d \in deps : DeploymentReady(d))
  /\ WF_vars(\E d \in deps : ContentGone(d))
  /\ WF_vars(NamespaceGone)

FairSpec == Spec /\ Fairness

-----------------------------------------------------------------------------
(***************************************************************************)
(* Properties.                                                             *)
(***************************************************************************)

\* Every variable has the type its comment gives it.
TypeOK ==
  /\ status \in Statuses
  /\ ns \in {"absent", "active", "terminating"}
  /\ deps \in SUBSET Deployments
  /\ recreated \in BOOLEAN
  /\ cache \in [Workers -> Statuses]
  /\ synced \in [Workers -> BOOLEAN]
  /\ seen \in [Workers -> SUBSET Deployments]
  /\ pc \in [Workers -> PCs]
  /\ loc \in [Workers -> Statuses]
  /\ fresh \in [Workers -> BOOLEAN]
  /\ next \in [Workers -> 1..(NumStudents + NumSpares + 1)]
  /\ faults \in 0..MaxFaults /\ upsets \in 0..MaxUpsets

\* Which slugs are in use for whom: by the label of a Deployment, or by the
\* instance of a status entry.
Marks(ds)   == {<<d.slug, d.student>> : d \in ds}
Entries(st) == {<<st.slug[i], LabelOf(i)>> : i \in {j \in Instances : st.slug[j] # NoSlug}}
Uses ==
  Marks(deps) \cup Entries(status)
    \cup UNION {Marks(seen[v]) \cup Entries(cache[v]) \cup Entries(loc[v]) : v \in Workers}

\* A slug belongs to one student, or to the spares: no Deployment, listed or
\* real, and no status, stored, cached or in flight, uses it for anybody else,
\* although reconciles go by lists and statuses that lag, and adopt Deployments
\* which another reconcile, or the predecessor's, created.
OneOwner == \A p, q \in Uses : p[1] = q[1] => p[2] = q[2]

\* A slug that was stored, and so may have been mailed as a URL, is never
\* replaced by another, although reconciles that start from stale caches choose
\* different ones: findOrGenerateSlug and findOrGenerateSpareSlug look at the status first, and
\* a stale status cannot be written.
SlugKept ==
  [][\A i \in Instances :
       status.slug[i] # NoSlug => status'.slug[i] = status.slug[i]]_vars

\* With one manager, no failed call and no predecessor, a Ready Exam has the
\* Deployment of every slug in its status, in a namespace that stays.
ReadyDeployed ==
  status.phase = "Ready" /\ faults = 0 /\ ~recreated
    => ns = "active" /\ validSlugs(status) \subseteq SlugsOf(deps)
       /\ NoSlug \notin {status.slug[i] : i \in Instances}

\* A reconcile needs a new slug and the model has none left.
OutOfSlugs ==
  Unused = {} /\ \E w \in Workers : NeedsSlug(w)

\* With at most one spare, provisioning ends: whatever failed, was cut off or was
\* listed late before, the Exam becomes Ready (unless reconciles keep running
\* out of the slugs of the model).  On the namespace of a predecessor it may
\* become so too early, by counting Deployments that are about to go.
ProvisioningEnds == <>(status.phase = "Ready") \/ []<>OutOfSlugs

\* The comment on the clean-up: it is to "Remove any resources whose slug
\* doesn't match the now-canonical set."  A Deployment whose slug the status of
\* a Ready Exam names is never deleted.
CanonicalKept ==
  [][status.phase = "Ready" /\ ns' = "active"
       => SlugsOf(deps) \cap validSlugs(status) \subseteq SlugsOf(deps')]_vars

\* docs/crd-reference.md, ProvisioningDegraded: "the controller retries on
\* subsequent reconciliations."  A failed instance does not keep the Exam from
\* becoming Ready.
RetriesSucceed == ProvisioningEnds
=============================================================================
