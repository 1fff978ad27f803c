# TLA+ verification of the exam controller

The exam controller is a Kubernetes operator. One `Exam` resource describes an
exam: students, spare instances, a template, an unlock time, a duration. The
controller moves the Exam through the phases Pending, Provisioning, Ready,
Unlocked, Locked and TearingDown. On the way it creates one Deployment and
Service per student and spare, mails each student a URL, opens Ingresses and
network policies at the unlock time, closes them at the lock time, and deletes
the exam's namespace when the retention is over.

This directory holds a model of that program, the TLC runs that check it on
small instances and the TLAPS proofs about it for any instance.
`PROJECT.json` maps every definition to the source lines it stands for.

## 1. Inventory

| Component | State | Operations | What makes it correct |
|---|---|---|---|
| Schedule and phase machine (`exam_controller.go`: `computeSchedule`, `determineDesiredPhase`) | none, a function of spec, phase and time | | moves forward only, never before the time of the spec |
| Reconcile loop (`Reconcile`) | a working copy of the Exam; the informer cache; the stored Exam | Get, add finalizer, dispatch, status write | stale copies and overlapping reconciles do no harm that the conflict check would not reveal in time |
| Work queue (what `Reconcile` returns, `SetupWithManager`, `requestsForOwnedObject`) | one item per manager, timers, undelivered events | requeue, watch, retry | no wake-up is lost; every exam comes to its end |
| Provisioning (`reconcileProvisioning`, `provisionInstance`, `cleanupOrphanedResources`, `allInstancesHealthy`) | namespace, Deployments, Services, policies; instance phases in the status | four Creates per instance, clean-up, health gate, spares notice | Ready only with the instances there; retries repair partial failures |
| Mail (`reconcileReady`, `sendNextPendingEmail`, the instructor notices, `RetrySender`) | mail status per student, three conditions; what the mail server took | one mail per reconcile | the status is true of what was delivered; nobody is forgotten |
| Network policies and Ingresses (`enforcePolicies`, `deleteIngresses`) | policies and Ingresses | create or delete per instance, errors logged only | no route before unlock or after lock |
| Dry run (`runDryRun`, `internal/smoketest`) | three conditions | health checks and one negative check | fails only when an instance is at fault |
| Teardown and finalizer (`reconcileTeardown`, the deletion branch of `Reconcile`) | namespace, finalizer | delete namespace, remove finalizer | a deleted Exam leaves no namespace; a live one keeps it |
| Validating webhook (`exam_webhook.go`) | none | admits creations and edits, judged by the stored phase | an accepted edit cannot contradict what was already done |
| Slugs (`internal/slug`, `findOrGenerateSlug`, `findOrGenerateSpareSlug`) | slugs in the status and on Deployments | find, generate or adopt | one slug per student and spare, and never another one once it is stored |
| Metrics, provider selection, `cmd/main.go`, generated code, manifests | | | not modelled |

How they interact. The reconcile loop calls everything else in one goroutine
per manager. All shared state is at the API server: the stored Exam, guarded by
optimistic concurrency (`resourceVersion`), and the objects in the exam
namespace, which are guarded by nothing. The instructor writes the spec through
the webhook at any time. The mail server is told to send and cannot be asked
what it did. The informer cache lags behind the API server.

What is hard:

- the copy a reconcile works on may be stale, and effects (mail, routes, the
  deletion of the namespace) happen *before* the status write that would find
  this out;
- leader election is off by default (`cmd/main.go`), so an old and a new
  manager may reconcile the same Exam at once;
- any of the calls in a handler may fail, and what happens then differs from
  call to call: return, log and go on, or record in the status;
- a restart between an effect and the status write repeats the effect;
- the webhook judges an edit by the stored phase, while a reconcile may already
  be acting on the next one;
- `RequeueAfter: 0` asks for nothing, so several handlers depend on the event of
  their own status write to be woken again;
- slugs are random, and a reconcile that does not yet see what another one
  created generates a second slug for the same student.

`PROJECT.json` lists these as 38 hazards, each at its line, with the properties
that cover it or the reason why none does.

## 2. The modules

| Module | Contents |
|---|---|
| `ExamSchedule` | the times of a spec and `determineDesiredPhase`, one operator per case |
| `ExamWebhook` | `validateFields`, `ValidateCreate`, `ValidateUpdate` as predicates |
| `ExamController` | the reconciler against API server, mail server, instructor and time; safety properties |
| `ExamContract` | the abstract specification: what the stored Exam and the routes may do |
| `ExamInvariant` | the inductive invariants `IInv`, `MailInv` and, for one manager, `SoloInv` |
| `ExamClaims` | statements of the documents that the code does not keep |
| `ExamQueue` | the same reconciler driven by its work queue; wake-ups, convergence, liveness |
| `ExamQueueInvariant` | the inductive invariant `QueueInv` |
| `ExamProvisioning` | which slug each student and spare gets, and when provisioning ends |
| `ExamProvisioningInvariant` | the inductive invariant `ReadyInv` |
| `MCExamController`, `MCExamQueue`, `MCExamProvisioning` | constants for TLC |
| `ExamTypeProofs`, `ExamSafetyProofs`, `ExamRefinementProofs`, `ExamMailProofs`, `ExamManagerProofs` | the theorems about `ExamController` |
| `ExamQueueProofs`, `ExamConvergenceProofs` | the theorems about `ExamQueue` |
| `ExamProvisioningProofs` | the theorems about `ExamProvisioning` |

`ExamWebhook` extends `ExamSchedule`; `ExamController` and `ExamContract` extend
`ExamWebhook`; `ExamController` instantiates `ExamContract` as `Contract`;
`ExamInvariant`, `ExamClaims` and `MCExamController` extend `ExamController` in
this order. `ExamQueue` extends `ExamInvariant` and composes every action of
`ExamController` with what it does to the queue; `MCExamQueue` joins
`ExamQueueInvariant`, which extends it, with `MCExamController`.
`ExamProvisioning` stands alone: it refines what `ExamController` takes for
granted, that an instance is known by its index, and leaves out every other
phase. The proof modules extend the invariants they are about and each other in
the order of the table.

### State and actions of ExamController

`exam` is the stored resource: spec, finalizer, deletion mark and the parts of
the status the code reads back. `ns`, `objs` and `ready` are the exam's
namespace, the objects in it and the instances with a ready replica. `mailbox`
counts deliveries. Each worker is a manager process with a cache (`cache`,
`synced`) and, while it reconciles, a working copy (`loc`, `fresh`), a place in
the code (`pc`), the time it read (`wnow`) and the rest of the loop it is in
(`todo`). `clock` is the time in ticks.

An action is one API call or the stretch of code between two. Four make several
calls in one step: `provisionInstance` the four Creates of an instance, of which
only the first few may succeed; `enforcePolicies` the Creates and Deletes of one
instance, each of which may fail on its own; `deleteIngresses` the List and the
Deletes; and `FinishProvisioning` the clean-up, the health gate and the spares
notice. That nobody else's step comes between these calls is an abstraction.


| Action | Code |
|---|---|
| `GetNothing`, `Get`, `AddFinalizer`, `Decide`, `StatusUpdate` | `Reconcile` |
| `CreateNamespace`, `provisionInstance`, `SlugError`, `FinishProvisioning` | `reconcileProvisioning` |
| `sendNextPendingEmail`, `ReadyContinue` | `reconcileReady`, `runDryRun` |
| `enforcePolicies`, one step per instance | `enforcePolicies`, called from Ready, Unlocked and Locked |
| `NotifyInstructor`, `deleteIngresses` | the rest of `reconcileUnlock` and `reconcileLocked` |
| `reconcileTeardown`, `FinalizeDelete`, `RemoveFinalizer` | teardown and the deletion branch |
| `EditSpec`, `DeleteExam` | the instructor, behind the webhook |
| `Drift` | somebody deletes a policy or an Ingress, which `enforcePolicies` is to put back |
| `Tick`, `InformerSync`, `Crash`, `DeploymentReady`, `NamespaceGone` | time, the watch, restarts, the cluster |

`pc = "status"` is reached by every handler, also a failing one, because
`Reconcile` writes the status in either case. A mail is sent with
`RetrySender`'s attempts: up to four, any of which may be delivered although it is
reported as failed, so that one send may deliver several times, or once and still
be recorded as failed.

### State and actions of ExamQueue

Per manager: `queue`, when its one item is due (a time, `Now`, `Never`, or
`Paused` while it waits for `sendInterval`); `result`, what the reconcile in
flight will return; `event`, whether an event of an owned object is undelivered;
`paced`, whether the last student mail is less than `sendInterval` ago.

| Action | Code |
|---|---|
| `Start` | the worker takes the item, `Get` |
| `Dispatch`, `Wait`, `Poll`, `Pace` | the steps that settle `RequeueAfter`: the dispatch, the wake-ups of `reconcileReady`, the poll of `reconcileProvisioning`, the pause after a mail |
| `HandlerError`, `Work` | handler steps that end with an error, and all others |
| `Finish` | the last write; an error or an event in the meantime makes the item due at once |
| `WatchExam`, `WatchOwned` | the watches of `SetupWithManager` |
| `PauseOver`, `Restart`, `Outside` | the end of a pause, a new manager process, everybody else |

### State and actions of ExamProvisioning

`status` is the stored phase and the slug of each instance. `deps` are the
Deployments of the namespace `ns`: slug, student label, readiness. Each worker has
a cache of the status (`cache`, `synced`), a cache of the Deployments (`seen`), a
working copy (`loc`, `fresh`) and a place in the loops (`pc`, `next`).
`recreated` says that the Exam followed a deleted one of its name, whose namespace
was still terminating.

| Action | Code |
|---|---|
| `CreateNamespace`, `NamespaceError` | the start of `reconcileProvisioning` |
| `ProvisionNext`, `SlugError` | one round of the loops over students and spares, with `findOrGenerateSlug` and `findOrGenerateSpareSlug` |
| `cleanupOrphanedResources` | the clean-up, which may stop at a failing Delete |
| `HealthGate` | `allInstancesHealthy` and the status write |
| `ExamSync`, `DeploymentSync`, `DeploymentReady`, `ContentGone`, `NamespaceGone`, `EditExam`, `Crash` | the watches, the cluster, other writers, restarts |

### Abstractions

- A `resourceVersion` is reduced to whether a copy is still the latest: `synced`
  and `fresh`. A write that changes nothing creates no version.
- In `ExamController` an instance is its index, students first, and generating a
  slug may fail; so student ids are distinct and there is at most one spare
  (`ControllerAssumption`). The webhook rejects neither duplicate ids nor more
  spares. What more spares lead to is checked in `ExamProvisioning`; duplicate
  ids are a hazard without a property.
- All specs of an instance of the model have the same number of students and
  spares; the webhook freezes both after Pending, and the code indexes one by
  the other.
- Durations are ticks and multipliers are hundredths. A tick is `TickSeconds`
  seconds, which only the webhook's mail budget needs.
- Conditions are kept as the set of types that are true; messages, times, URLs
  and metrics are left out. The status times are computed from the spec of the
  copy, as in the code, which sets them in the same reconcile that uses them.
- A failed call has no effect, except that a mail reported as failed may have
  been delivered and the namespace may have been created when copying the TLS
  secret failed. A write that landed while its answer was lost changes the
  state as a success does. `RetrySender`'s attempts are one step, with every
  number of deliveries they allow up to `MailCap`.
- Lists come from caches: `deleteIngresses` may miss Ingresses, the clean-up
  may miss orphans, and the health gate may see Deployments the clean-up has just
  deleted, or miss new ones. None of this counts as a failed call. In `ExamQueue`
  the list of a manager to which every event is delivered is the latest.
- Two writes nobody reads back are left out: the condition ProvisioningDegraded,
  set after both loops of `reconcileProvisioning`, and the time of entering
  TearingDown, which every later reconcile of that phase writes again.
- A replica that became ready stays ready.
- In `ExamController` a worker may start a reconcile at any time the cache holds
  an Exam. This includes every schedule the work queue produces
  (`QueueImplementsController`).
- In `ExamQueue` the backoff after an error and the poll of provisioning are
  shorter than a tick, so their items are due at once. A timer goes off at
  the time it was computed for. The events of owned objects are one flag per
  manager: the queue would merge them anyway.
- There is one Exam object. In `ExamController` it is not created again after
  deletion; `ExamProvisioning` may start on the namespace of a predecessor.
- In `ExamProvisioning` a slug is a number, because the code sorts the slugs of
  spares; a generated slug is one nobody uses, so that two random slugs never
  collide. `MaxSlugs` bounds the slugs in use at a time, and liveness is claimed
  only where the model does not keep running out of them. A Deployment stands
  for all objects of an instance.

## 3. The runs

`MCExamController` counts the time from when the Exam is applied. The base spec
provisions at 0, mails at 1, unlocks at 2, locks at 3 and is torn down at 4.
`Later` is a tick later, so that there is a Pending phase to wait in; `Soon` is a
tick earlier and `Now` two ticks, so that the later phases are reached under a
small clock. `single` starts with the base spec, with a longer duration, or with a
later unlock and a dry run, and may be edited from one to the other. `MailCap` only
bounds a counter.

| Run | Instance | Properties |
|---|---|---|
| `single` | `Spec`; one manager, a student and a spare, three specs, clock to 4, one fault or restart (`OneMishap`), one edit | `TypeOK`, `NoEarlyAccess`, `LockedNotEarly`, `IInv`, `MailInv`, `SoloInv`, `ImplementsContract`, `StaysClosed` |
| `queue` | `FairQueueSpec`; one manager, a student, the `Later` spec, clock to 5, one fault, one restart | `MailLedger`, `NoLostWakeup`, `Converged`, `QueueInv`, `SoloInv`, `NoLeak`, `LockedClosed`, `UnlockOpens`, `Completes` |
| `managers` | `QueueSpec`; two managers, a student, the `Now` spec, clock to 2 (teardown), one restart | `NamespaceKept`, `NoLostWakeup`, `Converged`, `QueueInv`, `PhaseMonotone` |
| `provisioning` | `FairSpec`; one manager, a student and a spare, three slugs, with or without a predecessor, one fault, one edit or restart | `TypeOK`, `OneOwner`, `ReadyInv`, `ReadyDeployed`, `SlugKept`, `ProvisioningEnds` |

Deletion of the Exam and lagging caches are possible in the first three. Their
clocks reach the last deadline of the spec the exam starts with (in `single`, of
the base spec), so every phase is entered. One fault, edit or restart is enough for
each property to be broken by a plausible slip in the code (the mutants), two
managers are the smallest number that overlap, a student and a spare are two
entries for the loops, and two students, in the `pacing` run below, are the
smallest number with a pause between mails. A failure followed or preceded by a
restart is left to `queue`, where nothing is edited and there is one entry;
`single` has edits and two entries and stops exploring at the second mishap (its
state constraint `OneMishap`): together they would make a run too large. `managers` starts with an exam whose unlock time has come, which the webhook
admits and which keeps the run small. It uses the symmetry of the managers:
`Workers` is only ever quantified over. In `provisioning` three slugs are one more
than the instances need, so that an orphan can exist beside a full set. `OneOwner`
and `SlugKept` are checked there with one manager, whose reconciles disagree because
its caches lag.

For more of everything, see the theorems of section 4: every safety property of
these runs is proved for any number of students, specs, failures, edits and
restarts, and for any number of managers unless it speaks of one.

Deadlock is checked in `single`, where a reconcile that finds nothing to do is a
step (`GetNothing`). It is not in the runs of `ExamQueue` and
`ExamProvisioning`: an exam that is torn down or Ready has nothing left to do,
and the queue is empty.

What the properties say:

- `NoEarlyAccess`: no Ingress and no admitting policy exists before the unlock
  time now stored, although `reconcileUnlock` acts on a copy.
- `LockedNotEarly`: an exam stored as Locked is past the lock time of the
  stored spec, although an extension may be accepted while the lock is decided.
- `NamespaceKept`: a Ready or Unlocked exam nobody deletes has its namespace.
- `MailLedger`: Sent means delivered; the notified conditions mean the notice
  was delivered; with AllEmailsSent no student is Pending.
- `UnlockOpens`: with one manager, no failed call and no object deleted by others,
  the status first says Unlocked only when every route is there.
- `LockedClosed`: with one manager, no failed call and no object deleted by others,
  an exam stored as Locked has no policy left that admits anybody. It says nothing
  of Ingresses, because the List of `deleteIngresses` may lag behind an unlock just
  before, with no call failing; nor of a failing Delete. For both `Converged` says
  that what is left goes as soon as the exam is at rest.
- `StaysClosed`: with one manager no route is opened once the exam is stored as
  Locked or TearingDown, whatever failed and however stale the copy is.
- `NoLeak`: with one manager an Exam that is gone left no live namespace.
- `PhaseMonotone`: no step moves the stored phase back.
- `ImplementsContract`: access, locking and the phases together, as a refinement
  of `ExamContract`. The namespace is not part of the contract.
- `NoLostWakeup`: a manager at rest has a timer no later than the next thing the
  Exam waits for, although the reconcile that turns an Exam Ready asks for none
  and one that computes its wake-up time as now asks for none either.
- `Converged`: when all managers are at rest, the policies and routes are those of
  the stored phase, as long as no more went wrong than `Tolerated`: any overlap of
  managers; or, with one manager, one failed call or deletion by somebody else; or,
  with one manager, any edits the webhook accepts. With two of these it does not
  hold: an edit whose reconcile fails to create a route uses up the event, and the
  route is missing until the lock timer, because `enforcePolicies` only logs its
  errors.
- `Completes`: every exam ends, and ends without its namespace: gone when it was
  deleted, TearingDown otherwise, whatever call failed and wherever a restart cut
  a reconcile off.
- `OneOwner`: a slug is used for one student only, or for the spares, by the
  Deployments, the lists, the stored status, the caches and the working copies.
- `SlugKept`: a stored slug, which may have been mailed, is never replaced, whatever
  a reconcile from stale caches chose.
- `ReadyDeployed`: with one manager, no failed call and no predecessor, a Ready
  exam has the Deployment of every slug it stores.
- `ProvisioningEnds`: with at most one spare, the exam becomes Ready, whatever
  failed, was cut off or was listed late before. On the namespace of a predecessor
  it may become so too early, by Deployments that are about to go.
- `IInv`, `MailInv`, `SoloInv`, `QueueInv`, `ReadyInv`: the inductive invariants,
  which say what a manager knows at every point of its reconcile (section 4). The
  runs check them on the instances above; each is broken by a slip in the code.

### Fairness

Weak fairness throughout, and only where the code or its platform keeps going by
itself: a manager takes the items of its queue and goes on with the reconcile it is
in (the one worker goroutine of controller-runtime loops over the queue); watches deliver
(an informer lists again when its watch breaks); a pause ends; time passes;
Deployments come up and terminating namespaces go away. The last two are
promises of the cluster, not of this code: without them no exam would become
Ready and none would leave. In `ExamProvisioning`, `Reconcile` is fair because an
exam in Provisioning is polled every 10 seconds, errors are retried and a
manager that restarts reconciles everything. Nothing is assumed of
edits, deletions, drift, failures and restarts: they may or may not happen.

### Disagreements between documents and code

Eight runs refute what a document or a comment says; each is a finding in
`PROJECT.json`.

- `resend`: a restart between mail and status write mails a student twice,
  while the README says that the controller will not re-send emails.
  `docs/operations.md` (line 618) promises less, that mails already marked as
  Sent are not sent again, and that the code keeps.
- `retention`: teardown decided from a spec whose retention has since been
  extended deletes the namespace of an exam that stays Locked.
- `degraded`: a Service that could not be created leaves a Failed instance in a
  Ready exam; the health gate counts Deployments only, and nothing retries.
- `dry_run`: the dry run's health checks use the URLs it also wants blocked,
  from the same place; where policies are enforced it always fails. `EnforcingCNI`
  is TRUE in this run; that the controller is admitted by no policy is read from
  `internal/network`.
- `late_ready`: instances that become healthy at the unlock time take the exam
  from Ready to Unlocked with no student mailed.
- `spare`: with two spares, a failure of the first leaves a status entry without
  a slug; the retry finds the other spare's Deployment at its position and takes
  that slug. The count of the health gate never matches again, and the exam stays in
  Provisioning though nothing fails any more. This is a bug, not only a
  disagreement.
- `cleanup`: the clean-up of a second manager, which is going to lose its status
  write, deletes the Deployment the stored status of a Ready exam names.
- `pacing`: the status write that records a mail is an event that overtakes the
  `RequeueAfter` of `sendInterval`, so the next student is mailed at once.

## 4. The proofs

| Module | Theorem | Statement | Hypothesis |
|---|---|---|---|
| `ExamTypeProofs` | `TypeCorrect` | `Spec => []TypeOK` | |
| `ExamSafetyProofs` | `Invariance` | `Spec => []IInv` | |
| | `Access` | `Spec => []NoEarlyAccess` | webhook |
| | `Locking` | `Spec => []LockedNotEarly` | webhook |
| | `Namespace` | `Spec => []NamespaceKept` | |
| `ExamRefinementProofs` | `Refinement` | `Spec => ImplementsContract` | webhook |
| | `Forward` | `Spec => PhaseMonotone` | |
| `ExamMailProofs` | `MailInvariance` | `Spec => []MailInv` | |
| | `Mail` | `Spec => []MailLedger` | |
| `ExamManagerProofs` | `Entries` | `Spec => []EntryInv` | |
| | `Alone` | `Spec => []SoloInv` | one manager |
| | `Released` | `Spec => []NoLeak` | one manager |
| | `Closed` | `Spec => []LockedClosed` | one manager |
| | `Sealed` | `Spec => StaysClosed` | one manager |
| | `Opened` | `Spec => UnlockOpens` | one manager |
| `ExamQueueProofs` | `QueueImplementsController` | `QueueSpec => Spec` | |
| | `QueueSafe` | `QueueSpec` keeps `NoEarlyAccess`, `LockedNotEarly`, `NamespaceKept`, `MailLedger` | webhook |
| | `QueueAlone` | `QueueSpec` keeps `NoLeak`, `LockedClosed`, `StaysClosed`, `UnlockOpens` | one manager |
| | `Woken` | `QueueSpec => []NoLostWakeup` | |
| `ExamConvergenceProofs` | `QueueInvariance` | `QueueSpec => []QueueInv` | |
| | `Convergence` | `QueueSpec => []Converged` | |
| `ExamProvisioningProofs` | `TypeCorrect` | `Spec => []TypeOK` | |
| | `SlugsStay` | `Spec => SlugKept` | |
| | `Owners` | `Spec => []OneOwner` | |
| | `ReadyInvariance` | `Spec => []ReadyInv` | one manager, at most one spare |
| | `Deployed` | `Spec => []ReadyDeployed` | one manager, at most one spare |

They hold for any set of managers that is not empty, any number of students, any
specs whose durations are natural numbers, any bounds, and with every fault, edit,
restart and deletion the actions allow. The assumptions are `DefaultsAssumption`,
`ControllerAssumption` and `SpecsAssumption`, for provisioning
`ProvisioningAssumption` (any number of spares), which TLC evaluates in the runs.
The hypotheses are part of the theorems. Without the webhook an instructor may
postpone an exam that is already open, and the statements that need it fail. With
two managers the statements about one fail too: a late reconcile of the other
creates the namespace or a route again, or cleans up by its own copy. With
two spares both have the same label, and one may take the other's slug.

`IInv`. None of the safety invariants is inductive: a worker may hold any copy.
`IInv` says what a copy, however stale, still tells.

- `CacheInv`: a cached copy is a version the Exam had. Its phase is not ahead of
  the stored one, and once it has left Pending its unlock time is the stored
  one, where the webhook froze it. The copy's phase matters here, not the
  stored phase: an exam may be postponed while a copy of it from Pending is
  being reconciled.
- `FreshInv`: a copy that will pass the conflict check has the stored spec, and
  its phase may follow the stored phase at this time.
- `InFlightInv`: a handler running for Unlocked or later knows that,
  behind the webhook, the stored unlock time is past, and that the stored phase is at least Ready; one running
  for TearingDown knows the stored phase is at least Locked.
- `HandlerPhaseInv`: which phase the working copy has in which handler.
- `StoredInv`: what the stored phase says about clock, routes and namespace.

The step proofs take one action at a time: actions that write the Exam use
`FreshInv`, actions that touch the cluster use `InFlightInv`, and the edit uses
the webhook's predicates. `Refinement` needs only `IInv`: a successful status
write is `Advance` because of `FreshInv`, an instance in `enforcePolicies` is
`OpenRoutes` or `CloseRoutes` because of `InFlightInv`, everything else stutters
or is the contract's own step. `Forward` needs
no webhook: a copy that passes the conflict check has a phase that may follow the
stored one (`FreshInv`).

`MailInv` says of the stored Exam, every cache and every working copy that its
mail status is true of the mailbox (`CopyMail`). The mailbox only grows, so a
stale copy stays true. That AllEmailsSent and Pending exclude each other needs
two more facts: AllEmailsSent is only set past provisioning, which sets
mails to Pending, and provisioning leaves no student without an entry, which is
`LoopMail`. The one copy that is exempt is the one whose finalizer is being
removed: `reconcileTeardown` has set its phase, and it is never stored.

`QueueImplementsController` takes one action of `ExamQueue` at a time: each is an
action of `ExamController`, or changes the queue only. `QueueSafe` and `QueueAlone` then
follow from the theorems above. The refinement is of `Spec` without fairness, which
`ExamController` does not state.

`SoloInv`. With one manager nobody else makes API calls for the Exam while a reconcile
runs: its copy is stale only because the instructor wrote or the cache lagged
behind its own last write. So more can be said of each place in the code.

- `ReleaseInv`, for `NoLeak`: before the finalizer is on the Exam, and after it is
  gone, no reconcile is in a handler and none that starts from the cache will get to
  one, because it adds the finalizer first or finds the Exam deleted. Only this
  shows that nobody creates the namespace again.
- `EntryInv`, for any number of managers: from Ready on, all copies list the same
  instances, and routes exist only for these. So a loop over the entries of a
  working copy, stale or not, visits every route there is.
- `LockFinal`, `ClosingInv` for `LockedClosed`: what has been locked is locked by
  every reconcile that runs or will start, and the loop of `reconcileLocked` leaves
  no admitting policy behind the instance it is at. `StaysClosed` needs `LockFinal`
  only.
- `LatestCopy`, `OpeningInv` for `UnlockOpens`: the same of `reconcileUnlock`, but
  only for a copy that can still be written.

`QueueInv`. `WakeInv` is behind `NoLostWakeup`: a reconcile that will change
nothing has a result in time for what the Exam waits for, once its handler has
settled it (`Answered`); any other one is followed by the event of its own write, by
an error or by a conflict, and each of these puts the item back at once. This is why
`RequeueAfter: 0` does no harm. The other parts are behind `Converged`:

- `UneditedInv`: an Exam nobody edits keeps its times although no webhook guards
  them; so, with several managers, its namespace is the one it always had until the
  retention is over.
- `PlacedInv`: what an undisturbed reconcile of the latest version has visited is
  in place, and everything is once the manager is at rest. A manager whose objects
  somebody changed has an undelivered event and is not at rest.
- `CalmInv`: up to the first failure, with one manager, a reconcile that keeps the
  phase finds everything in place already (`SteadyInv`). So a call that fails in it
  leaves nothing undone, and one that fails in a reconcile that changes the phase is
  made up for by the reconcile that the status write triggers. That is why one
  failure is tolerated although `enforcePolicies` does not report it, and two
  are not. That Unlocked routes stay complete (`StaysOpen`) and policies are
  there from Ready on (`BaseInv`) is needed for it.

`SlugsStay`. That a stored slug is never replaced is not inductive either: a status
write stores a working copy. `CopyInv` says that a synced cache is the stored
status and that a copy that will pass the conflict check has every slug the
stored status has. `ProvisionNext` keeps the latter because both searches return the
slug of the copy when there is one.

`Owners`. `OneOwner` is inductive because it speaks of every place a slug may be
taken from: a slug that is found is in use for the same label already, and one that
is generated is in use for nobody.

`ReadyInv`. When the health gate opens, every slug of the copy has its Deployment;
the difficulty is what a reconcile from a stale cache does afterwards, whose
clean-up goes by its own copy. `KnownInv` says that where the cached status has no
slug for an instance, a Deployment that is listed at all is listed with all its
rivals, and that the slug of the copy is one of them. `Even` says that a list has a
Deployment for every instance or no two for one; so a list with the right
count has exactly one each (`CountedOnce`, from the theorems on injections and
surjections of finite sets). From both, once the Exam is Ready, the only slug a late
reconcile can find is the stored one (`StoredReadyInv`), and it deletes nothing
that matters. `FirstRound` is what keeps a list from having two Deployments for one
instance and none for another: before the loops have gone round once, only a
restart cuts a reconcile off, and a manager that restarts lists everything.

Only model-checked: the liveness properties `Completes` and `ProvisioningEnds`.
Liveness and `ENABLED` are out of the prover's reach; so is induction over data,
which these proofs do not need.

## 5. Not modelled, and the plan

Not modelled:

- metrics: counters and gauges that nothing reads back;
- provider selection: one question at start-up, and the two providers differ only
  in the contents of the policies. How a Cilium agent ranks deny and allow
  rules is not this repository's code;
- start-up: flags and wiring. What matters of it is that leader election is off
  unless a flag asks for it, as the shipped manifests do;
- generated code and manifests;
- the text of mails, the SMTP dialogue, the contents of the TLS secret, response
  codes of the dry run;
- collisions of two random slugs of eight characters.

Six hazards have no property. Duplicate student ids share a slug, and the health
gate waits for ever: the models take ids to be distinct. With two managers a
namespace can be created again after the finalizer is gone; `NoLeak` and
`Completes` are therefore stated for one manager. Without the webhook the student
list can be shortened under `sendNextPendingEmail`; the models fix its length.
The transition counters are metrics. And a retry of `RetrySender` may deliver a mail
twice when an answer is lost: delivery at least once is what a retry gives.
An Exam created again while its predecessor's namespace terminates becomes Ready by
counting Deployments that are about to go, and nothing provisions a Ready exam
again; `ExamProvisioning` has this behaviour, and `ReadyDeployed` excludes it.

Every safety property of the passing runs is proved. Left to do:

1. `ReadyDeployed` for more spares where no call failed: it needs an owner that
   tells spares apart, which the labels do not give.
2. What two managers still guarantee where the theorems speak of one: that a
   leaked namespace or a route reopened after the lock needs a reconcile
   that was in flight at that moment.
