--------------------------- MODULE ExamController ---------------------------
(***************************************************************************)
(* The reconciler of internal/controller/exam_controller.go working on one *)
(* Exam, against the API server, the mail server and the instructor who    *)
(* edits or deletes the Exam while reconciles are in flight.               *)
(*                                                                         *)
(* A worker is a manager process; each runs one Reconcile at a time        *)
(* (MaxConcurrentReconciles is 1), but two managers overlap when leader    *)
(* election is off, its default, or when an old leader finishes late.      *)
(* Reconcile reads the Exam from the manager's informer cache, works on    *)
(* that copy, and writes the copy's status back at the end.  A step of the *)
(* model is one API call, one stretch of code between two, or one round of *)
(* a loop with the calls it makes.                                         *)
(*                                                                         *)
(* Abstractions.  A resourceVersion is reduced to whether a copy is still  *)
(* the latest version (synced for caches, fresh for working copies), which *)
(* is all that optimistic concurrency looks at.  An instance is its index: *)
(* students first, then spares; how slugs are found is not modelled here,  *)
(* so student ids are distinct and there is at most one spare (a failed    *)
(* spare before another one leaves a status entry without a slug).         *)
(* The status times are functions of the spec the copy carries and are not *)
(* stored.  A call that fails costs one of MaxFaults; a List that misses   *)
(* an object, because the cache it reads lags, costs nothing.  A worker    *)
(* may reconcile at any time; ExamQueue adds when the work queue makes it. *)
(***************************************************************************)
EXTENDS ExamWebhook, FiniteSets

CONSTANTS
  Workers,          \* manager processes
  NumStudents,      \* len(spec.students)
  NumSpares,        \* spec.spares
  Specs,            \* the specs the instructor may apply
  WebhookEnabled,   \* whether the validating webhook is deployed
  EnforcingCNI,     \* whether the cluster's network enforces policies
  MailCap,          \* bound: deliveries of one mail are counted up to this
  MaxClock,         \* bound: the last tick
  MaxFaults,        \* bound: failed calls, and objects deleted by others
  MaxEdits,         \* bound: spec edits
  MaxCrashes        \* bound: manager restarts

\* A field the code reads as a non-negative duration or count.
NatFields == {"unlock", "duration", "timeMultiplier", "provisionBefore",
              "emailBefore", "spares"}

ASSUME ControllerAssumption ==
  /\ Workers # {}
  /\ NumStudents \in Nat \ {0}
  /\ NumSpares \in 0..1
  /\ MailCap \in Nat \ {0}
  /\ MaxClock \in Nat /\ MaxFaults \in Nat /\ MaxEdits \in Nat /\ MaxCrashes \in Nat
  /\ WebhookEnabled \in BOOLEAN
  /\ EnforcingCNI \in BOOLEAN

ASSUME SpecsAssumption ==
  /\ Specs # {}
  /\ \A s \in Specs :
       /\ \A f \in NatFields : s[f] \in Nat
       /\ s.retention \in Int
       /\ s.dryRun \in Nat \cup {NoDryRun}
       /\ Len(s.students) = NumStudents
       /\ s.spares = NumSpares

Students  == 1..NumStudents
Instances == 1..(NumStudents + NumSpares)

\* The objects provisionInstance and enforcePolicies create for an instance.
ProvisionedKinds == <<"deployment", "service", "denyAll", "egressAllow">>
AccessKinds      == {"ingress", "ingressAllow"}
Kinds   == {"deployment", "service", "denyAll", "egressAllow"} \cup AccessKinds
Objects == Kinds \X Instances

\* Where a reconcile is: "idle" is none in flight, the others name the code
\* that runs next.
PCs == {"idle", "addFinalizer", "decide", "namespace", "provision", "ready",
        "enforce", "deleteIngresses", "notify", "teardown", "status",
        "finalizeDelete", "removeFinalizer"}

InstancePhases == {"none", "Provisioned", "Unlocked", "Locked", "Failed"}
EmailStatuses  == {"none", "Pending", "Sent", "Failed"}

Conditions ==
  {"Provisioned", "AllEmailsSent", "DryRunComplete", "DryRunFailed",
   "NetworkPolicyEnforced", "InstructorNotifiedUnlock", "InstructorNotifiedLock"}

\* A version of the Exam resource.  present is FALSE once it is gone.
ExamObjects ==
  [present: BOOLEAN, deleting: BOOLEAN, finalizer: BOOLEAN, spec: Specs,
   phase: ExamPhases, inst: [Instances -> InstancePhases],
   mail: [Students -> EmailStatuses], conds: SUBSET Conditions]

NewExam(s) ==
  [present |-> TRUE, deleting |-> FALSE, finalizer |-> FALSE, spec |-> s,
   phase |-> "Unset", inst |-> [i \in Instances |-> "none"],
   mail |-> [i \in Students |-> "none"], conds |-> {}]

\* What the mail server can be handed: a URL per student, three notices to
\* the instructor.
Mails == ({"url"} \X Students) \cup ({"spares", "unlock", "lock"} \X {0})

VARIABLES
  clock,      \* the current tick
  exam,       \* the Exam as the API server stores it
  ns,         \* the exam namespace: "absent", "active" or "terminating"
  objs,       \* objects in that namespace
  ready,      \* instances whose Deployment has a ready replica
  mailbox,    \* how often each mail was delivered
  cache,      \* per worker: the Exam in the informer cache
  synced,     \* per worker: is cache the latest version
  pc,         \* per worker: where its reconcile is
  loc,        \* per worker: the copy of the Exam that Reconcile works on
  fresh,      \* per worker: is loc based on the latest version
  wnow,       \* per worker: the time Reconcile read, while reconcileReady uses it
  todo,       \* per worker: instances the current loop has still to visit
  faults, edits, crashes      \* used-up bounds

cluster == <<ns, objs, ready>>
worker  == <<pc, loc, fresh, wnow, todo>>
vars    == <<clock, exam, ns, objs, ready, mailbox, cache, synced, pc, loc,
             fresh, wnow, todo, faults, edits, crashes>>

\* loc of a worker with no reconcile in flight.
IdleCopy == NewExam(CHOOSE s \in Specs : TRUE)

-----------------------------------------------------------------------------
(***************************************************************************)
(* The API server.                                                         *)
(***************************************************************************)

\* Store a version; every copy of another version becomes stale.
Store(new) ==
  /\ exam' = new
  /\ synced' = [v \in Workers |-> synced[v] /\ new = exam]

\* Freshness of the working copies once w (its own copy: mine) stored new.
FreshAfter(new, w, mine) ==
  [v \in Workers |-> IF v = w THEN mine ELSE fresh[v] /\ new = exam]

\* Mutant: the write goes through whatever version the copy came from.
NeverConflict(w) == FALSE

\* Update and Status().Update fail with a conflict, or with not found, unless
\* the copy they write is the latest version.
Conflict(w) == ~fresh[w]

Charge(n) == faults + n <= MaxFaults /\ faults' = faults + n
NoFault   == UNCHANGED faults
OneFault  == Charge(1)
Cost(failed) == IF failed THEN 1 ELSE 0

\* Create in a namespace that is gone or terminating is refused.
Create(kinds, i) == IF ns = "active" THEN kinds \X {i} ELSE {}

Deliver(m, n) ==
  mailbox' = [mailbox EXCEPT ![m] = IF @ + n < MailCap THEN @ + n ELSE MailCap]

\* resolvedSender wraps the sender in a RetrySender with this bound.
maxRetries == 3

\* RetrySender.Send: attempts until one succeeds or the retries are used up;
\* sent is what it reports.  The server may have accepted a mail although the
\* attempt failed, and then the retry delivers it again; only a run with
\* failures has that.
Send(m, sent) ==
  \E n \in Cost(sent)..(maxRetries + 1) : (n > 1 => MaxFaults > 0) /\ Deliver(m, n)

\* sendEmail; nothing is sent when the credentials cannot be read.  The caller
\* charges a failure.
sendEmail(m, sent) == Send(m, sent) \/ (~sent /\ UNCHANGED mailbox)

-----------------------------------------------------------------------------
(***************************************************************************)
(* Reconcile, up to the dispatch.                                          *)
(***************************************************************************)
Goto(w, label) == pc' = [pc EXCEPT ![w] = label]

\* Reconcile returns; fresh is updated by the action that returns.
Return(w) ==
  /\ pc'   = [pc EXCEPT ![w] = "idle"]
  /\ loc'  = [loc EXCEPT ![w] = IdleCopy]
  /\ wnow' = [wnow EXCEPT ![w] = 0]
  /\ todo' = [todo EXCEPT ![w] = {}]

\* Reconcile returns without having written the Exam.
ReturnNoWrite(w) ==
  /\ Return(w)
  /\ fresh' = [fresh EXCEPT ![w] = FALSE]
  /\ UNCHANGED <<exam, synced>>

\* The cached Exam is gone, or is on its way out and already released.
GetNothing(w) ==
  /\ pc[w] = "idle"
  /\ ~cache[w].present \/ (cache[w].deleting /\ ~cache[w].finalizer)
  /\ UNCHANGED vars

\* The entries of status.students and status.spares (collectSlugs).
collectSlugs(e) == {i \in Instances : e.inst[i] # "none"}

\* enforcePolicies is over: what the phase handlers do next.
AfterEnforce(phase) ==
  CASE phase = "Unlocked" -> "notify"
    [] phase = "Locked"   -> "deleteIngresses"
    [] OTHER              -> "status"

EnforceLabel(todos, phase) == IF todos = {} THEN AfterEnforce(phase) ELSE "enforce"

\* The switch that dispatches to the phase handlers.
HandlerLabel(e, phase) ==
  CASE phase = "Provisioning" -> "namespace"
    [] phase = "Ready"        -> "ready"
    [] phase \in {"Unlocked", "Locked"} -> EnforceLabel(collectSlugs(e), phase)
    [] phase = "TearingDown"  -> "teardown"
    [] OTHER                  -> "status"

\* Read the clock, move the phase of the copy e, enter the phase's handler.
DecideOn(w, e) ==
  LET desired == determineDesiredPhase(e.phase, e.spec, clock)
  IN  /\ loc'  = [loc EXCEPT ![w] = [e EXCEPT !.phase = desired]]
      /\ wnow' = [wnow EXCEPT ![w] = IF desired = "Ready" THEN clock ELSE 0]
      /\ todo' = [todo EXCEPT ![w] =
           CASE desired = "Provisioning" -> Instances
             [] desired \in {"Unlocked", "Locked"} -> collectSlugs(e)
             [] OTHER -> {}]
      /\ Goto(w, HandlerLabel(e, desired))

\* Reconcile starts: read the cache and, unless the Exam is being deleted or
\* lacks the finalizer, go straight on to the dispatch.  Time that passes
\* between the read and the clock is a cache that lags.
Get(w) ==
  LET e == cache[w]
  IN  /\ pc[w] = "idle"
      /\ e.present
      /\ e.deleting => e.finalizer
      /\ IF e.finalizer /\ ~e.deleting
         THEN DecideOn(w, e)
         ELSE /\ loc' = [loc EXCEPT ![w] = e]
              /\ Goto(w, IF e.deleting THEN "finalizeDelete" ELSE "addFinalizer")
              /\ UNCHANGED <<wnow, todo>>
      /\ fresh' = [fresh EXCEPT ![w] = synced[w]]
      /\ UNCHANGED <<clock, exam, cluster, mailbox, cache, synced, faults, edits,
                     crashes>>

AddFinalizer(w) ==
  /\ pc[w] = "addFinalizer"
  /\ \/ LET new == [exam EXCEPT !.finalizer = TRUE]
        IN  /\ ~Conflict(w)
            /\ Store(new)
            /\ loc' = [loc EXCEPT ![w].finalizer = TRUE]
            /\ fresh' = FreshAfter(new, w, TRUE)
            /\ Goto(w, "decide")
            /\ NoFault
            /\ UNCHANGED <<wnow, todo>>
     \/ Conflict(w) /\ ReturnNoWrite(w) /\ NoFault
     \/ ReturnNoWrite(w) /\ OneFault
  /\ UNCHANGED <<clock, cluster, mailbox, cache, edits, crashes>>

\* The dispatch, after the finalizer was added.
Decide(w) ==
  /\ pc[w] = "decide"
  /\ DecideOn(w, loc[w])
  /\ UNCHANGED <<clock, exam, cluster, mailbox, cache, synced, fresh, faults,
                 edits, crashes>>

\* Status().Update at the end of every reconcile that reached the dispatch,
\* also of one whose handler failed.  Conflict and lost answer end alike.
StatusUpdate(w) ==
  /\ pc[w] = "status"
  /\ \/ LET new == [exam EXCEPT !.phase = loc[w].phase, !.inst = loc[w].inst,
                                !.mail = loc[w].mail, !.conds = loc[w].conds]
        IN  /\ ~Conflict(w)
            /\ Store(new)
            /\ Return(w)
            /\ fresh' = FreshAfter(new, w, FALSE)
            /\ NoFault
     \/ Conflict(w) /\ ReturnNoWrite(w) /\ NoFault
     \/ ReturnNoWrite(w) /\ OneFault
  /\ UNCHANGED <<clock, cluster, mailbox, cache, edits, crashes>>

-----------------------------------------------------------------------------
(***************************************************************************)
(* reconcileProvisioning.                                                  *)
(***************************************************************************)

\* The instance a loop over students and then spares visits next.
IsNext(w, i) == i \in todo[w] /\ \A j \in todo[w] : i <= j

\* Create the namespace and copy the TLS secret into it; either failing ends
\* the handler.  A terminating namespace counts as existing, and refuses the
\* secret when one is configured.
CreateNamespace(w) ==
  /\ pc[w] = "namespace"
  /\ \/ /\ ns' = IF ns = "absent" THEN "active" ELSE ns
        /\ Goto(w, "provision")
        /\ NoFault
        /\ UNCHANGED todo
     \/ /\ ns = "terminating"
        /\ Goto(w, "status")
        /\ todo' = [todo EXCEPT ![w] = {}]
        /\ NoFault
        /\ UNCHANGED ns
     \/ /\ ns' \in {ns, IF ns = "absent" THEN "active" ELSE ns}
        /\ Goto(w, "status")
        /\ todo' = [todo EXCEPT ![w] = {}]
        /\ OneFault
  /\ UNCHANGED <<clock, exam, objs, ready, mailbox, cache, synced, loc, fresh,
                 wnow, edits, crashes>>

\* Mutant: spares get a mail status as well.
setInstanceStatusMail(e, i, ok) ==
  [e EXCEPT
     !.inst = [j \in Instances |-> IF j = i THEN (IF ok THEN "Provisioned" ELSE "Failed")
                                   ELSE e.inst[j]],
     !.mail = [j \in Instances |-> IF j = i THEN "Pending"
                                   ELSE IF j \in Students THEN e.mail[j] ELSE "none"]]

\* The status a provisioning attempt leaves: a student always gets an entry,
\* with its mail pending again; a spare only when it succeeded.
setInstanceStatus(e, i, ok) ==
  LET result == IF ok THEN "Provisioned" ELSE IF i \in Students THEN "Failed" ELSE e.inst[i]
  IN  [e EXCEPT
         !.inst = [j \in Instances |-> IF j = i THEN result ELSE e.inst[j]],
         !.mail = [j \in Students |-> IF j = i THEN "Pending" ELSE e.mail[j]]]

\* provisionInstance for the next instance: four Creates in order, of which
\* the first n succeed.  All of them tolerate an existing object.
provisionInstance(w) ==
  /\ pc[w] = "provision"
  /\ \E i \in todo[w], n \in 0..4 :
       /\ IsNext(w, i)
       /\ IF n < 4 /\ ns = "active" THEN OneFault ELSE NoFault
       /\ ns # "active" => n = 0
       /\ objs' = objs \cup Create({ProvisionedKinds[k] : k \in 1..n}, i)
       /\ loc'  = [loc EXCEPT ![w] = setInstanceStatus(@, i, n = 4)]
       /\ todo' = [todo EXCEPT ![w] = @ \ {i}]
  /\ UNCHANGED <<clock, exam, ns, ready, mailbox, cache, synced, pc, fresh,
                 wnow, edits, crashes>>

\* An instance without a slug needs a new one; generating it fails and ends
\* the handler.
SlugError(w) ==
  /\ pc[w] = "provision"
  /\ \E i \in todo[w] : IsNext(w, i) /\ loc[w].inst[i] = "none"
  /\ Goto(w, "status")
  /\ todo' = [todo EXCEPT ![w] = {}]
  /\ OneFault
  /\ UNCHANGED <<clock, exam, cluster, mailbox, cache, synced, loc, fresh, wnow,
                 edits, crashes>>

\* What cleanupOrphanedResources deletes: Deployments, Services and policies
\* of instances that have no status entry.
Orphans(e) == (Kinds \ {"ingress"}) \X (Instances \ collectSlugs(e))

Deployed(os) == {i \in Instances : <<"deployment", i>> \in os}

allInstancesHealthy(os, rdy) == Deployed(os) = Instances /\ Instances \subseteq rdy

\* Clean up, as far as that succeeds and the lists show what there is, and list
\* the Deployments.  The list may still hold Deployments the cleanup has just
\* deleted, and may miss news, so it may always come out unhealthy.
FinishProvisioning(w) ==
  /\ pc[w] = "provision"
  /\ todo[w] = {}
  /\ \E gone \in SUBSET (objs \cap Orphans(loc[w])), healthy, sent \in BOOLEAN :
       /\ objs'  = objs \ gone
       /\ ready' = {i \in ready : <<"deployment", i>> \notin gone}
       /\ healthy => allInstancesHealthy(objs, ready)
       /\ loc' = IF healthy
                 THEN [loc EXCEPT ![w].phase = "Ready",
                                  ![w].conds = @ \cup {"Provisioned"}]
                 ELSE loc
       /\ IF healthy /\ NumSpares > 0
          THEN sendEmail(<<"spares", 0>>, sent)
          ELSE sent /\ UNCHANGED mailbox
       /\ Charge(Cost(~sent))
  /\ Goto(w, "status")
  /\ UNCHANGED <<clock, exam, ns, cache, synced, fresh, wnow, todo, edits, crashes>>

-----------------------------------------------------------------------------
(***************************************************************************)
(* reconcileReady.                                                         *)
(***************************************************************************)
EmailsDue(w) ==
  "AllEmailsSent" \notin loc[w].conds /\ wnow[w] >= EmailTime(loc[w].spec)

HasPending(e) == \E i \in Students : e.mail[i] = "Pending"

\* sendNextPendingEmail found one to send: mail it, and return to the status
\* update without looking at the dry run or the policies.
sendNextPendingEmail(w) ==
  /\ pc[w] = "ready"
  /\ EmailsDue(w)
  /\ \E i \in Students, sent \in BOOLEAN :
       /\ loc[w].mail[i] = "Pending"
       /\ \A j \in 1..(i - 1) : loc[w].mail[j] # "Pending"
       /\ sendEmail(<<"url", i>>, sent)
       /\ Charge(Cost(~sent))
       /\ loc' = [loc EXCEPT ![w].mail[i] = IF sent THEN "Sent" ELSE "Failed"]
  /\ wnow' = [wnow EXCEPT ![w] = 0]
  /\ Goto(w, "status")
  /\ UNCHANGED <<clock, exam, cluster, cache, synced, fresh, todo, edits, crashes>>

\* The policies of an instance (VanillaPolicyProvider): the deny-all selects
\* it, and none of the others admits the controller.
PolicyBlocksController(i) == EnforcingCNI /\ <<"denyAll", i>> \in objs

\* External: does an HTTP request from the controller's pod to an instance's
\* Service get an answer.
ReachableFromController(i) ==
  /\ <<"service", i>> \in objs
  /\ i \in ready
  /\ ~PolicyBlocksController(i)

\* The two checks of HTTPChecker; a running instance answers with a 2xx code.
CheckHealth(i)  == ReachableFromController(i)
CheckBlocked(i) == ~ReachableFromController(i)

RunDryRun(targets, negative) ==
  [failed |-> {i \in targets : ~CheckHealth(i)}, policyEnforced |-> CheckBlocked(negative)]

\* runDryRun: a health check of every instance in the status, and a check
\* that the first student's instance is blocked, on the same URLs.
DryRunConditions(e) ==
  LET dr == RunDryRun(collectSlugs(e), 1)
  IN  {"DryRunComplete"}
        \cup (IF dr.policyEnforced THEN {"NetworkPolicyEnforced"} ELSE {})
        \cup (IF dr.failed # {} THEN {"DryRunFailed"} ELSE {})

DryRunDue(w) ==
  LET s == loc[w].spec
  IN  /\ s.dryRun # NoDryRun
      /\ "DryRunComplete" \notin loc[w].conds
      /\ wnow[w] >= s.unlock - s.dryRun

\* Mutant: the mails count as settled whether or not some are pending.
MailsLeftFor(w) == FALSE

\* sendNextPendingEmail would find one.
MailsLeft(w) == EmailsDue(w) /\ HasPending(loc[w])

\* The rest of reconcileReady, up to the loop of enforcePolicies.
ReadyContinue(w) ==
  /\ pc[w] = "ready"
  /\ ~MailsLeft(w)
  /\ LET mailed == IF EmailsDue(w) THEN {"AllEmailsSent"} ELSE {}
         tested == IF DryRunDue(w) THEN DryRunConditions(loc[w]) ELSE {}
         slugs  == collectSlugs(loc[w])
     IN  /\ loc'  = [loc EXCEPT ![w].conds = @ \cup mailed \cup tested]
         /\ todo' = [todo EXCEPT ![w] = slugs]
         /\ Goto(w, EnforceLabel(slugs, "Ready"))
  /\ wnow' = [wnow EXCEPT ![w] = 0]
  /\ UNCHANGED <<clock, exam, cluster, mailbox, cache, synced, fresh,
                 faults, edits, crashes>>

-----------------------------------------------------------------------------
(***************************************************************************)
(* enforcePolicies, for one instance of the loop.  Every call is made, and *)
(* each may fail on its own: errors are only logged.                       *)
(***************************************************************************)
Unlocking(w) == loc[w].phase = "Unlocked"

\* Mutant: the lock leaves the ingress-allow policy in place.
EnforceDeletesNothing(w) == {}

\* Mutant: the unlock forgets the Ingress.
EnforceCreatesNoIngress(w) ==
  {"denyAll", "egressAllow"} \cup (IF Unlocking(w) THEN {"ingressAllow"} ELSE {})

EnforceCreates(w) ==
  {"denyAll", "egressAllow"} \cup (IF Unlocking(w) THEN AccessKinds ELSE {})

EnforceDeletes(w) == IF Unlocking(w) THEN {} ELSE {"ingressAllow"}

enforcePolicies(w) ==
  /\ pc[w] = "enforce"
  /\ \E i \in todo[w], failed \in SUBSET (EnforceCreates(w) \cup EnforceDeletes(w)) :
       /\ IsNext(w, i)
       /\ IF failed = {} THEN NoFault ELSE OneFault
       /\ objs' = (objs \cup Create(EnforceCreates(w) \ failed, i))
                    \ ((EnforceDeletes(w) \ failed) \X {i})
       /\ todo' = [todo EXCEPT ![w] = @ \ {i}]
       /\ Goto(w, EnforceLabel(todo[w] \ {i}, loc[w].phase))
  /\ UNCHANGED <<clock, exam, ns, ready, mailbox, cache, synced, loc, fresh,
                 wnow, edits, crashes>>

-----------------------------------------------------------------------------
(***************************************************************************)
(* The rest of reconcileUnlock and reconcileLocked.                        *)
(***************************************************************************)

Ingresses(os) == {o \in os : o[1] = "ingress"}

\* deleteIngresses: the List may miss Ingresses, and a List or Delete that fails
\* ends the handler before instance phases and notice.
deleteIngresses(w) ==
  /\ pc[w] = "deleteIngresses"
  /\ \E gone \in SUBSET Ingresses(objs) : objs' = objs \ gone
  /\ \/ Goto(w, "notify") /\ NoFault
     \/ Goto(w, "status") /\ OneFault
  /\ UNCHANGED <<clock, exam, ns, ready, mailbox, cache, synced, loc, fresh,
                 wnow, todo, edits, crashes>>

NoticeOf(phase) == IF phase = "Unlocked" THEN "unlock" ELSE "lock"
NotifiedOf(phase) ==
  IF phase = "Unlocked" THEN "InstructorNotifiedUnlock" ELSE "InstructorNotifiedLock"

\* Move the instances that have not failed to the phase of the exam.
MoveInstances(e) ==
  [i \in Instances |->
     IF e.inst[i] \in {"none", "Failed"} THEN e.inst[i]
     ELSE IF e.phase = "Unlocked" THEN "Unlocked" ELSE "Locked"]

\* Set the instance phases and tell the instructor, once.
NotifyInstructor(w) ==
  LET e == loc[w]
      cond == NotifiedOf(e.phase)
      Finish(cs) == loc' = [loc EXCEPT ![w].inst = MoveInstances(e), ![w].conds = cs]
  IN  /\ pc[w] = "notify"
      /\ \/ cond \in e.conds /\ Finish(e.conds) /\ NoFault /\ UNCHANGED mailbox
         \/ /\ cond \notin e.conds
            /\ \E sent \in BOOLEAN :
                 /\ sendEmail(<<NoticeOf(e.phase), 0>>, sent)
                 /\ Charge(Cost(~sent))
                 /\ Finish(IF sent THEN e.conds \cup {cond} ELSE e.conds)
      /\ Goto(w, "status")
      /\ UNCHANGED <<clock, exam, cluster, cache, synced, fresh, wnow, todo,
                     edits, crashes>>

-----------------------------------------------------------------------------
(***************************************************************************)
(* reconcileTeardown, from the TearingDown phase and from the finalizer.   *)
(***************************************************************************)

\* Deleting the namespace only starts its deletion.
DeleteNamespace == ns' = IF ns = "active" THEN "terminating" ELSE ns

reconcileTeardown(w) ==
  /\ pc[w] = "teardown"
  /\ \/ DeleteNamespace /\ NoFault
     \/ UNCHANGED ns /\ OneFault
  /\ Goto(w, "status")
  /\ UNCHANGED <<clock, exam, objs, ready, mailbox, cache, synced, loc, fresh,
                 wnow, todo, edits, crashes>>

\* Mutant: the finalizer is removed without deleting the namespace.
FinalizeForgetsNamespace(w) ==
  /\ pc[w] = "finalizeDelete"
  /\ Goto(w, "removeFinalizer")
  /\ UNCHANGED <<clock, exam, cluster, mailbox, cache, synced, loc, fresh,
                 wnow, todo, faults, edits, crashes>>

FinalizeDelete(w) ==
  /\ pc[w] = "finalizeDelete"
  /\ \/ /\ DeleteNamespace
        /\ loc' = [loc EXCEPT ![w].phase = "TearingDown"]
        /\ Goto(w, "removeFinalizer")
        /\ NoFault
        /\ UNCHANGED <<exam, synced, fresh, wnow, todo>>
     \/ ReturnNoWrite(w) /\ OneFault /\ UNCHANGED ns
  /\ UNCHANGED <<clock, objs, ready, mailbox, cache, edits, crashes>>

\* The Exam disappears with its last finalizer.
RemoveFinalizer(w) ==
  /\ pc[w] = "removeFinalizer"
  /\ \/ LET new == [exam EXCEPT !.present = FALSE, !.finalizer = FALSE]
        IN  /\ ~Conflict(w)
            /\ Store(new)
            /\ Return(w)
            /\ fresh' = FreshAfter(new, w, FALSE)
            /\ NoFault
     \/ Conflict(w) /\ ReturnNoWrite(w) /\ NoFault
     \/ ReturnNoWrite(w) /\ OneFault
  /\ UNCHANGED <<clock, cluster, mailbox, cache, edits, crashes>>

-----------------------------------------------------------------------------
(***************************************************************************)
(* The environment: time, the instructor, the cluster, restarts.           *)
(***************************************************************************)
Tick ==
  /\ clock < MaxClock
  /\ clock' = clock + 1
  /\ UNCHANGED <<exam, cluster, mailbox, cache, synced, worker, faults, edits, crashes>>

\* The instructor's write carries the latest version; every copy goes stale.
UserStore(new) ==
  /\ Store(new)
  /\ fresh' = [v \in Workers |-> FALSE]
  /\ UNCHANGED <<clock, cluster, mailbox, cache, pc, loc, wnow, todo, faults, crashes>>

EditSpec(s) ==
  /\ exam.present
  /\ s # exam.spec
  /\ WebhookEnabled => ValidateUpdate(exam.phase, exam.spec, s, clock)
  /\ edits < MaxEdits
  /\ edits' = edits + 1
  /\ UserStore([exam EXCEPT !.spec = s])

DeleteExam ==
  /\ exam.present
  /\ ~exam.deleting
  /\ UserStore(IF exam.finalizer THEN [exam EXCEPT !.deleting = TRUE]
               ELSE [exam EXCEPT !.deleting = TRUE, !.present = FALSE])
  /\ UNCHANGED edits

\* The watch delivers the latest version to a worker's cache.
InformerSync(w) ==
  /\ ~synced[w]
  /\ cache'  = [cache EXCEPT ![w] = exam]
  /\ synced' = [synced EXCEPT ![w] = TRUE]
  /\ UNCHANGED <<clock, exam, cluster, mailbox, worker, faults, edits, crashes>>

\* A manager dies in the middle of a reconcile; its successor lists afresh.
Crash(w) ==
  /\ pc[w] # "idle"
  /\ crashes < MaxCrashes
  /\ crashes' = crashes + 1
  /\ Return(w)
  /\ fresh'  = [fresh EXCEPT ![w] = FALSE]
  /\ cache'  = [cache EXCEPT ![w] = exam]
  /\ synced' = [synced EXCEPT ![w] = TRUE]
  /\ UNCHANGED <<clock, exam, cluster, mailbox, faults, edits>>

DeploymentReady(i) ==
  /\ <<"deployment", i>> \in objs
  /\ i \notin ready
  /\ ns = "active"
  /\ ready' = ready \cup {i}
  /\ UNCHANGED <<clock, exam, ns, objs, mailbox, cache, synced, worker, faults,
                 edits, crashes>>

NamespaceGone ==
  /\ ns = "terminating"
  /\ ns' = "absent"
  /\ objs' = {}
  /\ ready' = {}
  /\ UNCHANGED <<clock, exam, mailbox, cache, synced, worker, faults, edits, crashes>>

\* The objects enforcePolicies puts back when they are missing.
EnforcedKinds == {"denyAll", "egressAllow"} \cup AccessKinds

\* Drift: somebody else deletes a policy or an Ingress.  Charged like a failure.
Drift(o) ==
  /\ o[1] \in EnforcedKinds
  /\ objs' = objs \ {o}
  /\ OneFault
  /\ UNCHANGED <<clock, exam, ns, ready, mailbox, cache, synced, worker, edits, crashes>>

-----------------------------------------------------------------------------
\* The Exam has just been admitted and every cache has listed it.
Init ==
  /\ clock = 0
  /\ exam \in {NewExam(s) : s \in Specs}
  /\ WebhookEnabled => ValidateCreate(exam.spec)
  /\ ns = "absent"
  /\ objs = {}
  /\ ready = {}
  /\ mailbox = [m \in Mails |-> 0]
  /\ cache = [w \in Workers |-> exam]
  /\ synced = [w \in Workers |-> TRUE]
  /\ pc = [w \in Workers |-> "idle"]
  /\ loc = [w \in Workers |-> IdleCopy]
  /\ fresh = [w \in Workers |-> FALSE]
  /\ wnow = [w \in Workers |-> 0]
  /\ todo = [w \in Workers |-> {}]
  /\ faults = 0 /\ edits = 0 /\ crashes = 0

Reconcile(w) ==
  \/ GetNothing(w) \/ Get(w) \/ AddFinalizer(w) \/ Decide(w)
  \/ CreateNamespace(w) \/ provisionInstance(w) \/ SlugError(w)
  \/ FinishProvisioning(w) \/ sendNextPendingEmail(w) \/ ReadyContinue(w)
  \/ enforcePolicies(w) \/ deleteIngresses(w) \/ NotifyInstructor(w)
  \/ reconcileTeardown(w) \/ FinalizeDelete(w) \/ RemoveFinalizer(w)
  \/ StatusUpdate(w)

Environment ==
  \/ Tick \/ DeleteExam \/ NamespaceGone
  \/ \E s \in Specs : EditSpec(s)
  \/ \E i \in Instances : DeploymentReady(i)
  \/ \E o \in objs : Drift(o)
  \/ \E w \in Workers : InformerSync(w) \/ Crash(w)

Next == Environment \/ \E w \in Workers : Reconcile(w)

Spec == Init /\ [][Next]_vars

-----------------------------------------------------------------------------
(***************************************************************************)
(* Properties.                                                             *)
(***************************************************************************)

\* Every variable has the type its comment gives it.
TypeOK ==
  /\ clock \in 0..MaxClock
  /\ exam \in ExamObjects
  /\ ns \in {"absent", "active", "terminating"}
  /\ objs \subseteq Objects
  /\ ready \subseteq Instances
  /\ mailbox \in [Mails -> 0..MailCap]
  /\ cache \in [Workers -> ExamObjects]
  /\ synced \in [Workers -> BOOLEAN]
  /\ pc \in [Workers -> PCs]
  /\ loc \in [Workers -> ExamObjects]
  /\ fresh \in [Workers -> BOOLEAN]
  /\ wnow \in [Workers -> 0..MaxClock]
  /\ todo \in [Workers -> SUBSET Instances]
  /\ faults \in 0..MaxFaults
  /\ edits \in 0..MaxEdits
  /\ crashes \in 0..MaxCrashes

AccessObjects == AccessKinds \X Instances

\* No route to an instance (Ingress, or a policy admitting the ingress
\* controller) exists before the unlock time of the Exam as it is now stored
\* (as it was last stored, if it is gone), however stale the copy is that
\* reconcileUnlock works on.
NoEarlyAccess ==
  objs \cap AccessObjects # {} => clock >= exam.spec.unlock

\* An Exam stored as Locked or TearingDown has passed the lock time of the
\* spec it now carries: an extension the webhook accepted is never overrun by
\* a lock that was decided from the shorter spec.
LockedNotEarly ==
  exam.phase \in {"Locked", "TearingDown"} => clock >= LockTime(exam.spec)

\* While an Exam that nobody deletes is Ready or Unlocked its namespace is
\* there: no teardown decided elsewhere can take the instances away.
NamespaceKept ==
  exam.present /\ ~exam.deleting /\ exam.phase \in {"Ready", "Unlocked"}
    => ns = "active"

\* What the status says about mail is true: Sent means delivered, the
\* instructor conditions mean the notice was delivered, and once
\* AllEmailsSent is set no student is left Pending.
MailLedger ==
  /\ \A i \in Students : exam.mail[i] = "Sent" => mailbox[<<"url", i>>] > 0
  /\ "InstructorNotifiedUnlock" \in exam.conds => mailbox[<<"unlock", 0>>] > 0
  /\ "InstructorNotifiedLock" \in exam.conds => mailbox[<<"lock", 0>>] > 0
  /\ "AllEmailsSent" \in exam.conds =>
       \A i \in Students : exam.mail[i] \in {"Sent", "Failed"}

\* No step moves the stored phase backwards, whichever of the overlapping
\* reconciles writes last.
PhaseMonotone ==
  [][PhaseRank[exam'.phase] >= PhaseRank[exam.phase]]_vars

\* With one manager, an Exam that is gone has left no live namespace behind.
NoLeak == ~exam.present => ns # "active"

\* With one manager, no failed call and no object deleted by others,
\* an Exam stored as Locked has no policy left that admits anybody to an
\* instance.  An Ingress may be left: the List of deleteIngresses may lag, also
\* when nothing fails.  Converged says that it goes later.
LockedClosed ==
  exam.phase = "Locked" /\ faults = 0
    => \A i \in Instances : <<"ingressAllow", i>> \notin objs

\* With one manager, no route is opened any more once the Exam is stored as
\* Locked or TearingDown, whatever copy of it a reconcile then starts from and
\* whatever failed before.
StaysClosed ==
  [][exam.phase \in {"Locked", "TearingDown"}
       => objs' \cap AccessObjects \subseteq objs]_vars

\* With one manager, no failed call and no object deleted by others, the status
\* that first says Unlocked is written only once every instance in it has its
\* routes.
UnlockOpens ==
  [][exam.phase = "Ready" /\ exam'.phase = "Unlocked" /\ faults = 0
       => AccessKinds \X collectSlugs(exam') \subseteq objs]_vars

\* The stored Exam and the routes behave as ExamContract promises, whatever
\* caches, conflicts, failures, restarts and overlapping managers do.
Contract == INSTANCE ExamContract WITH
  Routes <- AccessObjects, present <- exam.present, spec <- exam.spec,
  phase <- exam.phase, open <- objs \cap AccessObjects

ImplementsContract == Contract!Spec
=============================================================================
