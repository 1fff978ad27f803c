---------------------------- MODULE ExamContract ----------------------------
(***************************************************************************)
(* What the controller promises about one Exam, without reconciles, caches *)
(* or API calls: the stored phase moves forward one case of                *)
(* determineDesiredPhase at a time, never before the time the spec stored  *)
(* at that moment asks for, and routes to instances appear only once that  *)
(* spec's unlock time has come.                                            *)
(***************************************************************************)
EXTENDS ExamWebhook

CONSTANTS
  Specs,            \* the specs the instructor may apply
  Routes,           \* the Ingresses and ingress-allow policies there can be
  WebhookEnabled    \* whether edits pass the validating webhook

VARIABLES
  clock,     \* the current tick
  present,   \* does the Exam exist
  spec,      \* its spec; the last one, when it is gone
  phase,     \* its stored phase
  open       \* the routes that exist

vars == <<clock, present, spec, phase, open>>

\* One stored phase may follow another under a spec at a time.  A first
\* reconcile may go from no phase or Pending as far as Ready, because
\* reconcileProvisioning runs in the reconcile that enters Provisioning.
MayFollow(p, q, s, now) ==
  \/ p = q
  \/ p = "Unset" /\ q = "Pending"
  \/ p \in {"Unset", "Pending"} /\ q \in {"Provisioning", "Ready"} /\ now >= ProvisionTime(s)
  \/ p = "Provisioning" /\ q = "Ready"
  \/ p = "Ready" /\ q = "Unlocked" /\ now >= s.unlock
  \/ p = "Unlocked" /\ q = "Locked" /\ now >= LockTime(s)
  \/ p = "Locked" /\ q = "TearingDown" /\ now >= RetentionDeadline(s)

Init ==
  /\ clock = 0
  /\ present = TRUE
  /\ spec \in Specs
  /\ phase = "Unset"
  /\ open = {}

Tick ==
  /\ clock' = clock + 1
  /\ UNCHANGED <<present, spec, phase, open>>

Advance ==
  /\ present
  /\ phase' \in ExamPhases
  /\ MayFollow(phase, phase', spec, clock)
  /\ UNCHANGED <<clock, present, spec, open>>

Reschedule ==
  /\ present
  /\ spec' \in Specs
  /\ WebhookEnabled => ValidateUpdate(phase, spec, spec', clock)
  /\ UNCHANGED <<clock, present, phase, open>>

Remove ==
  /\ present
  /\ present' = FALSE
  /\ UNCHANGED <<clock, spec, phase, open>>

OpenRoutes ==
  /\ clock >= spec.unlock
  /\ open' \in SUBSET Routes
  /\ open \subseteq open'
  /\ UNCHANGED <<clock, present, spec, phase>>

CloseRoutes ==
  /\ open' \in SUBSET open
  /\ UNCHANGED <<clock, present, spec, phase>>

Next == Tick \/ Advance \/ Reschedule \/ Remove \/ OpenRoutes \/ CloseRoutes

Spec == Init /\ [][Next]_vars
=============================================================================
