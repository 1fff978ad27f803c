---------------------------- MODULE ExamSchedule ----------------------------
(***************************************************************************)
(* The pure part of internal/controller/exam_controller.go: the times an   *)
(* Exam is scheduled by and the phase machine that moves along them.       *)
(*                                                                         *)
(* Time is counted in ticks.  A spec is a record with one field for each   *)
(* field of ExamSpec the controller or the webhook reads; a duration of 0  *)
(* means the field was omitted, and the multiplier is in hundredths (150   *)
(* is 1.5), so that the product with the duration stays an integer.        *)
(***************************************************************************)
EXTENDS Integers

CONSTANTS
  DefaultProvisionBefore,   \* 1h in the code
  DefaultEmailBefore,       \* 30m
  DefaultRetention          \* 24h

ASSUME DefaultsAssumption ==
  /\ DefaultProvisionBefore \in Nat \ {0}
  /\ DefaultEmailBefore \in Nat \ {0}
  /\ DefaultRetention \in Nat \ {0}

\* spec.schedule.dryRun is a pointer; this is nil.
NoDryRun == -1

(***************************************************************************)
(* Phases.  "Unset" is the empty phase, before the first status update.    *)
(***************************************************************************)
ExamPhases ==
  {"Unset", "Pending", "Provisioning", "Ready", "Unlocked", "Locked", "TearingDown"}

\* The order in which the code's switch moves through the phases.
PhaseRank ==
  [p \in ExamPhases |->
     CASE p = "Unset"        -> 0
       [] p = "Pending"      -> 1
       [] p = "Provisioning" -> 2
       [] p = "Ready"        -> 3
       [] p = "Unlocked"     -> 4
       [] p = "Locked"       -> 5
       [] p = "TearingDown"  -> 6]

(***************************************************************************)
(* The schedule.                                                           *)
(***************************************************************************)
effectiveMultiplier(m) == IF m = 0 THEN 150 ELSE m

computeLockTime(unlock, duration, multiplier) ==
  unlock + (duration * effectiveMultiplier(multiplier)) \div 100

OrDefault(d, default) == IF d = 0 THEN default ELSE d

ProvisionTime(s)     == s.unlock - OrDefault(s.provisionBefore, DefaultProvisionBefore)
EmailTime(s)         == s.unlock - OrDefault(s.emailBefore, DefaultEmailBefore)
LockTime(s)          == computeLockTime(s.unlock, s.duration, s.timeMultiplier)
RetentionDeadline(s) == LockTime(s) + OrDefault(s.retention, DefaultRetention)

(***************************************************************************)
(* determineDesiredPhase, one operator per case of its switch.             *)
(* status.retentionDeadline has just been set from the same spec when it   *)
(* is called, so it is never nil and is computed here.                     *)
(***************************************************************************)
FromPending(s, now) == IF now < ProvisionTime(s) THEN "Pending" ELSE "Provisioning"

\* Mutant: the unlock comes a tick early.
FromReadyEarly(s, now) == IF now + 1 < s.unlock THEN "Ready" ELSE "Unlocked"

FromReady(s, now) == IF now < s.unlock THEN "Ready" ELSE "Unlocked"

\* Mutants: the lock comes a tick early; the Locked phase is skipped.
FromUnlockedEarly(s, now) == IF now + 1 < LockTime(s) THEN "Unlocked" ELSE "Locked"
FromUnlockedTeardown(s, now) == IF now < LockTime(s) THEN "Unlocked" ELSE "TearingDown"

FromUnlocked(s, now) == IF now < LockTime(s) THEN "Unlocked" ELSE "Locked"

FromLocked(s, now) == IF now < RetentionDeadline(s) THEN "Locked" ELSE "TearingDown"

determineDesiredPhase(phase, s, now) ==
  CASE phase \in {"Unset", "Pending"} -> FromPending(s, now)
    [] phase = "Ready"           -> FromReady(s, now)
    [] phase = "Unlocked"        -> FromUnlocked(s, now)
    [] phase = "Locked"          -> FromLocked(s, now)
    [] OTHER                     -> phase   \* Provisioning and TearingDown stay
=============================================================================
