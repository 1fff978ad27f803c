---------------------------- MODULE ExamWebhook ----------------------------
(***************************************************************************)
(* The validating webhook of api/v1alpha1/exam_webhook.go as predicates on *)
(* spec records: TRUE where the code returns a nil error.                  *)
(*                                                                         *)
(* The template (image, port, resources) is one opaque value, because the  *)
(* code treats its three fields alike.  sendInterval is in seconds and the *)
(* other durations are in ticks of TickSeconds seconds.                    *)
(***************************************************************************)
EXTENDS ExamSchedule, Sequences

CONSTANTS
  LabelValues,    \* the student ids that are valid label values
  TickSeconds     \* how many seconds a tick of the model stands for

ASSUME TickAssumption == TickSeconds \in Nat \ {0}

\* A zero or negative send interval means one second.
SendInterval(s) == IF s.sendInterval <= 0 THEN 1 ELSE s.sendInterval

\* len(students) * sendInterval * 1.5 seconds must fit in email.before.
EmailsFit(s) ==
  3 * Len(s.students) * SendInterval(s)
    <= 2 * TickSeconds * OrDefault(s.emailBefore, DefaultEmailBefore)

validateFields(s) ==
  /\ Len(s.students) > 0
  /\ s.duration > 0
  /\ effectiveMultiplier(s.timeMultiplier) >= 100
  /\ s.instructorEmail
  /\ s.spares >= 0
  /\ EmailsFit(s)
  /\ OrDefault(s.provisionBefore, DefaultProvisionBefore)
       > OrDefault(s.emailBefore, DefaultEmailBefore)
  /\ \A i \in 1..Len(s.students) : s.students[i] \in LabelValues

ValidateCreate(s) == validateFields(s)

\* Mutant: the unlock time stays editable.
SameExceptUnlock(old, new) ==
  /\ old.template = new.template
  /\ old.spares = new.spares
  /\ old.students = new.students

\* Fields that are frozen once the Exam has left Pending.
SameAfterPending(old, new) ==
  /\ old.template = new.template
  /\ old.unlock = new.unlock
  /\ old.spares = new.spares
  /\ old.students = new.students

SameLength(old, new) ==
  /\ old.duration = new.duration
  /\ old.timeMultiplier = new.timeMultiplier

\* Mutant: an Exam that is already Locked may still be extended.
NoLockFreeze(phase, old, new, now) ==
  phase = "Unlocked" /\ ~SameLength(old, new) => now <= LockTime(new)

\* Duration and multiplier are frozen once Locked; while Unlocked they may not
\* move the lock time into the past.
LockFreeze(phase, old, new, now) ==
  /\ phase \in {"Locked", "TearingDown"} => SameLength(old, new)
  /\ phase = "Unlocked" /\ ~SameLength(old, new) => now <= LockTime(new)

ValidateUpdate(phase, old, new, now) ==
  /\ validateFields(new)
  /\ phase \in {"Unset", "Pending"}
       \/ /\ SameAfterPending(old, new)
          /\ LockFreeze(phase, old, new, now)
=============================================================================
