SPECIFICATION FairQueueSpec
CONSTANTS
  w1 = w1
  w2 = w2
  Workers = {w1}
  NumStudents = 1
  NumSpares = 0
  Specs <- LaterSpecs
  LabelValues <- Labels
  TickSeconds = 1800
  DefaultProvisionBefore = 2
  DefaultEmailBefore = 1
  DefaultRetention = 1
  WebhookEnabled = TRUE
  EnforcingCNI = TRUE
  MailCap = 1
  MaxClock = 5
  MaxFaults = 1
  MaxEdits = 0
  MaxCrashes = 1
CHECK_DEADLOCK FALSE
INVARIANTS
  MailLedger
  NoLostWakeup
  Converged
  QueueInv
  SoloInv
  NoLeak
  LockedClosed
PROPERTIES
  UnlockOpens
  Completes
