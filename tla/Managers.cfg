SPECIFICATION QueueSpec
CONSTANTS
  w1 = w1
  w2 = w2
  Workers = {w1, w2}
  NumStudents = 1
  NumSpares = 0
  Specs <- NowSpecs
  LabelValues <- Labels
  TickSeconds = 1800
  DefaultProvisionBefore = 2
  DefaultEmailBefore = 1
  DefaultRetention = 1
  WebhookEnabled = TRUE
  EnforcingCNI = TRUE
  MailCap = 1
  MaxClock = 2
  MaxFaults = 0
  MaxEdits = 0
  MaxCrashes = 1
CHECK_DEADLOCK FALSE
SYMMETRY Symmetry
INVARIANTS
  NamespaceKept
  NoLostWakeup
  Converged
  QueueInv
PROPERTY
  PhaseMonotone
