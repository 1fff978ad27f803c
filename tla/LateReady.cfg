SPECIFICATION Spec
CONSTANTS
  w1 = w1
  w2 = w2
  Workers = {w1}
  NumStudents = 1
  NumSpares = 0
  Specs <- PairSpecs
  LabelValues <- Labels
  TickSeconds = 1800
  DefaultProvisionBefore = 2
  DefaultEmailBefore = 1
  DefaultRetention = 1
  WebhookEnabled = TRUE
  EnforcingCNI = TRUE
  MailCap = 1
  MaxClock = 2
  MaxFaults = 0
  MaxEdits = 0
  MaxCrashes = 0
INVARIANT
  StudentsMailed
