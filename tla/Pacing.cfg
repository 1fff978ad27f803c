SPECIFICATION FairQueueSpec
CONSTANTS
  w1 = w1
  w2 = w2
  Workers = {w1}
  NumStudents = 2
  NumSpares = 0
  Specs <- PairSpecs
  LabelValues <- Labels
  TickSeconds = 1800
  DefaultProvisionBefore = 2
  DefaultEmailBefore = 1
  DefaultRetention = 1
  WebhookEnabled = TRUE
  EnforcingCNI = TRUE
  MailCap = 1
  MaxClock = 1
  MaxFaults = 0
  MaxEdits = 0
  MaxCrashes = 0
CHECK_DEADLOCK FALSE
PROPERTY
  MailsPaced
