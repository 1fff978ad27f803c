SPECIFICATION Spec
CONSTANTS
  w1 = w1
  w2 = w2
  Workers = {w1}
  NumStudents = 1
  NumSpares = 1
  Specs <- AllSpecs
  LabelValues <- Labels
  TickSeconds = 1800
  DefaultProvisionBefore = 2
  DefaultEmailBefore = 1
  DefaultRetention = 1
  WebhookEnabled = TRUE
  EnforcingCNI = TRUE
  MailCap = 1
  MaxClock = 4
  MaxFaults = 1
  MaxEdits = 1
  MaxCrashes = 1
CONSTRAINT OneMishap
INVARIANTS
  TypeOK
  NoEarlyAccess
  LockedNotEarly
  IInv
  MailInv
  SoloInv
PROPERTIES
  ImplementsContract
  StaysClosed
