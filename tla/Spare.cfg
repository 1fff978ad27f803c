SPECIFICATION FairSpec
CONSTANTS
  w1 = w1
  w2 = w2
  Workers = {w1}
  NumStudents = 1
  NumSpares = 2
  Predecessor = FALSE
  MaxSlugs = 3
  MaxFaults = 1
  MaxUpsets = 0
CHECK_DEADLOCK FALSE
PROPERTY
  RetriesSucceed
