SPECIFICATION FairSpec
CONSTANTS
  w1 = w1
  w2 = w2
  Workers = {w1, w2}
  NumStudents = 1
  NumSpares = 0
  Predecessor = FALSE
  MaxSlugs = 3
  MaxFaults = 0
  MaxUpsets = 0
CHECK_DEADLOCK FALSE
PROPERTY
  CanonicalKept
