SPECIFICATION FairSpec
CONSTANTS
  w1 = w1
  w2 = w2
  Workers = {w1}
  NumStudents = 1
  NumSpares = 1
  Predecessor = TRUE
  MaxSlugs = 3
  MaxFaults = 1
  MaxUpsets = 1
CHECK_DEADLOCK FALSE
INVARIANTS
  TypeOK
  OneOwner
  ReadyInv
  ReadyDeployed
PROPERTIES
  SlugKept
  ProvisioningEnds
