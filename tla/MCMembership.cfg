SPECIFICATION FairSpec
CONSTANTS
  seed = seed
  s1 = s1
  s2 = s2
  Server = {seed, s1, s2}
  Seed = seed
  MaxLink = 3
  MaxFailure = 2
INVARIANTS TypeOK MeshWhenOneByOne
PROPERTIES EndedIsForgotten
CHECK_DEADLOCK FALSE
