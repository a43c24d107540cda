\* One project of one Deployment: faults, a restart, and what must happen in the end.
SPECIFICATION FairSpec
CONSTANTS
  t1 = t1
  n1 = n1
  n2 = n2
  m1 = m1
  m2 = m2
  A = A
  B = B
  Nil = Nil
  Tasks = {t1}
  Namespaces = {n1}
  Names = {m1}
  Strategies = {A, B}
  Home <- MCHome
  TaskSpecs <- OneProjectSpecs
  MaxEdits = 2
  MaxFaults = 2
  MaxRestarts = 1
PROPERTIES
  EveryDeploymentAttempted
CHECK_DEADLOCK FALSE
