\* The promise of the README, without faults or restarts.
SPECIFICATION FairSpec
CONSTANTS
  t1 = t1
  n1 = n1
  n2 = n2
  m1 = m1
  m2 = m2
  A = A
  B = B
  Nil = Nil
  Tasks = {t1}
  Namespaces = {n1}
  Names = {m1}
  Strategies = {A, B}
  Home <- MCHome
  TaskSpecs <- OneProjectSpecs
  MaxEdits = 1
  MaxFaults = 0
  MaxRestarts = 0
PROPERTIES
  EveryLoadAnalysed
CHECK_DEADLOCK FALSE
