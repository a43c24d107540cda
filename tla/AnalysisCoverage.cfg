\* Two projects of one Deployment, one task that takes every kind of spec.
SPECIFICATION Spec
CONSTANTS
  t1 = t1
  n1 = n1
  n2 = n2
  m1 = m1
  m2 = m2
  A = A
  B = B
  Nil = Nil
  Tasks = {t1}
  Namespaces = {n1, n2}
  Names = {m1}
  Strategies = {A, B}
  Home <- MCHome
  TaskSpecs <- AllSpecs
  MaxEdits = 2
  MaxFaults = 1
  MaxRestarts = 0
INVARIANTS
  TypeOK
  NoDeploymentOverlooked
  EntriesFollowTasks
CHECK_DEADLOCK FALSE
