\* One request, another client and a fault, with a second object of the
\* resource, under fair notification.
SPECIFICATION FairSpec
CONSTANTS
  Objects = {installer, other}
  Installer = installer
  v1 = v1
  v2 = v2
  Values = {v1, v2}
  Absent = Absent
  Mistyped = Mistyped
  Blocked = Blocked
  Nil = Nil
  Contents <- MCContents
  Requests = {r1}
  MaxEdits = 1
  MaxFaults = 1
INVARIANTS
  TypeOK
  SourceDecides
PROPERTIES
  OtherThresholdSurvives
  NamedThresholdsSet
  ThresholdsApplied
CHECK_DEADLOCK FALSE
