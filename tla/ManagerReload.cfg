\* One change to another good configuration, and no failure.
SPECIFICATION Spec
CONSTANTS
  Kubeconfigs <- Paths
  Existing <- Files
  Readable <- Files
  HomeConfig = "gone.conf"
  Rates <- Limits
  Unset = Unset
  CommandLines <- PlainLine
  Contents <- GoodContents
  MaxChanges = 1
  MaxFaults = 0
INVARIANTS
  ReloadKeepsProcess
CHECK_DEADLOCK FALSE
