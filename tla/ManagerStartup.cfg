\* One change to another good configuration, and no failure.
SPECIFICATION FairSpec
CONSTANTS
  Kubeconfigs <- Paths
  Existing <- Files
  Readable <- Files
  HomeConfig = "gone.conf"
  Rates <- Limits
  Unset = Unset
  CommandLines <- PlainLine
  Contents <- GoodContents
  MaxChanges = 1
  MaxFaults = 0
PROPERTIES
  EveryChangeApplied
CHECK_DEADLOCK FALSE
