\* Two changes of the configuration file, of every kind, under fairness.
SPECIFICATION FairSpec
CONSTANTS
  Kubeconfigs <- Paths
  Existing <- Files
  Readable <- Files
  HomeConfig = "gone.conf"
  Rates <- Limits
  Unset = Unset
  CommandLines <- AllLines
  Contents <- AllContents
  MaxChanges = 2
  MaxFaults = 1
INVARIANTS
  TypeOK
  EarlierContextsCancelled
  LiveServerHasOptions
  HandlersServed
  OneServerAtWork
  ErrorHasCause
PROPERTIES
  ImplementsSuccession
  ChangesApplied
  ShutdownEnds
  MisconfiguredCrashes
CHECK_DEADLOCK FALSE
