\* A command line that names a kubeconfig, and one change of the file.
SPECIFICATION Spec
CONSTANTS
  Kubeconfigs <- Paths
  Existing <- Files
  Readable <- Files
  HomeConfig = "gone.conf"
  Rates <- Limits
  Unset = Unset
  CommandLines <- FlaggedLine
  Contents <- GoodContents
  MaxChanges = 1
  MaxFaults = 0
INVARIANTS
  CommandLineObeyed
CHECK_DEADLOCK FALSE
