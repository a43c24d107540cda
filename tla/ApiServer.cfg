\* Every documented form with awkward names, short and odd paths, and signals.
SPECIFICATION FairSpec
CONSTANTS
  Nil = Nil
  NoSegments = {"a/b", "50%"}
  Forms <- MCForms
  OtherPaths <- MCPaths
  Calls <- MCCalls
  Methods = {"GET", "DELETE"}
  Options <- MCOptions
  Kubeconfigs <- Paths
  Existing <- Configs
  Readable <- Configs
  HomeConfig = ""
  Rates <- Limits
  Unset = Unset
  Loaded <- MCLoaded
  Texts <- MCTexts
  KeyPairs <- MCKeyPairs
  NotGiven = NotGiven
  CommandLines <- MCCommandLines
  MaxTries = 2
INVARIANTS
  TypeOK
  RequestUnderstood
  CallUnderstood
  ForwardedByPrefix
  DroppedOnlyAtVersion
  SyncedBeforeServing
\* The process ends at the second signal or when its start fails.
CHECK_DEADLOCK FALSE
PROPERTIES
  StartEnds
