SPECIFICATION Spec
CONSTANTS
  Files <- MCFiles
  Builders <- MCBuilders
  Urls <- MCUrls
  Revisions <- MCRevisions
  Keys <- MCKeys
  Default = Default
  None = None
  Surroundings <- MCSurroundings
INVARIANTS
  TypeOK
  MergedOnce
  FailsForFiles
  NothingElseMisleads
PROPERTIES
  FetchedOnce
  EveryBuildEnds
CHECK_DEADLOCK FALSE
