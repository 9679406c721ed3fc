\* The process stops when it exits; that nothing else stops it is Termination.
SPECIFICATION FairSpec
CONSTANTS
  MaxJobs = 3
  MaxRetries = 2
  FileSizes = {0, 2, 5}
CHECK_DEADLOCK FALSE
INVARIANTS
  TypeOK
  NothingTorn
  ManifestIsFinal
  RetriesCounted
  JoinedOnExit
  FailureHasCause
PROPERTIES
  ImplementsObjectPut
  Termination
