\* The process stops when it exits; that nothing else stops it is Termination.
SPECIFICATION FairSpec
CONSTANTS
  MaxJobs = 3
  MaxObjectSize = 4
  SizeBits = 4
CHECK_DEADLOCK FALSE
INVARIANTS
  TypeOK
  InPlace
  NoErrorBytesOnSuccess
  RightOtherwise
  JoinedOnExit
PROPERTIES
  Termination
