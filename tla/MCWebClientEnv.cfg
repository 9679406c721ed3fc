\* The process may stop once its objects are gone; that nothing stops it
\* earlier is in ConstructorEnds and DestructorEnds.
SPECIFICATION FairSpec
CONSTANTS
  Clients = {c1, c2, c3, c4}
CHECK_DEADLOCK FALSE
INVARIANTS
  TypeOK
  CountsClients
  ReadyWhileUsed
  GlobalCallsAlone
  InitAndCleanupAlternate
  CleanedUpAfterLast
PROPERTIES
  ConstructorEnds
  DestructorEnds
