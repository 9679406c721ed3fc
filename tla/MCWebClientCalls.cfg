\* The process may stop between two calls.
SPECIFICATION Spec
CONSTANTS
  MaxLength = 3
  BufferSize = 2
  PageSize = 2
  MaxCalls = 2
  MaxSettings = 2
CHECK_DEADLOCK FALSE
INVARIANTS
  TypeOK
  BodyIsPart
  TrueMeansWhole
  RequestOtherwise
