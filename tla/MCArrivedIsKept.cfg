SPECIFICATION Spec
CONSTANTS
  MaxJobs = 2
  MaxObjectSize = 3
  SizeBits = 4
INVARIANTS
  ArrivedIsKept
