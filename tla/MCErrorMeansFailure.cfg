SPECIFICATION Spec
CONSTANTS
  MaxJobs = 2
  MaxRetries = 2
  FileSizes = {0, 2, 5}
INVARIANTS
  ErrorMeansFailure
