\* A failed statement in the scanner.
SPECIFICATION FairScannerSpec
CONSTANTS
  Actions <- MCStart
  RetryDelays <- MCRetryDelays
  Deadline = 2
  RetryLimit = 1
  ScannerFails = "always"
  FailuresReported = FALSE
  MaxFaults = 0
PROPERTIES FailureIsReported
CHECK_DEADLOCK FALSE
