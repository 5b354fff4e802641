\* A start and a stop, overlapping or not, with a scanner whose statements may
\* fail and which may never answer, and a repeated or overtaken message.
SPECIFICATION FairSpec
CONSTANTS
  Actions <- MCStartStop
  RetryDelays <- MCRetryDelays
  Deadline = 3
  RetryLimit = 2
  ScannerFails = "sometimes"
  FailuresReported = TRUE
  MaxFaults = 1
INVARIANTS TypeOK CompletedIsApplied NoPoisonAck SpacedIsSynchronized
PROPERTIES ContractSafety SagaSettles
CHECK_DEADLOCK FALSE
