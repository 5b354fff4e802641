\* Retries of a service in gRPC mode.
SPECIFICATION FairSpec
CONSTANTS
  Keys = {k1}
  Workers = {w1}
  Transports = {"grpc"}
  MaxAttempts = 3
  RetryDelays <- MCDelays
  RetryBatch = 1
  MaxFaults = 1
PROPERTIES FailedIsRetried
CHECK_DEADLOCK FALSE
