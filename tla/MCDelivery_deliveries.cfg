\* Two notifications: over Kafka, in one partition that moves while its old owner
\* works, and over gRPC, with timeouts and overlapping handlers.
SPECIFICATION FairSpec
CONSTANTS
  Keys = {k1, k2}
  Workers = {w1, w2}
  Transports = {"kafka", "grpc"}
  MaxAttempts = 2
  RetryDelays <- MCDelays
  RetryBatch = 1
  MaxFaults = 2
INVARIANTS TypeOK StatusIsEarned NotStranded
PROPERTIES Settles
CHECK_DEADLOCK FALSE
