\* One release, three addresses that are two mailboxes, both transports.
SPECIFICATION FanoutSpec
CONSTANTS
  ann = ann
  Ann = Ann
  bob = bob
  t1 = t1
  annHash = annHash
  bobHash = bobHash
  Tags = {t1}
  Addresses = {ann, Ann, bob}
  EmailHash <- MCEmailHash
  Keys <- MCKeys
  Nobody = Nobody
  Workers = {w1}
  Transports = {"kafka", "grpc"}
  MaxAttempts = 2
  RetryDelays <- MCDelays
  RetryBatch = 1
  MaxFaults = 1
  MaxReruns = 1
  MaxChanges = 1
INVARIANTS FanoutTypeOK OneMail
PROPERTIES EverySubscriberIsTold
CHECK_DEADLOCK FALSE
