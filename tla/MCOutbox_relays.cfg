\* Two relays on one database: an old instance outlives its replacement, with
\* crashes, producer errors and leases that run out.
SPECIFICATION FairSpec
CONSTANTS
  e1 = e1
  e2 = e2
  e3 = e3
  Events = {e1, e2}
  Relays = {r1, r2}
  Rank <- MCRank
  BatchSize = 2
  LeaseTicks = 2
  MaxFaults = 2
INVARIANTS TypeOK PublishedIsInTopic ExclusiveUnlessDisturbed DuplicateHasCause
PROPERTIES ChannelSpec
CHECK_DEADLOCK FALSE
