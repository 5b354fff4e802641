\* An unsubscribe overtakes the saga request of a confirmation.
SPECIFICATION Spec
CONSTANTS
  Users = {u1}
  Handlers = {h1, h2, h3}
  Transports = {"kafka"}
  NoRow = NoRow
  Free = Free
  MaxInFlight = 2
  MaxFaults = 0
INVARIANTS WatchFollowsSubscribers
CHECK_DEADLOCK FALSE
