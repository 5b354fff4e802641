\* Racing requests and a handler that dies.
SPECIFICATION Spec
CONSTANTS
  Users = {u1, u2}
  Handlers = {h1, h2, h3, h4, h5}
  Transports = {"kafka", "grpc"}
  NoRow = NoRow
  Free = Free
  MaxInFlight = 3
  MaxFaults = 1
SYMMETRY Symmetry
INVARIANTS TypeOK ConfirmedByOwnLink AnswersMatchRows SerialFollowsSubscribers
PROPERTIES OnlyUnsubscribeRemoves
CHECK_DEADLOCK FALSE
