\* Every kind of consumer in the system, two members, a malformed message
\* between good ones.
SPECIFICATION FairSpec
CONSTANTS
  Members = {m1, m2}
  Nobody = Nobody
  Messages <- MCMessages
  Settings <- MCSettings
  MaxFaults = 3
INVARIANTS TypeOK PassedIsSettled
PROPERTIES EverythingSettles
CHECK_DEADLOCK FALSE
