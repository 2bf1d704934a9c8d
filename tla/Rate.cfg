\* Three requests, of one address or of none, every interleaving and fault.
CONSTANTS
  Request = {r1, r2, r3}
  Ip = {i1}
  NoIp = NoIp
  MaxPerHour = 2
SPECIFICATION FairSpec
INVARIANTS TypeOK WindowQuota
PROPERTIES RetryAfterHolds
CHECK_DEADLOCK FALSE
