\* Four handlers of one session, every KV fault and crash, transactions that
\* stay inside their lock's lifetime.
CONSTANTS
  Request = {r1, r2, r3, r4}
  Ip = {i1, i2}
  NoIp = NoIp
  Genesis = Genesis
  MaxChainLen = 3
  MaxPerIpInChain = 2
  Session = {s1}
  NoRequest = NoRequest
  SlowHolder = FALSE
  KvMayFail = TRUE
SPECIFICATION Spec
SYMMETRY Symmetry
INVARIANTS TypeOK NoFork UncappedChainVerifies BreaksAreEvictions
PROPERTIES OnlyEvictionDrops ImplementsSessionLog
CHECK_DEADLOCK FALSE
