\* A transaction that outlives its lock meets another writer.
CONSTANTS
  Request = {r1, r2}
  Ip = {i1, i2}
  NoIp = NoIp
  Genesis = Genesis
  MaxChainLen = 3
  MaxPerIpInChain = 2
  Session = {s1}
  NoRequest = NoRequest
  SlowHolder = TRUE
  KvMayFail = FALSE
SPECIFICATION Spec
PROPERTIES OnlyEvictionDrops
CHECK_DEADLOCK FALSE
