\* Two handlers of one session or of two, locks that lapse, every KV fault and
\* crash.
CONSTANTS
  Request = {r1, r2}
  Ip = {i1}
  NoIp = NoIp
  Genesis = Genesis
  MaxChainLen = 2
  MaxPerIpInChain = 1
  Session = {s1, s2}
  NoRequest = NoRequest
  SlowHolder = TRUE
  KvMayFail = TRUE
SPECIFICATION FairSpec
INVARIANTS PerIpCap
PROPERTIES Answered
CHECK_DEADLOCK FALSE
