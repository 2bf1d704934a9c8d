\* Two calls, of one tenant or of two.
CONSTANTS
  Tenant = {"t", "u"}
  Call = {1, 2}
  MaxFaults = 1
  Env <- MCEnv
  Asked <- MCAsked
SPECIFICATION FairSpec
INVARIANTS RecordsTellTruth AppliedOnce TenantStaysConnected
PROPERTIES SecretsKept CallsEnd
CHECK_DEADLOCK FALSE
