\* A server and another process; every rule list of three and grant list of two.
CONSTANTS
  Content = {"x", "y"}
  Actor = {"alice", "bob"}
  Tenant = {"t", "u"}
  Action = {"sign", "review"}
  Process = {"p", "q"}
  Server = {"p"}
  Dict = {"d", "e"}
  Parties = {"ab"}
  Query <- MCQuery
  MaxHandoffs = 3
  MaxTampered = 1
  MaxLedger = 3
SPECIFICATION Spec
INVARIANTS VerifyTells LedgerRooted AnswersRight
CHECK_DEADLOCK FALSE
