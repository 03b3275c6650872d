SPECIFICATION Spec
CONSTANTS
  Accounts <- MCAccounts
  Pairs <- MCPairs
  MaxCalls = 3
  MaxSets = 2
CHECK_DEADLOCK FALSE
INVARIANTS
  AllAuthenticated
