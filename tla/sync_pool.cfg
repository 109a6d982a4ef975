SPECIFICATION SyncSpec
CONSTANTS
  Codes <- MCCodes
  Groups <- MCGroups
  MaxWrites = 1
  PoolBounded = TRUE
  MaxConnections = 2
PROPERTIES SyncsAgain
