SPECIFICATION SyncSpec
CONSTANTS
  Codes <- MCCodes
  Groups <- MCGroups
  MaxWrites = 2
  PoolBounded = FALSE
  MaxConnections = 1
PROPERTIES DeletedCodeGoes
