SPECIFICATION SyncSpec
CONSTANTS
  Codes <- MCCodes
  Groups <- MCGroups
  MaxWrites = 3
  PoolBounded = FALSE
  MaxConnections = 1
INVARIANTS SyncTypeOK
PROPERTIES OnlyOvertakenGoesBack StartSyncNeverGoesBack StaysInStep Converges
