SPECIFICATION KeypadSpec
CONSTANTS
  Presses <- MCPresses
  maxKeysPerCode = 2
  ChannelSize = 6
  MaxPresses = 3
INVARIANTS KeypadTypeOK KeysConserved HalvesAreTimed ReadAsTyped
PROPERTIES KeepsKeypadContract
CHECK_DEADLOCK FALSE
