SPECIFICATION DeviceSpec
CONSTANTS
  GateOpenDuration = 1
  Goroutines <- MCGoroutines
  MaxNotices = 1
  KeypadDuringBoot = FALSE
INVARIANTS RetainedStatusSettles
