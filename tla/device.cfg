SPECIFICATION DeviceSpec
CONSTANTS
  GateOpenDuration = 2
  Goroutines <- MCGoroutines
  MaxNotices = 1
  KeypadDuringBoot = TRUE
INVARIANTS DeviceTypeOK PinsFollowStateWhileUp RecentStatusSettles AutoClosePending
PROPERTIES LockedOpenWhileUp LoneOpeningLasts KeepsContract RelayReleased
