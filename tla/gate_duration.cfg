SPECIFICATION Spec
CONSTANTS
  GateOpenDuration = 2
  Goroutines <- MCGoroutines
  MaxNotices = 1
PROPERTIES StaysOpenForDuration
