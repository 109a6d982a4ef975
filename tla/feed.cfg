SPECIFICATION FeedSpec
CONSTANTS
  Codes = {"c1", "c2"}
  Marks = {"live"}
  Handlers <- MCHandlers
  MaxEvents = 1
INVARIANTS FeedTypeOK UndisputedFileWins
PROPERTIES ManualRowsStay
