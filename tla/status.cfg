SPECIFICATION StatusSpec
CONSTANTS
  Statuses = {"connected"}
  Commands <- MCCommands
  Requests = {r1, r2}
  MaxTime = 3
SYMMETRY MCSymmetry
INVARIANTS
  StatusTypeOK
  LatestIsLogged
  LoggedCommandsWereTaken
  SettledStatusIsPersisted
PROPERTY
  StatusNeverGoesBack
