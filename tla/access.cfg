SPECIFICATION AccessSpec
CONSTANTS
  DayLength = 3
  Groups = {1, 2}
  Windows <- MCWindows
  NoRow = NoRow
  NoWindow = NoWindow
INVARIANTS AccessTypeOK UndisturbedVerdict GrantIsVouched
