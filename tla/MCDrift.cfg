SPECIFICATION Spec
CONSTANTS
  Revision = {v1, v2}
  Executable = {v2}
  UserText = {u1}
  MaxNumber = 3
  Nothing = Nothing
  NoEntry = NoEntry
  NoRun = NoRun
  Undeclared = Undeclared
  Elsewhere = Elsewhere
CHECK_DEADLOCK FALSE
PROPERTIES RollbackKeepsDrift
