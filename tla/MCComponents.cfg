SPECIFICATION AllSpec
CONSTANTS
  Rates <- SomeRates
  NoBucket = NoBucket
  Patience = 2
  PaceTime = 3
  Host = {"a", "b"}
  Allowance = 5
  Deadlines = {5}
  WaitBudget = 3
  Penalty = 2
  Delays = {2}
  Limit = 1
  MaxTime = 6
  Count = 2
  Revisions = {1, 2}
  Edited = {1}
  MaxId = 2
  Exec = 1
  CleanupEnd = 2
  MaxGen = 3
  Keep = {0, 1, 3}
INVARIANTS TypesOK SelectionIsSound NothingIsStranded 
PROPERTIES LineageIsKept RetirementsFinish RunsArePaced RequestsKeepLimits RemovesExactlyItsOwn WorkEnds
CHECK_DEADLOCK FALSE
