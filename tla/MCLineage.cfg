SPECIFICATION Spec
CONSTANTS
  MaxGen = 3
  Keep = {0, 1, 3}
INVARIANTS LineageSurvivesInterruption
