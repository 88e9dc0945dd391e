SPECIFICATION FairSpec
CONSTANTS
  MaxIntents = 2
  MaxInstance = 2
  MaxAttempt = 2
  NoPlan = NoPlan
  NoReceipt = NoReceipt
  NoPointer = NoPointer
  Nowhere = Nowhere
INVARIANT IntentsSurvive
PROPERTIES ImplementsHookContract AttemptsAreUnique EveryBatchSettles
