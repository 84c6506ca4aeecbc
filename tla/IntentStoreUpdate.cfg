SPECIFICATION StoreSpec
CONSTANTS
  i1 = i1
  cancel = cancel
  dispatch = dispatch
  typo = typo
  Actions <- MCActions
  VerbOf <- MCVerbOf
  ImpactOf <- MCImpactOf
  Declared <- MCActions
  Prohibited = {}
  Invertible <- MCInvertible
  Intents <- MCIntents
  People = {see, op1, op2}
  NoOne = NoOne
  IdemKeys = {k1}
  NoKey = NoKey
  IntentOf <- MCIntentOf
  Unminted <- MCUnminted
  SingleOperator = FALSE
  MaxUpdates = 1
PROPERTY UpdateLeavesSettledAlone
CHECK_DEADLOCK FALSE
