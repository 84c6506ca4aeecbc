SPECIFICATION LoopSpec
CONSTANTS
  i1 = i1
  i2 = i2
  pay = pay
  cancel = cancel
  r1 = r1
  r2 = r2
  t1 = t1
  t2 = t2
  Actions <- TwoActions
  VerbOf <- TwoVerbOf
  ImpactOf <- TwoPersonImpactOf
  Declared <- TwoActions
  Prohibited = {}
  Invertible <- TwoInvertible
  Intents <- TwoIntents
  People = {see, op}
  NoOne = NoOne
  IdemKeys = {}
  NoKey = NoKey
  IntentOf <- TwoIntentOf
  Unminted = {}
  SingleOperator = FALSE
  MaxUpdates = 0
  Callers = {loop}
  NoAction = NoAction
  Requests <- TwoRequests
  NoRequest = NoRequest
  RequestOf <- TwoRequestOf
  Widenable <- TwoRequests
  BaseGrants = {}
  MaxLateSets = 0
  Decisions <- Decision
  NoDecision = NoDecision
  Serialised = TRUE
  MaxCalls = 1
  MaxLogErrors = 0
  MaxCrashes = 0
  Loop = loop
  Operator = op
  Phones = {t1, t2}
  Door = FALSE
  MaxLostRows = 0
INVARIANT SecondOperatorSettles
CHECK_DEADLOCK FALSE
