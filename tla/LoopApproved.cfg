SPECIFICATION FairLoopSpec
CONSTANTS
  i1 = i1
  i2 = i2
  pay = pay
  cancel = cancel
  r1 = r1
  r2 = r2
  t1 = t1
  t2 = t2
  Actions <- OneAction
  VerbOf <- OneVerbOf
  ImpactOf <- OneImpactOf
  Declared <- OneAction
  Prohibited = {}
  Invertible = {}
  Intents <- OneIntent
  People = {see, op}
  NoOne = NoOne
  IdemKeys = {}
  NoKey = NoKey
  IntentOf <- OneIntentOf
  Unminted = {}
  SingleOperator = TRUE
  MaxUpdates = 0
  Callers = {loop}
  NoAction = NoAction
  Requests = {r1}
  NoRequest = NoRequest
  RequestOf <- OneRequestOf
  Widenable = {r1}
  BaseGrants = {}
  MaxLateSets = 0
  Decisions <- Decision
  NoDecision = NoDecision
  Serialised = TRUE
  MaxCalls = 1
  MaxLogErrors = 0
  MaxCrashes = 0
  Loop = loop
  Operator = op
  Phones = {t1}
  Door = FALSE
  MaxLostRows = 0
PROPERTY ApprovedIsAdmitted
CHECK_DEADLOCK FALSE
