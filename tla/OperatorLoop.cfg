SPECIFICATION FairLoopSpec
CONSTANTS
  i1 = i1
  i2 = i2
  pay = pay
  cancel = cancel
  r1 = r1
  r2 = r2
  t1 = t1
  t2 = t2
  Actions <- OneAction
  VerbOf <- OneVerbOf
  ImpactOf <- OneImpactOf
  Declared <- OneAction
  Prohibited = {}
  Invertible = {}
  Intents <- OneIntent
  People = {see, op}
  NoOne = NoOne
  IdemKeys = {}
  NoKey = NoKey
  IntentOf <- OneIntentOf
  Unminted = {}
  SingleOperator = TRUE
  MaxUpdates = 0
  Callers = {loop}
  NoAction = NoAction
  Requests = {r1}
  NoRequest = NoRequest
  RequestOf <- OneRequestOf
  Widenable = {r1}
  BaseGrants = {}
  MaxLateSets = 1
  Decisions <- Decision
  NoDecision = NoDecision
  Serialised = TRUE
  MaxCalls = 2
  MaxLogErrors = 1
  MaxCrashes = 1
  Loop = loop
  Operator = op
  Phones = {t1}
  Door = TRUE
  MaxLostRows = 1
INVARIANTS
  LoopTypeOK
  TrailIsTrue
  NoSilentLeak
  OpenMatchesPolicy
PROPERTIES
  RunsInWindow
  KeepsTheGate
  HaltCloses
  LoopReturns
  WindowCloses
CHECK_DEADLOCK FALSE
