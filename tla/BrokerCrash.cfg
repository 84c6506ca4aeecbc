SPECIFICATION FairBrokerSpec
CONSTANTS
  look = look
  note = note
  move = move
  pay = pay
  cancel = cancel
  erase = erase
  wipe = wipe
  hidden = hidden
  r1 = r1
  r2 = r2
  r3 = r3
  see = see
  op = op
  Actions <- MCActions
  VerbOf <- MCVerbOf
  ImpactOf <- MCImpactOf
  Declared <- MCActions
  Prohibited <- MCProhibited
  Invertible <- MCInvertible
  Callers = {c1}
  NoAction = NoAction
  Requests <- MCRequests
  NoRequest = NoRequest
  RequestOf <- MCRequestOf
  Widenable <- MCWidenable
  BaseGrants = {}
  MaxLateSets = 0
  Decisions <- MCDecisions
  NoDecision = NoDecision
  Serialised = TRUE
  MaxCalls = 2
  MaxLogErrors = 0
  MaxCrashes = 1
PROPERTY CrashDoesNotLeak
CHECK_DEADLOCK FALSE
