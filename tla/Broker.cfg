SPECIFICATION BrokerSpec
CONSTANTS
  look = look
  note = note
  move = move
  pay = pay
  cancel = cancel
  erase = erase
  wipe = wipe
  hidden = hidden
  r1 = r1
  r2 = r2
  r3 = r3
  see = see
  op = op
  Actions <- MCActions
  VerbOf <- MCVerbOf
  ImpactOf <- MCImpactOf
  Declared <- MCActions
  Prohibited <- MCProhibited
  Invertible <- MCInvertible
  Callers = {c1, c2}
  NoAction = NoAction
  Requests <- MCRequests
  NoRequest = NoRequest
  RequestOf <- MCRequestOf
  Widenable <- MCWidenable
  BaseGrants = {r2}
  MaxLateSets = 1
  Decisions <- MCDecisions
  NoDecision = NoDecision
  Serialised = FALSE
  MaxCalls = 2
  MaxLogErrors = 1
  MaxCrashes = 1
INVARIANTS
  BrokerTypeOK
  RunsAreAllowed
  RunsHaveEvidence
CHECK_DEADLOCK FALSE
