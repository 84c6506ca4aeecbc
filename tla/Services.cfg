SPECIFICATION Spec
CONSTANTS
  i1 = i1
  cancel = cancel
  dispatch = dispatch
  typo = typo
  Actions <- MCActions
  VerbOf <- MCVerbOf
  ImpactOf <- MCImpactOf
  Declared <- MCActions
  Prohibited = {}
  Invertible <- MCInvertible
  Intents <- MCIntents
  People = {see, op1, op2}
  NoOne = NoOne
  IdemKeys = {k1}
  NoKey = NoKey
  IntentOf <- MCIntentOf
  Unminted <- MCUnminted
  SingleOperator = FALSE
  MaxUpdates = 1
  MaxAppends = 5
  MaxSyncErrors = 1
  MaxShortWrites = 1
  MaxCrashes = 2
  MaxPowerLosses = 1
  Tokens = {t1, t2}
  UndoCalls = {u1, u2, u3}
  MaxLate = 1
  ApiRequests <- MCRequests
  Senders = {"edge", "op"}
  GrantOf <- MCGrantOf
  Keys = {"k1", "k2"}
  KeyLess = "-"
  SIG_WINDOW = 1
  nonceMax = 2
  capacity = 2
  refill = 1
  MaxTime = 3
  MaxAnswers = 3
  MaxSetBacks = 1
  Docs = {d1, d2}
  AddCalls = {a1, a2}
  hasEmbedder = TRUE
  Rules = {r1, r2, r3}
  Seed = {r1, r2}
  Torn = Torn
  MaxFaults = 2
  Words <- MCWords
  Negations = {"no", "without"}
  Qualifiers = {"visible", "apparent"}
  LengthOf <- MCLengthOf
  ruleList <- MCRules
  MaxWords = 5
  SkillNames <- MCSkillNames
  Manifests <- MCManifests
  Hosts = {"city", "dot"}
  Paths = {"/a", "/b"}
  Ports = {80, 81}
  NoEgress = NoEgress
  Shipped <- MCShipped
  Absent = Absent
  Empty = Empty
  Unreadable = Unreadable
  MaxDeploys = 4
  SimActions = {"a1", "a2", "a3", "a4"}
  RuleOf <- MCRuleOf
  Standing <- MCStanding
  MaxDeltas = 5
  Viewers = {"v1", "v2", "v3"}
  TopicOf <- MCTopicOf
  Topics = {"frame", "observation"}
  MayRead = {"v1", "v3"}
  openOutputs = TRUE
  sizeOf <- MCSizeOf
  maxBuffered <- MCMaxBuffered
  Labels = {"action", "normal"}
  MaxPublished = 3
  MaxStarts = 2
  NoFrame = NoFrame
  MaxFrames = 2
  MaxSwitches = 1
  OtherDevices <- MCOtherDevices
  MaxRuns = 2
  MaxFiled = 3
  MaxPairingFaults = 1
  Audiences = {{"rgb"}, {"detection"}}
INVARIANTS
  ServicesTypeOK
  SettledHasQuorum
  OneOutcome
  AwaitingIsOpen
  ChainVerifies
  AckedSeqsIncrease
  AckedSurvives
  UndoPromise
  
  OpenIsNeeded
  
  PairingPromise
PROPERTIES
  SettledIsFrozen
  
  
  
  LivePromise
CHECK_DEADLOCK FALSE
