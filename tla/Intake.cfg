SPECIFICATION Spec
CONSTANTS
  Events = {"e1", "e2", "e3", "e4"}
  KindOf <- MCKindOf
  BodyOf <- MCBodyOf
  StampOf <- MCStampOf
  Callers = {"detector", "operator", "nobody"}
  ScopesOf <- MCScopesOf
  SIGNATURE_WINDOW_MS = 2
  debounceMs = 1
  dedupeMax = 1
  maxInFlight = 2
  MaxClock = 3
  MaxDeliveries = 4
  Feeds = {"f1", "f2"}
  reconnectMs = 1
  maxReconnectMs = 3
  MaxCloses = 3
  Sightings <- MCSightings
  Cameras = {"c1", "coco-live"}
  clearAfterQuiet = 2
  contextSize = 2
  JudgedTypes = {"traffic-accident", "fire"}
  MaxObservations = 5
  Intents = {"i1", "i2", "demo"}
  DemoIntents = {"demo"}
  Sensitive = {"i1"}
  Tools = {"pay", "look"}
  Gated = {"pay"}
  Names = {"pay", "look", "dance"}
  NoTool = NoTool
  LastUpdate = 3
  FileOf <- MCFileOf
  NoFile = NoFile
  MaxDoorFaults = 2
  Calls = {q1, q2}
  MaxCopies = 2
  Sockets = {"s1", "s2", "s3"}
  ClipOf <- MCClipOf
  NoSocket = NoSocket
  MaxSceneFaults = 2
  QUEUE_DEPTH = 2
  MaxPairs = 3
  MaxCommands = 1
  MaxVisits = 2
  MaxPoints = 3
  MaxBlobs = 2
  BUFFER = 2
  MaxSockets = 3
  MaxDetections = 4
  MaxResets = 1
  Nothing = Nothing
INVARIANTS
  IntakeTypeOK
  StreamPromise
  DoorPromise
  NeverRebuilt
  CloudPromise
  FeedPromise
PROPERTIES
  DialerPromise
  JudgePromise
  
  
CHECK_DEADLOCK FALSE
