SPECIFICATION PartsSpec
CONSTANTS
  GridCols = 4
  GridRows = 3
  Walls = 2
  Costs = {20000}
  Grounds <- SomeGrounds
  Starts <- SomeStarts
  Far = 100000000
  MaxEvents = 2
  MaxSessions = 1
  EventBound = 3
  SessionBound = 2
  UptimeBound = 1
  LifeBound = 2
  Payloads = {"start", "stop"}
  MqttQueueBound = 2
  Others = {"b"}
  VersionBound = 2
  FaultBound = 2
  Kinds = {"read", "stop", "diagnose", "flash", "script", "update"}
  InboxBound = 2
  PayloadLen = 2
  LongLen = 4
  SolTimeout = 2
  MishapBound = 2
INVARIANTS PendingWellFormed ReturnsToRoute InterruptReturns
  RetentionKeepsNewest OpenSessionExplained
  SubscribedWhileUp
  ListedMapsExist CopiesAgree MapInUseSurvives
  RequestsCleanUp FixIsRecent SearchIsRight
PROPERTIES PriorityRespected UpgradeBacksUp SessionRestored StopEnds
  ShutdownCompletes ImplementsService ParserRecovers
CHECK_DEADLOCK FALSE
