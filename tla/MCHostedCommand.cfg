CONSTANTS
  ProtocolVersions = {"1", "2"}
  ExpectedVersion = "1"
  MaxQueries = 2
  ReadyTimeout = 1
  RequestTimeout = 3
  HealthTimeout = 1
  ShutdownTimeout = 1
  MaxReplaySafeRestarts = 3
  Issues = {"BundleMissing"}
  MaxRequests = 2
  MaxUnread = 1
  Commands = {"knowledge", "lane", "run", "client"}
SPECIFICATION FairSpec
CHECK_DEADLOCK FALSE
INVARIANTS
  TypeOK
  RecoveredNeverClean
  ExitCodeHonest
  PhasesDistinct
  FinalStatusesAgree
  NoQueryLost
  QueryIsNoAnswer
  ErrorNeverSuccess
  ReadyIsOfThisWorker
PROPERTIES
  ReplayOnlyWhenSafe
  GracefulMeansAcknowledged
  AlwaysAnswers
