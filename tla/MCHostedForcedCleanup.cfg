CONSTANTS
  ProtocolVersions = {"1", "2"}
  ExpectedVersion = "1"
  MaxQueries = 1
  ReadyTimeout = 1
  RequestTimeout = 3
  HealthTimeout = 1
  ShutdownTimeout = 1
  MaxReplaySafeRestarts = 3
  Issues = {"BundleMissing"}
  MaxRequests = 2
  MaxUnread = 1
  Commands = {"run"}
SPECIFICATION Spec
CHECK_DEADLOCK FALSE
INVARIANT ForcedCleanupVisible
