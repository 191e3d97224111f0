SPECIFICATION SuiteSpec
CONSTANTS
  Printers = {p1}
  Devices = {d1}
  Files = {"a"}
  StatusForms = {{"state", "start", "file", "progress", "hms"}, {"state", "file", "progress"}, {"start", "file"}, {"state"}}
  PushForms = {{"state", "start", "file", "progress", "hms"}, {"state"}}
  MaxPushChanges = 3
  MaxJobs = 2
  MaxChanges = 3
  MaxDrops = 2
  MaxQueue = 1
  MaxTokens = 2
  Names = {"a", "b"}
  Forms = {{"id", "st", "sub", "layer"}, {"st"}, {"file", "st"}, {"layer"}, {"cmd", "sub", "id"}, {"cmd", "sub", "file"}}
  MaxPrints = 2
  MaxSubmissions = 2
  MaxReports = 4
  MaxCalls = 1
  MetaForms = {{"id", "st", "sub", "layer"}, {"st"}}
  MaxMetaReports = 2
  QueueLimit = 3
  MaxSequence = 6
CHECK_DEADLOCK FALSE
INVARIANTS EachTransitionOnce NoActivityOutlivesItsPrint SnapshotIsOfThisPrint NewestArrives
PROPERTY FreshTokensSurvive
