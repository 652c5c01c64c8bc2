SPECIFICATION SurfaceSpec
CONSTANTS
  c1 = c1 c2 = c2 Nobody = Nobody
  Call = {c1, c2}
  Body <- Bodies
  Nodes <- AllNodes
  Decoded <- Trees
  Sensitive <- SensitiveKeys
  MaxUnsigned = 7
  MaxSigned = 3
  MaxDouble = 7
  MaxResources = 2
  MaxScopes = 2
  MaxRecords = 3
  MaxAttributes = 2
  MaxBuckets = 3
  MaxText = 5
  r1 = r1 r2 = r2 k1 = k1 k2 = k2
  Process = {1, 2}
  DemoRelease = {1, 2, 3}
  Scenario <- ScenarioOf
  Entity = {1, 2}
  MaxStarts = 4
  Replica = {1, 2}
  Key = {"k1"}
  Payload = {"p1", "p2"}
  Refs <- RefsOf
  Evidence = {"e1"}
  Output <- Computed
  Releases = 2
  MaxRequests = 3
  Caller = {1, 2, 3}
  SessionOf <- TwoSessions
  Content = {1}
  Window = 1
  Horizon = 2
  Versions = 2
  Calls = 2
  Request = {r1, r2}
  GitHubKey = {k1, k2}
  Item <- Runs
  FirstRuns = 4
  PerPage = 2
  MaxPages = 3
  MaxRemovals = 1
  AppProcess = {p1, p2}
  TableOrder <- TwoTables
  Immutable <- OneGuarded
  Crashes = 1
  Observer = {"observer"}
  Path <- Shipped
  Bytes <- BytesOf
  Builds = 2
  Observations = 1
  Client = {"client"}
  Subject = {"x", "y"}
  LastEntity = 3
  Limit = 1
  ScanLimit = 3
  LoadPages = 3
  MaxRows = 4
  MaxVersions = 2
  Intents <- Questions
  AskEntity <- Asked
  RowsOf <- Rows
  Receipts <- Appended
  EntityLimit = 2
  ReceiptLimit = 1
  Day = 2
  MaxWrites = 3
CHECK_DEADLOCK FALSE
INVARIANTS
  OtlpSound
  CensusExact
  ProjectionsHonest
  AnalysesHold
  AnswersEarned
  WalksComplete
  SchemaSound
  VerifiedIsARelease
  SessionsHold
  StartupSound
