SPECIFICATION Spec
CONSTANTS
  Requests = {r1,r2}
  Nothing = Nothing
  ReportIds = {a,b}
  Mails = {m,n}
  Checks = {k1,k2}
  Attempts = 3
  Concurrency = 1
  Growth = 0
  FailedMax = 1
  WaitingMax = 1
  Cooldown = 2
  Horizon = 6
  MaxCrashes = 1
  Users = {u1,u2,u3}
  Calls = {c1,c2,c3}
  Serial = FALSE
  Nobody = Nobody
  NoData = NoData
  NoJob = NoJob
  Names = {p,q,s,x}
  Strangers = {x}
  Subjects = {e}
  Roles = {f,g}
  AccessExpiry = 2
  RefreshExpiry = 3
  LastSecond = 4
  users = users
  userById = userById
  Routes = {users,userById}
  CutTo <- CutToUsers
  StatusCodes = {200,400}
  Durations = {1,2}
  MaxErrors = 2
  MaxMetrics = 2
  MaxRecords = 4
  Actors = {b1,b2}
  MaxSessions = 3
  ToolNames = {t}
  Params = {y}
  Blank = Blank
  Clients = {d1,d2}
  NoToken = NoToken
  Sections = {"db","driver"}
  Defaults <- GivenDefaults
  Provided <- GivenTrees
  Unset = Unset
  Vacant = Vacant
  MaxDefines = 2
CHECK_DEADLOCK FALSE
INVARIANTS CompletedIsThere CompletedWasSent ConflictsExact ChainsEnd KeptIsTheNewest OneSession TransportsAgree
PROPERTIES MailSettles ChecksEnd FlagsClear TestTellsTheTruth MergesACopy
