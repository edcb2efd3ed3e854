SPECIFICATION Spec
CONSTANTS
  Requests = {r1,r2}
  Nothing = Nothing
  t1 = t1
  t2 = t2
  b1 = b1
  b2 = b2
  b3 = b3
  u1 = u1
  Ids = {a,b}
  Tenants = {x1,x2}
  Keys = {k1,k2}
  Types = {y1}
  Actions = {q1}
  Resources = {w1,w2}
  Contents = {c1}
  LogIds = {1,2,3}
  LogTenants = {t1}
  LogUsers = {u1}
  GivenLogs <- GivenTrail
  PageLimit = 1
  MaxDays = 0
  LastDay = 2
  MetricIds = {m1,m2,m3}
  MetricNames = {m}
  Values = {1,3}
  Hours = {0,1,2,4,5,6,7,11,12}
  Dates = {1,6}
  HoursPerDay = 2
  DaysPerMonth = 3
  MonthsPerYear = 2
  NoMetric = NoMetric
  Bearers = {b1,b2,b3}
  TenantOf <- GivenTenants
  Paths = {"users","roles","login","permissions"}
  OpenPaths = {"login"}
  PermitPaths = {"permissions"}
  PluginMapping <- GivenMapping
  PluginNames = {"user"}
  ClientKeys = {z1,z2}
  WindowTicks = 2
  MaxRequests = 2
  LastTick = 3
  MaxArrivals = 3
  NoWindow = NoWindow
SYMMETRY Symmetry
CHECK_DEADLOCK FALSE
INVARIANTS PermissionsDistinct NothingSkipped TrendInOrder TenantOfTheToken FixedWindowRate
PROPERTIES UsersStayWithTheirTenant
