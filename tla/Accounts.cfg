SPECIFICATION Spec
CONSTANTS
  Requests = {r1,r2}
  Nothing = Nothing
  UserIds = {u1}
  Emails = {e1}
  Passwords = {p1,p2}
  ResetTokens = {t1}
  Identities = {i1,i2}
  LinkIds = {k1,k2}
  MaxLogins = 2
  TokenIds = {1,2,3,4}
  Subs = {u1}
  PerSecond = 2
  AccessLife = 2
  RefreshLife = 2
  Horizon = 5
  RoleIds = {a}
  PermissionIds = {1,2}
  Holders = {u1}
  Codes = {p1,p2}
  GivenActs = {"manage","delete"}
  GivenSubjects = {"User"}
SYMMETRY Symmetry
CHECK_DEADLOCK FALSE
INVARIANTS LoginsCounted OnePrimary RevokedToTheLastSecond FixedRulesHold
PROPERTIES NoPasswordRevived
