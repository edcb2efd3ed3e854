SPECIFICATION Spec
CONSTANTS
  Ids = {i1,i2}
  Users = {u1,u2}
  Fields = {}
  Calls = {c1,c2}
  Redis = TRUE
  Ttl = 1
  StoreTtl = 3
  MaxTime = 3
  Null = Null
  NoSession = NoSession
  NoJob = NoJob
SYMMETRY Symmetry
PROPERTIES ImplementsHeldLife OthersSurvive
