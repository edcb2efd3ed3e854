SPECIFICATION Spec
CONSTANTS
  Ids = {i1,i2}
  Users = {u1}
  Fields = {f1}
  Calls = {c1,c2}
  Redis = FALSE
  Ttl = 1
  StoreTtl = 3
  MaxTime = 2
  Null = Null
  NoSession = NoSession
  NoJob = NoJob
SYMMETRY Symmetry
PROPERTIES ImplementsLife
