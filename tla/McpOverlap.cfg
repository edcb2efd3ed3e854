SPECIFICATION Spec
CONSTANTS
  Ids = {id1, id2}
  Servers = {s1, s2, s3}
  Links = {l1, l2, l3}
  Calls = {c1, c2}
  Transport = "websocket"
  Serial = FALSE
  NoId = NoId
  NoServer = NoServer
  NoLink = NoLink
  NoJob = NoJob
SYMMETRY Symmetry
INVARIANTS StartedListens
