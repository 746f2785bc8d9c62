SPECIFICATION Spec
CONSTANTS
  Env = {prod, staging}
  DefaultEnv = prod
  NoPrefix = NoPrefix
  Case = {c1}
  Docs = {d1}
  NoDocs = NoDocs
  NoPacket = NoPacket
  Worker = {w1, w2}
  Relief = {w2}
  Submitter = {"loop", "resume"}
  NoTask = NoTask
  Stale = 2
  Configured = {prod}
  Attempts = 1
  Sender = {staging}
  MaxNotify = 2
  MaxStops = 2
  NetworkFails = FALSE
  OddRequests = TRUE
  QuietBound = 3
  WaitBound = 3
PROPERTIES OwnedRowsSettle
