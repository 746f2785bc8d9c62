SPECIFICATION SafetySpec
CONSTANTS
  Env = {prod, staging}
  DefaultEnv = prod
  NoPrefix = NoPrefix
  Case = {c1}
  Docs = {d1}
  NoDocs = NoDocs
  NoPacket = NoPacket
  Worker = {w1, w2, w3}
  Relief = {w3}
  Submitter = {"loop", "resume"}
  NoTask = NoTask
  Stale = 2
  Configured = {prod, staging}
  Attempts = 2
  Sender = {staging}
  MaxNotify = 2
  MaxStops = 2
  NetworkFails = FALSE
  OddRequests = TRUE
  QuietBound = 1
  WaitBound = 3
SYMMETRY Symmetry
INVARIANTS OneAuditPerJob
PROPERTIES WatchdogSparesTheLiving
