SPECIFICATION SafetySpec
CONSTANTS
  Env = {prod}
  DefaultEnv = prod
  NoPrefix = NoPrefix
  Case = {c1}
  Docs = {d1}
  NoDocs = NoDocs
  NoPacket = NoPacket
  Worker = {w1, w2}
  Relief = {}
  Submitter = {"loop", "resume"}
  NoTask = NoTask
  Stale = 2
  Configured = {prod}
  Attempts = 1
  Sender = {prod}
  MaxNotify = 3
  MaxStops = 1
  NetworkFails = FALSE
  OddRequests = TRUE
  QuietBound = 1
  WaitBound = 1
SYMMETRY Symmetry
INVARIANTS TypeOK OneAuditPerJob ExtractionFailureIsReported
PROPERTIES WatchdogSparesTheLiving ImplementsLifecycle
