SPECIFICATION SafetySpec
CONSTANTS
  Env = {prod}
  DefaultEnv = prod
  NoPrefix = NoPrefix
  Case = {c1}
  Docs = {d1}
  NoDocs = NoDocs
  NoPacket = NoPacket
  Worker = {w1, w2}
  Relief = {}
  Submitter = {"loop", "resume"}
  NoTask = NoTask
  Stale = 1
  Configured = {prod}
  Attempts = 1
  Sender = {prod}
  MaxNotify = 2
  MaxStops = 1
  NetworkFails = TRUE
  OddRequests = FALSE
  QuietBound = 2
  WaitBound = 2
SYMMETRY Symmetry
INVARIANTS OwnedIsHeld ResultsAreAccountedFor
