SPECIFICATION IntakeSpec
CONSTANTS
  Env = {prod}
  DefaultEnv = prod
  NoPrefix = NoPrefix
  Case = {c1, c2, c3}
  Docs = {d1}
  NoDocs = NoDocs
  NoPacket = NoPacket
  Worker = {w1, w2}
  Relief = {}
  Submitter = {loop, resume}
  NoTask = NoTask
INVARIANTS IntakeTypeOK HeartbeatCoversLine
PROPERTIES NothingLeavesTheLineUnaudited EveryCaseIsBegun ImplementsLine
