SPECIFICATION ReadingSpec
CONSTANTS
  None = None
  Part = {"pages", "calls", "groups", "documents", "stubs"}
  Pages = 2
  OcrRead <- OcrAnswers
  VisionLen <- Transcripts
  Fallback = TRUE
  Documents = 3
  Readers = 2
  Sections <- CaseSections
  Budget <- OutputBudget
  MaxOutput = 4
  MaxAttempts = 2
  Document <- Papers
  Answer <- Extractions
  Figure = {0, 1, 2}
  Bundles <- ReadPackets
  CertForms = {"50059", "tic", "rd"}
  HudForms = {"rd", "50059"}
  Hud50059 = "50059"
  Untyped = "unknown"
  StubsRead <- StubPackets
  Alike <- NearIdentical
  Width <- Employers
INVARIANTS TypeOK TextIsOfTheImage DoubtfulPagesAreReadAgain FinishedAuditHasReadEverything ACertificationIsRead EveryPageIsInOneGroup AmountsAreOnTheirPages StubsOfOneJobRunOn
PROPERTY ReliableTextIsNotShortened
