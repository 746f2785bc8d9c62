SPECIFICATION RecordsSpec
CONSTANTS
  None = None
  Part = {"incomes", "figures", "form", "accounts", "family", "links", "verdicts"}
  Member <- People
  NoMember <- nobody
  Canonical <- SpelledAs
  Source <- Payers
  NoSource = "none"
  SelfDeclaration = "self"
  GenericSource = {"support ledger"}
  Alike <- Overlapping
  HouseholdType = {"support"}
  BenefitType = {"ss", "ssi"}
  WageType = "wage"
  CertForm = {"tic"}
  Application = "app"
  Packet <- Extractions
  Statements <- StatementsRead
  Declared <- AssetLines
  LastFour <- EndingIn
  OneSlip <- NearNumbers
  Misread <- NearAmounts
  Certificate = "TIC"
  Packets <- Families
  Similarity <- Percent
  NameLength <- Letters
  ShortName <- ShortNames
  OneEdit <- SurnamesNear
  EndsIn <- Ends
  FullNumbers = {"111-11-1111"}
  DayOf <- MonthAndDay
  Payloads <- PayloadsBuilt
  Closeness <- Resembles
  Body <- Bodies
  NoRef = "no ref"
  NoKey = "no key"
  MaxSends = 2
INVARIANTS VerifiedIncomeSurvives OneRecordPerSource OrphanStubsHaveARecord CountedFigureIsTheIncome VerifiedIncomeIsNotDeclaredBeside NoAccountIsCountedTwice MembersAreNeverJoined ConflictingIdentitiesAreReported TheCertificationsValueStands RowsGoToTheBetterClaim AcceptedVerdictsStand
PROPERTY CollapseDropsNoFigureSilently
