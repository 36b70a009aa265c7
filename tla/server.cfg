SPECIFICATION ServerSpec
CONSTANTS
  Processes = {p1, p2}
  NumFiles = 2
  RulesFile = 1
  AccountFile = 2
  MaxTries = 2
  MaxOutages = 1
  Confirms = {c1, c2}
  Answers = {"FILLED"}
  NumGroups = 3
  WithFacts = {3}
  WithPrice = {2}
  Hedges = {1}
  Exchanges = {b, o}
  Answering = {o}
  ReportEvery = 2
  Capital = 0
  MaxTrades = 1
  MaxCash = 2
  Texts <- MCTexts
  Running <- Good
  Conditions <- MCConditions
  Entities <- MCEntities
  Values <- MCValues
  Histories <- MCHistories
  MaxTime = 4320
  Grain = 1440
  MaxReadings = 2
  QueryMax = 9
  WindowTicks = 3
  MinCoverage = 90
  Threshold = 10
  BaselineLow = 3
  Deposit = 10
  Gains = {1}
  Flows = {10}
  MaxClock = 8
  MaxEvents = 3
  RateVenues = {b, o}
  Local = local
  Readings = {7, 8, 14}
  Tier = 8
  Friction = 12
  Base = 4
  HistoryDays = 2
  MaxDay = 3
  MaxHistory = 3
  FundingVenues = {b, o}
  DefiVenues = {b, o, q}
  RepoVenues = {b}
  FundingRates <- MCFundingRates
  DefiRates = {400, 2000}
  RepoRates = {500}
  HedgeCost = 365
  StableBase = 450
  EntryRate = 1900
  MinSpread = 400
  ReviewStatuses = {"retracted"}
  DefaultLimit = 3
  MaxRows = 3
  Pairs = {b, o}
  AnnualRates <- MCAnnualRates
  Period = 2
  HistoryWindow = 2
  Costs = 219
  Demanded = 5
  MaxMoment = 3
  MaxFunding = 3
INVARIANTS ServerTypeOK MigratedInOrder MirrorAccounted SnapshotExplained ParsedExactly VerdictsExact GateHonest ReplayExact EvidenceAgrees ReportExact
PROPERTIES BootsInTheEnd FillNotHeldUp LoopKeepsUp
CHECK_DEADLOCK FALSE
