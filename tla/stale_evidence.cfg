SPECIFICATION EvidenceSpec
CONSTANTS
  FundingVenues = {b, o}
  DefiVenues = {b}
  RepoVenues = {b}
  FundingRates = {500, 2000}
  DefiRates = {400}
  RepoRates = {500}
  HedgeCost = 365
  StableBase = 450
  EntryRate = 1900
  MinSpread = 400
  ReviewStatuses = {"retracted"}
  DefaultLimit = 2
  MaxRows = 3
INVARIANT NewestShown
CHECK_DEADLOCK FALSE
