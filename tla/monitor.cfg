SPECIFICATION MonitorSpec
CONSTANTS
  Sources = {s1}
  MaxReading = 2
  MaxFaults = 2
  Windows = 1
  MaxAlerts = 3
  Refused = {1}
  BatchSize = 2
  MaxUnrecorded = 1
  Lines = {l1}
  MaxSnapshots = 2
  Throttle = 1
  MaxFacts = 2
  MayDamage = TRUE
  NumVenues = 2
  NewestFirst = {2}
  PageSize = 2
  From = 2
  MaxSettlements = 4
  QueryLimit = 3
  MaxLive = 1
  MaxCuts = 1
  MaxQuotes = 3
  MaxWire = 1
  MaxBackoff = 4
INVARIANTS MonitorTypeOK RepeatsExcused MailsAccounted SectionInOrder HistoryOnce
PROPERTIES ImplementsFeed ReadingsArrive SilenceReported AllDelivered LinesKept CatchesUp QuotesConverge
