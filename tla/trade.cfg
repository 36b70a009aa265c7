SPECIFICATION TradeSpec
CONSTANTS
  Orders = {o1, o2}
  Quoted = {"funding_hedge", "carry_asset"}
  Prices = {90, 110}
  NoPrice = NoPrice
  Par = 100
  Capitals = {1000, 2000}
  FundingAdds <- MCFundingAdds
  MaxFundings = 1
  Clients = {c1, c2}
  Settler = settler
  NoOne = NoOne
INVARIANTS
  TypeOK
  LegsFollowOrder
  FlowsFollowLegs
  HedgeIdentity
  CapitalOnce
  CashConserved
PROPERTIES
  HistoryKept
  EveryoneReturns
