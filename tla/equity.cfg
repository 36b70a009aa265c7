SPECIFICATION Spec
CONSTANTS
  Orders = {o1, o2}
  Quoted = {"funding_hedge", "carry_asset", "repo"}
  Prices = {90, 110}
  NoPrice = NoPrice
  Par = 100
  Capitals = {1000, 2000}
  FundingAdds <- MCFundingAdds
  MaxFundings = 1
SYMMETRY MCSymmetry
INVARIANT EquityIdentity
