SPECIFICATION TxSpec
CONSTANTS
  Orders = {o1}
  Quoted = {"funding_hedge", "carry_asset"}
  Prices = {100}
  NoPrice = NoPrice
  Par = 90
  Capitals = {1000}
  FundingAdds = {1}
  MaxFundings = 1
  Clients = {c1, c2}
  Settler = settler
  NoOne = NoOne
PROPERTY FundingOnlyOpen
