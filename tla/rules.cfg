SPECIFICATION EngineSpec
CONSTANTS
  Rules = {r1, r2}
  SimRules = {r1, r2}
  Entities = {e1, e2}
  DailyMax = 1
  MaxSignals = 3
  MaxAlerts = 2
SYMMETRY MCSymmetry
INVARIANTS
  EngineTypeOK
  CapOvershoot
  OrdersFollowAlerts
PROPERTY Announced
