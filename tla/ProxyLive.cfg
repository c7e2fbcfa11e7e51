SPECIFICATION LiveSpec
CONSTANTS
  Conns = {c1, c2}
  a1 = a1
  a2 = a2
  g1 = g1
  Assets = {a1, a2}
  NoAsset = NoAsset
  Gateways = {g1}
  NoGateway = NoGateway
  GatewayOf <- MCGatewayOf
  MaxLive = 1
  MaxCmds = 0
  Faults = {"log"}
PROPERTIES SessionEnds StopReturns
CHECK_DEADLOCK FALSE
