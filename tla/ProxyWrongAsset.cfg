SPECIFICATION Spec
CONSTANTS
  Conns = {c1, c2}
  a1 = a1
  a2 = a2
  g1 = g1
  Assets = {a1, a2}
  NoAsset = NoAsset
  Gateways = {g1}
  NoGateway = NoGateway
  GatewayOf <- MCGatewayOf
  MaxLive = 2
  MaxCmds = 1
  Faults = {}
SYMMETRY Symmetry
INVARIANTS RunsOnRecordedAsset
