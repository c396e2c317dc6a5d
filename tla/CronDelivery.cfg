SPECIFICATION FairSpec
CONSTANTS
  old = old
  new = new
  Nobody = Nobody
  MaxRequests = 2
  Gateways <- BothGateways
  Survivors <- NewGateway
  Limit = 2
  Keep = 1
  Repeated <- First
INVARIANTS
  DeliveryInv
  RetentionBound
PROPERTIES
  AtMostOneSend
  ReportsAgree
  EveryRowSettles
