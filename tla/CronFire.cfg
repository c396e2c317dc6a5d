SPECIFICATION FairSpec
CONSTANTS
  old = old
  new = new
  Nobody = Nobody
  MaxRuns = 2
  Gateways <- BothGateways
  Managed <- OldGateway
  Survivors <- NewGateway
  Direct <- NewGateway
CHECK_DEADLOCK FALSE
INVARIANTS
  FireInv
  DeliversAlone
  CompletedIsMarked
PROPERTIES
  RecordsInOrder
  SettledIsOver
  EveryRunSettles
  ClaimableAgain
