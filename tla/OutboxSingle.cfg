SPECIFICATION FairSpec
CONSTANTS
  scan = scan
  chat = chat
  report = report
  MaxRows = 3
  Drainers <- OneDrainer
  Reclaimers <- OneDrainer
  Limit = 2
  Malformed <- TwoRow
INVARIANT LoneDrainerInv
PROPERTIES
  ImplementsDelivery
  EveryRowSettles
